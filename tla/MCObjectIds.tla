----------------------------- MODULE MCObjectIds -----------------------------
(* ObjectIds on a 6-bit id (2 zero bits, 2 session bits, 2 counter bits): *)
(* each session has 3 ids, so 6 calls per State exhaust it and go past it twice.   *)
EXTENDS ObjectIds

CONSTANTS t1, t2

MCThreads == {t1, t2}
=============================================================================
