----------------------------- MODULE MCDataTypes -----------------------------
(***************************************************************************)
(* OctoState instantiated with DataTypesState and SetValueCommand         *)
(* (src/OctoCore/src/State_test.cpp).  Two of the five scalar fields the  *)
(* command handles are modelled, bool_arg and int32_arg, in the order its *)
(* forward() and backward() visit them; int64, double and string follow   *)
(* the same code.  An entry of m_key_value_store (and a *_prev_value      *)
(* result field) is a slot: {} when the key is absent, {v} when present.  *)
(***************************************************************************)
EXTENDS OctoState

Keys == <<"bool", "int32">>

Slots(V) == {{}} \cup {{v} : v \in V}

\* A SetValueCommand with the given argument fields set (cmd.bool_arg() = ...).
SetValue(args) == [cid |-> 1, args |-> args]

SVCommands == {SetValue([bool |-> TRUE, int32 |-> 15]),
               SetValue([bool |-> FALSE, int32 |-> 0]),
               SetValue([int32 |-> 0])}

SVCommandId(c) == c.cid

SVAccepts(c) == TRUE

NoValues == [bool |-> {}, int32 |-> {}]

SVDomains == [bool : Slots(BOOLEAN), int32 : Slots({0, 15})]

(* One "if (has_X_arg()) { ... }" block of forward(): the previous value, *)
(* if any, goes to the result (set_ raises on a read-only result), then   *)
(* the store takes the argument.                                          *)
SetStep(k, s, args, m) ==
    CASE s.err # "none" \/ k \notin DOMAIN args -> s
      [] s.kv[k] # {} /\ ~m -> [s EXCEPT !.err = "CommandResultMisuse"]
      [] s.kv[k] # {}       -> [s EXCEPT !.res[k] = s.kv[k], !.kv[k] = {args[k]}]
      [] OTHER              -> [s EXCEPT !.kv[k] = {args[k]}]

SVForward(c, d, r, m, n) ==
    LET s0 == [err |-> "none", kv |-> d, res |-> r]
        s2 == SetStep(Keys[2], SetStep(Keys[1], s0, c.args, m), c.args, m)
    IN  [err |-> s2.err, dom |-> s2.kv, res |-> s2.res, nid |-> n]

(* One block of backward(): restore the previous value or erase the key. *)
RestoreStep(k, kv, args, r) ==
    IF k \notin DOMAIN args THEN kv ELSE [kv EXCEPT ![k] = r[k]]

SVBackward(c, d, r) ==
    [err |-> "none",
     dom |-> RestoreStep(Keys[2], RestoreStep(Keys[1], d, c.args, r), c.args, r)]
=============================================================================
