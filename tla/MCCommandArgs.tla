---------------------------- MODULE MCCommandArgs ----------------------------
(* CommandArgs with two fields, two values, two handles and one reference. *)
EXTENDS CommandArgs, TLC

CONSTANTS f1, f2, v1, v2, h1, h2, r1

MCFields == {f1, f2}
MCValues == {v1, v2}
MCHandles == {h1, h2}
MCRefs == {r1}

Perms == Permutations(MCHandles)
=============================================================================
