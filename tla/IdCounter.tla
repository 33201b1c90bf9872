------------------------------ MODULE IdCounter ------------------------------
(***************************************************************************)
(* What Octo::State promises of next_object_id (spec.md 3, 4.5 and 8):    *)
(* each call is one atomic step on the State of its session K; the n-th   *)
(* call returns (K << 48) | n, and a call whose n no longer fits the 48   *)
(* counter bits throws object-id exhaustion, as does every later one.     *)
(* An entry of issued[K] is the outcome of one call: ok = FALSE when it   *)
(* threw, and id is then the counter value it fetched, which no caller    *)
(* sees.  ObjectIds is shown to implement this module with issued the     *)
(* outcomes minted of each State.                                         *)
(***************************************************************************)
EXTENDS Naturals, Sequences

CONSTANTS Sessions,      \* the sessions of the States that were constructed
          CounterBits    \* 48 in the code

VARIABLE issued          \* issued[K]: the outcomes of the calls on session K

Init == issued = [s \in Sessions |-> <<>>]

\* The outcome of the n-th call on the State of session s.
NthCall(s, n) == [id |-> s * 2^CounterBits + n, ok |-> n < 2^CounterBits]

NextObjectId(s) ==
    issued' = [issued EXCEPT ![s] = Append(@, NthCall(s, Len(@) + 1))]

Next == \E s \in Sessions : NextObjectId(s)

Spec == Init /\ [][Next]_issued
=============================================================================
