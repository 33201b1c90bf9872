--------------------------- MODULE LinearHistory ---------------------------
(***************************************************************************)
(* What an Octo::State promises about its command history (spec.md, 3 and *)
(* 4.5): the recorded commands form ONE linear timeline with a cursor.     *)
(* Running an undoable command truncates the timeline at the cursor and    *)
(* appends the new record ("new-apply clears redo, no branching            *)
(* histories"); undo moves the cursor back by one; redo moves it forward.  *)
(* Nothing else ever changes the timeline: no record is lost, duplicated   *)
(* or reordered.  OctoState is shown to implement this module through the *)
(* mapping  hist = undo \o Reverse(redo),  pos = Len(undo).                *)
(***************************************************************************)
EXTENDS Naturals, Sequences

CONSTANT Records      \* the CommandRecords (command, result) a state can hold

VARIABLES hist,       \* the timeline of records, oldest first
          pos         \* how many of them are currently applied

vars == <<hist, pos>>

TypeOK == hist \in Seq(Records) /\ pos \in 0..Len(hist)

Init == hist = <<>> /\ pos = 0

\* A new undoable command: the records after the cursor are discarded.
Do(r) == /\ hist' = Append(SubSeq(hist, 1, pos), r)
         /\ pos' = pos + 1

Undo == /\ pos > 0
        /\ pos' = pos - 1
        /\ UNCHANGED hist

Redo == /\ pos < Len(hist)
        /\ pos' = pos + 1
        /\ UNCHANGED hist

Next == (\E r \in Records : Do(r)) \/ Undo \/ Redo

Spec == Init /\ [][Next]_vars
=============================================================================
