--------------------------- MODULE OctoStateProofs ---------------------------
(***************************************************************************)
(* Proofs about OctoState for every value of its constants.               *)
(***************************************************************************)
EXTENDS OctoState, SequenceTheorems, TLAPS

\* The type of what a command's wrapped forward and backward return.
Outcome == [err : Errors, dom : Domains, res : Results, nid : Nat]

(* Registration::forward returns an outcome of the right shape whenever   *)
(* the command's own forward does, and the dynamic_cast fallback is one.  *)
LEMMA ForwardTyped ==
    ASSUME CommandsTyped,
           NEW c \in Commands, NEW d \in Domains, NEW r \in Results,
           NEW m \in BOOLEAN, NEW n \in Nat
    PROVE  Forward(c, d, r, m, n) \in Outcome
<1>1. CASE Accepts(c)
    BY <1>1 DEF CommandsTyped, Forward, Outcome
<1>2. CASE ~Accepts(c)
    BY <1>2 DEF Forward, Outcome, Errors
<1>3. QED BY <1>1, <1>2

LEMMA BackwardTyped ==
    ASSUME CommandsTyped,
           NEW c \in Commands, NEW d \in Domains, NEW r \in Results
    PROVE  Backward(c, d, r) \in [err : Errors, dom : Domains]
<1>1. CASE Accepts(c)
    BY <1>1 DEF CommandsTyped, Backward
<1>2. CASE ~Accepts(c)
    BY <1>2 DEF Backward, Errors
<1>3. QED BY <1>1, <1>2

(* Popping the last element of a non-empty sequence of S leaves a        *)
(* sequence of S one shorter, and the popped element is in S.            *)
LEMMA PopTyped ==
    ASSUME NEW S, NEW s \in Seq(S), s # <<>>
    PROVE  /\ SubSeq(s, 1, Len(s) - 1) \in Seq(S)
           /\ Len(SubSeq(s, 1, Len(s) - 1)) = Len(s) - 1
           /\ s[Len(s)] \in S
           /\ Len(s) \in Nat /\ Len(s) >= 1
<1>1. Len(s) \in Nat /\ Len(s) >= 1
    BY EmptySeq, LenProperties
<1>2. \A i \in 1..Len(s) - 1 : s[i] \in S
  <2> TAKE i \in 1..Len(s) - 1
  <2> QED BY <1>1, ElementOfSeq
<1>3. \A m, k \in Int : (\A i \in m..k : s[i] \in S) =>
         /\ SubSeq(s, m, k) \in Seq(S)
         /\ Len(SubSeq(s, m, k)) = IF m <= k THEN k - m + 1 ELSE 0
    BY SubSeqProperties
<1>4. 1 \in Int /\ Len(s) - 1 \in Int
    BY <1>1
<1>5. /\ SubSeq(s, 1, Len(s) - 1) \in Seq(S)
      /\ Len(SubSeq(s, 1, Len(s) - 1))
           = IF 1 <= Len(s) - 1 THEN Len(s) - 1 - 1 + 1 ELSE 0
    BY <1>2, <1>3, <1>4, Zenon
<1>6. Len(SubSeq(s, 1, Len(s) - 1)) = Len(s) - 1
  <2>1. \A k \in Nat : k >= 1 => (IF 1 <= k - 1 THEN k - 1 - 1 + 1 ELSE 0) = k - 1
      OBVIOUS
  <2>2. QED BY <1>1, <1>5, <2>1, Zenon
<1>7. s[Len(s)] \in S
    BY <1>1, ElementOfSeq
<1>8. QED BY <1>1, <1>5, <1>6, <1>7

-----------------------------------------------------------------------------
\* One step of Next preserves TypeOK (TypeOK is inductive as it stands).
LEMMA TypeOKStep ==
    ASSUME CommandsTyped, TypeOK, [Next]_vars
    PROVE  TypeOK'
<1>1. CASE \E c \in Commands : RunUnregistered(c)
    BY <1>1 DEF RunUnregistered, TypeOK, Errors
<1>2. CASE \E c \in Commands, a \in AllowUndo : InModelBounds /\ RunCommand(c, a)
  <2>1. PICK c \in Commands, a \in AllowUndo : RunCommand(c, a)
      BY <1>2
  <2> DEFINE o == Forward(c, dom, EmptyResult, TRUE, nextId)
  <2>2. o \in Outcome
      BY ForwardTyped DEF TypeOK, CommandsTyped
  <2>3. [cmd |-> c, res |-> o.res] \in Record
      BY <2>1, <2>2 DEF RunCommand, Record, Outcome
  <2>4. Append(undo, [cmd |-> c, res |-> o.res]) \in Seq(Record)
      BY <2>3, AppendProperties DEF TypeOK
  <2>5. <<>> \in Seq(Record)
      BY EmptySeq
  <2>6. QED
      BY <2>1, <2>2, <2>4, <2>5 DEF RunCommand, TypeOK, Outcome
<1>3. CASE Undo
  <2> DEFINE r == undo[Len(undo)]
             o == Backward(r.cmd, dom, r.res)
  <2>1. undo # <<>>
      BY <1>3 DEF Undo
  <2>2. SubSeq(undo, 1, Len(undo) - 1) \in Seq(Record) /\ r \in Record
      BY <2>1, PopTyped DEF TypeOK
  <2>3. o \in [err : Errors, dom : Domains]
      BY <2>2, BackwardTyped DEF TypeOK, Record
  <2>4. Append(redo, r) \in Seq(Record)
      BY <2>2, AppendProperties DEF TypeOK
  <2>5. QED
      BY <1>3, <2>2, <2>3, <2>4 DEF Undo, TypeOK
<1>4. CASE Redo
  <2> DEFINE r == redo[Len(redo)]
             o == Forward(r.cmd, dom, r.res, FALSE, nextId)
  <2>1. redo # <<>>
      BY <1>4 DEF Redo
  <2>2. SubSeq(redo, 1, Len(redo) - 1) \in Seq(Record) /\ r \in Record
      BY <2>1, PopTyped DEF TypeOK
  <2>3. o \in Outcome
      BY <2>2, ForwardTyped DEF TypeOK, Record
  <2>4. Append(undo, r) \in Seq(Record)
      BY <2>2, AppendProperties DEF TypeOK
  <2>5. QED
      BY <1>4, <2>2, <2>3, <2>4 DEF Redo, TypeOK, Outcome
<1>5. CASE UndoNothing \/ RedoNothing
    BY <1>5 DEF UndoNothing, RedoNothing, TypeOK, Errors
<1>6. CASE UNCHANGED vars
    BY <1>6 DEF vars, TypeOK
<1>7. QED
    BY <1>1, <1>2, <1>3, <1>4, <1>5, <1>6 DEF Next

(* Typing: for every instance whose commands return well-shaped outcomes, *)
(* the deques only ever hold records of registered commands, and the      *)
(* domain, the counter and the propagated exception keep their types.     *)
THEOREM TypeCorrect ==
    ASSUME CommandsTyped
    PROVE  Spec => []TypeOK
<1>1. Init => TypeOK
    BY IdsAssumption, EmptySeq DEF Init, TypeOK, CommandsTyped, Errors
<1>2. TypeOK /\ [Next]_vars => TypeOK'
    BY TypeOKStep
<1>3. QED
    BY <1>1, <1>2, PTL DEF Spec

-----------------------------------------------------------------------------
(* Lemmas on the timeline undo \o Reversed(redo) that the refinement rests *)
(* on: each of the three ways the deques change is, on the timeline, a    *)
(* truncation and append or no change at all.                             *)

\* Reversal keeps the elements and the length.
LEMMA ReversedTyped ==
    ASSUME NEW S, NEW s \in Seq(S)
    PROVE  Reversed(s) \in Seq(S) /\ Len(Reversed(s)) = Len(s)
BY DEF Reversed

\* The first Len(u) records of the timeline are m_undo.
LEMMA TimelinePrefix ==
    ASSUME NEW S, NEW u \in Seq(S), NEW v \in Seq(S)
    PROVE  SubSeq(u \o Reversed(v), 1, Len(u)) = u
<1>1. Reversed(v) \in Seq(S)
    BY ReversedTyped
<1>2. QED
    BY <1>1, SubSeqOfConcat1

\* Concatenation is associative, stated for all sequences over S so that
\* it can be cited at compound terms.
LEMMA ConcatAssoc ==
    ASSUME NEW S
    PROVE  \A x, y, z \in Seq(S) : (x \o y) \o z = x \o (y \o z)
<1>1. TAKE x, y, z \in Seq(S)
<1>2. QED
    BY ConcatAssociative

\* undo(): moving the last record of m_undo to the end of m_redo leaves
\* the timeline as it is.
LEMMA UndoKeepsTimeline ==
    ASSUME NEW S, NEW ud \in Seq(S), NEW rd \in Seq(S), ud # <<>>
    PROVE  SubSeq(ud, 1, Len(ud) - 1) \o Reversed(Append(rd, ud[Len(ud)]))
             = ud \o Reversed(rd)
<1>1. Len(ud) \in Nat /\ Len(ud) >= 1
    BY EmptySeq, LenProperties
<1>2. /\ SubSeq(ud, 1, Len(ud) - 1) \in Seq(S)
      /\ Len(SubSeq(ud, 1, Len(ud) - 1)) = Len(ud) - 1
      /\ ud[Len(ud)] \in S
    BY PopTyped
<1>3. PICK w \in Seq(S) : w = SubSeq(ud, 1, Len(ud) - 1)
    BY <1>2
<1>4. PICK l \in S : l = ud[Len(ud)]
    BY <1>2
<1>5. PICK v \in Seq(S) : v = Reversed(rd)
    BY ReversedTyped
<1>6. Reversed(Append(rd, l)) = <<l>> \o v
  <2>1. Append(rd, l) \in Seq(S) /\ Len(Append(rd, l)) = Len(rd) + 1
      BY AppendProperties
  <2>2. QED
      BY <2>1, <1>5 DEF Reversed
<1>7. w \o <<l>> = ud
    BY <1>1, <1>2, <1>3, <1>4
<1>8. (w \o <<l>>) \o v = w \o (<<l>> \o v)
  <2>1. <<l>> \in Seq(S)
      OBVIOUS
  <2>2. QED
      BY <2>1, ConcatAssoc
<1>9. QED
    BY <1>3, <1>4, <1>5, <1>6, <1>7, <1>8

\* redo(): moving the last record of m_redo to the end of m_undo leaves
\* the timeline as it is.
LEMMA RedoKeepsTimeline ==
    ASSUME NEW S, NEW u \in Seq(S), NEW v \in Seq(S), v # <<>>
    PROVE  Append(u, v[Len(v)]) \o Reversed(SubSeq(v, 1, Len(v) - 1))
             = u \o Reversed(v)
<1>1. Len(v) \in Nat /\ Len(v) >= 1
    BY EmptySeq, LenProperties
<1>2. QED
    BY <1>1 DEF Reversed


-----------------------------------------------------------------------------
(* The refinement of LinearHistory.  Its hypothesis: a recorded command   *)
(* can always be undone and redone, i.e. the command's backward, and its  *)
(* forward replayed with its recorded result (mutableResult = false),     *)
(* return without raising on a State that accepts it.  undo() and redo()  *)
(* pop the record before the call, so without it an exception loses the   *)
(* record (the run employees_undo_fails).                                  *)
ReplaySucceeds ==
    /\ \A c \in Commands, d \in Domains, r \in Results, n \in Nat :
         Accepts(c) => CmdForward(c, d, r, FALSE, n).err = "none"
    /\ \A c \in Commands, d \in Domains, r \in Results :
         Accepts(c) => CmdBackward(c, d, r).err = "none"

\* The records whose command the State's dynamic_cast accepts.
AcceptedRecord == {r \in Record : Accepts(r.cmd)}

(* The inductive invariant: TypeOK, and only commands that the State     *)
(* accepts are ever recorded (_runCommand records a command only when its *)
(* forward returned, and Registration::forward raises when the cast       *)
(* fails).                                                                 *)
RInv == TypeOK /\ undo \in Seq(AcceptedRecord) /\ redo \in Seq(AcceptedRecord)

\* A command whose wrapped forward returned is one the State accepts.
LEMMA ReturnedImpliesAccepted ==
    ASSUME NEW c, NEW d, NEW r, NEW m, NEW n,
           Forward(c, d, r, m, n).err = "none"
    PROVE  Accepts(c)
BY DEF Forward

LEMMA RInvStep ==
    ASSUME CommandsTyped, RInv, [Next]_vars
    PROVE  RInv'
<1>1. TypeOK'
    BY TypeOKStep DEF RInv
<1>2. CASE \E c \in Commands : RunUnregistered(c)
    BY <1>1, <1>2 DEF RunUnregistered, RInv
<1>3. CASE \E c \in Commands, a \in AllowUndo : InModelBounds /\ RunCommand(c, a)
  <2>1. PICK c \in Commands, a \in AllowUndo : RunCommand(c, a)
      BY <1>3
  <2> DEFINE o == Forward(c, dom, EmptyResult, TRUE, nextId)
  <2>2. CASE o.err = "none" /\ a
    <3>1. Accepts(c)
        BY <2>2, ReturnedImpliesAccepted
    <3>2. o \in Outcome
        BY ForwardTyped DEF RInv, TypeOK, CommandsTyped
    <3>3. [cmd |-> c, res |-> o.res] \in AcceptedRecord
        BY <2>1, <3>1, <3>2 DEF RunCommand, Record, Outcome, AcceptedRecord
    <3>4. Append(undo, [cmd |-> c, res |-> o.res]) \in Seq(AcceptedRecord)
        BY <3>3, AppendProperties DEF RInv
    <3>5. <<>> \in Seq(AcceptedRecord)
        BY EmptySeq
    <3>6. QED
        BY <1>1, <2>1, <2>2, <3>4, <3>5 DEF RunCommand, RInv
  <2>3. CASE ~(o.err = "none" /\ a)
      BY <1>1, <2>1, <2>3 DEF RunCommand, RInv
  <2>4. QED BY <2>2, <2>3
<1>4. CASE Undo
  <2>1. undo # <<>>
      BY <1>4 DEF Undo
  <2>2. /\ SubSeq(undo, 1, Len(undo) - 1) \in Seq(AcceptedRecord)
        /\ undo[Len(undo)] \in AcceptedRecord
      BY <2>1, PopTyped DEF RInv
  <2>3. Append(redo, undo[Len(undo)]) \in Seq(AcceptedRecord)
      BY <2>2, AppendProperties DEF RInv
  <2>4. QED
      BY <1>1, <1>4, <2>2, <2>3 DEF Undo, RInv
<1>5. CASE Redo
  <2>1. redo # <<>>
      BY <1>5 DEF Redo
  <2>2. /\ SubSeq(redo, 1, Len(redo) - 1) \in Seq(AcceptedRecord)
        /\ redo[Len(redo)] \in AcceptedRecord
      BY <2>1, PopTyped DEF RInv
  <2>3. Append(undo, redo[Len(redo)]) \in Seq(AcceptedRecord)
      BY <2>2, AppendProperties DEF RInv
  <2>4. QED
      BY <1>1, <1>5, <2>2, <2>3 DEF Redo, RInv
<1>6. CASE UndoNothing \/ RedoNothing \/ UNCHANGED vars
    BY <1>1, <1>6 DEF UndoNothing, RedoNothing, vars, RInv
<1>7. QED
    BY <1>2, <1>3, <1>4, <1>5, <1>6 DEF Next


\* The empty history is the empty timeline.
LEMMA EmptyTimeline ==
    <<>> \o Reversed(<<>>) = <<>>
BY DEF Reversed

(* Every step of the State is a step of LinearHistory on the timeline, or *)
(* leaves the timeline and the cursor as they are.                        *)
LEMMA StepRefines ==
    ASSUME CommandsTyped, ReplaySucceeds, RInv, [Next]_vars
    PROVE  [LH!Next]_LH!vars
<1> USE DEF RInv, TypeOK
<1>1. CASE \E c \in Commands : RunUnregistered(c)
    BY <1>1 DEF RunUnregistered, LH!vars, Timeline
<1>2. CASE \E c \in Commands, a \in AllowUndo : InModelBounds /\ RunCommand(c, a)
  <2>1. PICK c \in Commands, a \in AllowUndo : RunCommand(c, a)
      BY <1>2
  <2> DEFINE o == Forward(c, dom, EmptyResult, TRUE, nextId)
             rec == [cmd |-> c, res |-> o.res]
  <2>2. CASE o.err = "none" /\ a
    <3>1. rec \in Record
        BY <2>1, ForwardTyped DEF RunCommand, Record, Outcome, CommandsTyped
    <3>2. undo' = Append(undo, rec) /\ redo' = <<>>
        BY <2>1, <2>2 DEF RunCommand
    <3>3. Timeline' = Append(undo, rec)
      <4>1. Append(undo, rec) \in Seq(Record)
          BY <3>1, AppendProperties
      <4>2. Reversed(<<>>) = <<>>
          BY DEF Reversed
      <4>3. QED
          BY <3>2, <4>1, <4>2, ConcatEmptySeq DEF Timeline
    <3>4. SubSeq(Timeline, 1, Len(undo)) = undo
        BY TimelinePrefix DEF Timeline
    <3>5. Len(undo') = Len(undo) + 1
        BY <3>1, <3>2, AppendProperties
    <3>6. LH!Do(rec)
        BY <3>3, <3>4, <3>5 DEF LH!Do
    <3>7. QED
        BY <3>1, <3>6 DEF LH!Next
  <2>3. CASE ~(o.err = "none" /\ a)
      BY <2>1, <2>3 DEF RunCommand, LH!vars, Timeline
  <2>4. QED BY <2>2, <2>3
<1>3. CASE Undo
  <2> DEFINE r == undo[Len(undo)]
  <2>1. undo # <<>>
      BY <1>3 DEF Undo
  <2>2. r \in AcceptedRecord
      BY <2>1, PopTyped
  <2>3. Backward(r.cmd, dom, r.res).err = "none"
      BY <2>2 DEF Backward, ReplaySucceeds, AcceptedRecord, Record
  <2>4. undo' = SubSeq(undo, 1, Len(undo) - 1) /\ redo' = Append(redo, r)
      BY <1>3, <2>3 DEF Undo
  <2>5. Timeline' = Timeline
      BY <2>1, <2>4, UndoKeepsTimeline DEF Timeline
  <2>6. Len(undo) \in Nat /\ Len(undo) > 0 /\ Len(undo') = Len(undo) - 1
    <3>1. Len(SubSeq(undo, 1, Len(undo) - 1)) = Len(undo) - 1
          /\ Len(undo) \in Nat /\ Len(undo) >= 1
        BY <2>1, PopTyped
    <3>2. QED BY <2>4, <3>1
  <2>7. QED
      BY <2>5, <2>6 DEF LH!Next, LH!Undo
<1>4. CASE Redo
  <2> DEFINE r == redo[Len(redo)]
  <2>1. redo # <<>>
      BY <1>4 DEF Redo
  <2>2. r \in AcceptedRecord
      BY <2>1, PopTyped
  <2>3. Forward(r.cmd, dom, r.res, FALSE, nextId).err = "none"
      BY <2>2 DEF Forward, ReplaySucceeds, AcceptedRecord, Record
  <2>4. redo' = SubSeq(redo, 1, Len(redo) - 1) /\ undo' = Append(undo, r)
      BY <1>4, <2>3 DEF Redo
  <2>5. Timeline' = Timeline
      BY <2>1, <2>4, RedoKeepsTimeline DEF Timeline
  <2>6. /\ Len(redo) \in Nat /\ Len(redo) > 0
        /\ Len(undo) \in Nat /\ Len(undo') = Len(undo) + 1
    <3>1. Len(redo) \in Nat /\ Len(redo) >= 1
        BY <2>1, PopTyped
    <3>2. \A x \in AcceptedRecord : Len(Append(undo, x)) = Len(undo) + 1
        BY AppendProperties
    <3>3. QED BY <2>2, <2>4, <3>1, <3>2, LenProperties
  <2>7. Len(Timeline) = Len(undo) + Len(redo)
    <3>1. Reversed(redo) \in Seq(Record) /\ Len(Reversed(redo)) = Len(redo)
        BY ReversedTyped
    <3>2. \A x, y \in Seq(Record) : Len(x \o y) = Len(x) + Len(y)
        BY ConcatProperties
    <3>3. QED BY <3>1, <3>2 DEF Timeline
  <2>8. QED
      BY <2>5, <2>6, <2>7 DEF LH!Next, LH!Redo
<1>5. CASE UndoNothing \/ RedoNothing \/ UNCHANGED vars
    BY <1>5 DEF UndoNothing, RedoNothing, vars, LH!vars, Timeline
<1>6. QED
    BY <1>1, <1>2, <1>3, <1>4, <1>5 DEF Next

(* Refinement: under the hypothesis that recorded commands can always be  *)
(* undone and redone, the undo and redo deques of every State, read as    *)
(* the timeline undo \o Reversed(redo) with the cursor at Len(undo), are  *)
(* one linear history: no record is lost, duplicated or reordered, and a  *)
(* new undoable run truncates the redo branch (spec.md 3, 4.5).           *)
THEOREM RefinesLinearHistoryHolds ==
    ASSUME CommandsTyped, ReplaySucceeds
    PROVE  Spec => RefinesLinearHistory
<1>1. Init => RInv
    BY IdsAssumption, EmptySeq
       DEF Init, RInv, TypeOK, CommandsTyped, Errors
<1>2. RInv /\ [Next]_vars => RInv'
    BY RInvStep
<1>3. Init => LH!Init
    BY EmptyTimeline DEF Init, LH!Init, Timeline
<1>4. RInv /\ [Next]_vars => [LH!Next]_LH!vars
    BY StepRefines
<1>5. QED
    BY <1>1, <1>2, <1>3, <1>4, PTL DEF Spec, RefinesLinearHistory, LH!Spec

-----------------------------------------------------------------------------
(* The atomic-apply convention of spec.md 4.5, as a hypothesis on the      *)
(* commands: a command's forward or backward that raises returns the      *)
(* domain model it was given.  PurchaseCommand and FundCompanyCommand     *)
(* keep it by minting their ledger id before they mutate, BakeCommand     *)
(* never raises; InsertEmployeesCommand, which inserts each employee as   *)
(* soon as its id is minted, does not (the run employees_exhausted).      *)
AtomicApply ==
    /\ \A c \in Commands, d \in Domains, r \in Results, m \in BOOLEAN,
          n \in Nat :
         CmdForward(c, d, r, m, n).err # "none" => CmdForward(c, d, r, m, n).dom = d
    /\ \A c \in Commands, d \in Domains, r \in Results :
         CmdBackward(c, d, r).err # "none" => CmdBackward(c, d, r).dom = d

\* Registration::forward and ::backward keep the convention: their
\* dynamic_cast fallback raises before touching the domain.
LEMMA ForwardAtomic ==
    ASSUME AtomicApply,
           NEW c \in Commands, NEW d \in Domains, NEW r \in Results,
           NEW m \in BOOLEAN, NEW n \in Nat
    PROVE  Forward(c, d, r, m, n).err # "none" => Forward(c, d, r, m, n).dom = d
<1>1. CASE Accepts(c)
    BY <1>1 DEF AtomicApply, Forward
<1>2. CASE ~Accepts(c)
    BY <1>2 DEF Forward
<1>3. QED BY <1>1, <1>2

LEMMA BackwardAtomic ==
    ASSUME AtomicApply,
           NEW c \in Commands, NEW d \in Domains, NEW r \in Results
    PROVE  Backward(c, d, r).err # "none" => Backward(c, d, r).dom = d
<1>1. CASE Accepts(c)
    BY <1>1 DEF AtomicApply, Backward
<1>2. CASE ~Accepts(c)
    BY <1>2 DEF Backward
<1>3. QED BY <1>1, <1>2

(* Every step of the dispatcher, from a well-typed state, that propagates *)
(* an exception leaves the domain model as it was: none of _runCommand,   *)
(* undo() and redo() touches the domain other than through the command's *)
(* own forward or backward.                                                *)
LEMMA FailedStepKeepsDomain ==
    ASSUME CommandsTyped, AtomicApply, TypeOK, [Next]_vars
    PROVE  [raised' # "none" => dom' = dom]_vars
<1>1. CASE \E c \in Commands : RunUnregistered(c)
    BY <1>1 DEF RunUnregistered
<1>2. CASE \E c \in Commands, a \in AllowUndo : InModelBounds /\ RunCommand(c, a)
  <2>1. PICK c \in Commands, a \in AllowUndo : RunCommand(c, a)
      BY <1>2
  <2>2. EmptyResult \in Results /\ dom \in Domains /\ nextId \in Nat
      BY DEF TypeOK, CommandsTyped
  <2>3. Forward(c, dom, EmptyResult, TRUE, nextId).err # "none"
          => Forward(c, dom, EmptyResult, TRUE, nextId).dom = dom
      BY <2>2, ForwardAtomic
  <2>4. QED BY <2>1, <2>3 DEF RunCommand
<1>3. CASE Undo
  <2>1. undo # <<>>
      BY <1>3 DEF Undo
  <2>2. PICK r \in Record : r = undo[Len(undo)]
      BY <2>1, PopTyped DEF TypeOK
  <2>3. r.cmd \in Commands /\ r.res \in Results /\ dom \in Domains
      BY <2>2 DEF Record, TypeOK
  <2>4. Backward(r.cmd, dom, r.res).err # "none" => Backward(r.cmd, dom, r.res).dom = dom
      BY <2>3, BackwardAtomic
  <2>5. QED BY <1>3, <2>2, <2>4 DEF Undo
<1>4. CASE Redo
  <2>1. redo # <<>>
      BY <1>4 DEF Redo
  <2>2. PICK r \in Record : r = redo[Len(redo)]
      BY <2>1, PopTyped DEF TypeOK
  <2>3. r.cmd \in Commands /\ r.res \in Results /\ dom \in Domains /\ nextId \in Nat
      BY <2>2 DEF Record, TypeOK
  <2>4. Forward(r.cmd, dom, r.res, FALSE, nextId).err # "none"
          => Forward(r.cmd, dom, r.res, FALSE, nextId).dom = dom
      BY <2>3, ForwardAtomic
  <2>5. QED BY <1>4, <2>2, <2>4 DEF Redo
<1>5. CASE UndoNothing \/ RedoNothing
    BY <1>5 DEF UndoNothing, RedoNothing
<1>6. CASE UNCHANGED vars
    BY <1>6 DEF vars
<1>7. QED
    BY <1>1, <1>2, <1>3, <1>4, <1>5, <1>6 DEF Next

(* spec.md 4.5 and 7: for every instance whose commands keep the atomic-  *)
(* apply convention, no call of runCommand, undo or redo that raises      *)
(* changes the domain model; the core itself adds no partial mutation,    *)
(* neither on the unregistered-id path nor on the failed dynamic_cast.    *)
THEOREM FailedCallLeavesDomainHolds ==
    ASSUME CommandsTyped, AtomicApply
    PROVE  Spec => FailedCallLeavesDomain
<1>1. Spec => []TypeOK
    BY TypeCorrect
<1>2. TypeOK /\ [Next]_vars => [raised' # "none" => dom' = dom]_vars
    BY FailedStepKeepsDomain
<1>3. QED
    BY <1>1, <1>2, PTL DEF Spec, FailedCallLeavesDomain

=============================================================================
