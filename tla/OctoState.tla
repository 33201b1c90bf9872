------------------------------ MODULE OctoState ------------------------------
(***************************************************************************)
(* Octo::State (src/OctoCore/State.h, src/OctoCore/src/State.cpp): the    *)
(* command dispatcher and its undo/redo history, together with the        *)
(* per-command wrappers CommandRegistry::Registration::forward/backward   *)
(* (src/OctoCore/Command.h) through which it runs every command.          *)
(*                                                                         *)
(* The domain model of a State subclass is opaque to the core, and so are *)
(* the commands: they are parameters of this module.  A command is a      *)
(* value of Commands (its CommandId and argument map); CmdForward and     *)
(* CmdBackward are the command's own forward() and backward() methods,    *)
(* applied to the domain, the result map and, for forward, the            *)
(* mutableResult flag and the object-id counter.  Both return an outcome  *)
(* record whose field err is the exception they raised ("none" if they    *)
(* returned): C++ exceptions roll nothing back, so the domain they return *)
(* is the one left behind whether or not they raised.  The MC modules     *)
(* supply the commands of the repository's State subclasses.              *)
(*                                                                         *)
(* The object-id counter m_next_object_id is modelled here by its low     *)
(* (per-session) part only; module ObjectIds models the full 64-bit       *)
(* layout, the session bits and the concurrent minting.                   *)
(***************************************************************************)
EXTENDS Naturals, Sequences

CONSTANTS
    Commands,                 \* the commands (CommandId, args) callers submit
    CommandIdOf(_),           \* CommandBase::commandId()
    Registered,               \* ids with an entry in _getCommandRegistry()
    Accepts(_),               \* acceptStatePtr(this) is not nullptr
    CmdForward(_, _, _, _, _),  \* forward(cmd, domain, result, mutable, counter)
    CmdBackward(_, _, _),     \* backward(cmd, domain, result)
    Domains,                  \* the domain-model values of the State subclass
    Results,                  \* the result maps
    Dom0,                     \* the domain model after the subclass constructor
    EmptyResult,              \* std::make_shared<Map>()
    FirstId,                  \* low part of m_next_object_id after State()
    IdLimit,                  \* first low part getNextObjectId refuses (2^48)
    AllowUndo,                \* the values callers pass as runCommand's allowUndo
    MaxHistory                \* model bound: records held in undo and redo together

ASSUME IdsAssumption == FirstId \in Nat /\ IdLimit \in Nat
ASSUME AllowUndoAssumption == AllowUndo \subseteq BOOLEAN /\ AllowUndo # {}
ASSUME MaxHistoryAssumption == MaxHistory \in Nat

\* The closed exception taxonomy of Exception.h ("none": no exception).
Errors == {"none", "InapplicableCommand", "CommandWillNotApply",
           "CommandResultMisuse", "StateError"}

\* A CommandRecord: the command (id and shared args) and its shared result.
\* Undo and redo look the id up again without a null check, so only
\* registered commands may ever be recorded.
Record == [cmd : {c \in Commands : CommandIdOf(c) \in Registered},
           res : Results]

VARIABLES
    dom,        \* the subclass's domain model
    nextId,     \* m_next_object_id (low part)
    undo,       \* m_undo, oldest record first
    redo,       \* m_redo, oldest record first (redo pops the last one)
    raised      \* the exception the last call propagated to its caller

vars == <<dom, nextId, undo, redo, raised>>

-----------------------------------------------------------------------------
(* getNextObjectId: fetch-and-increment; the id is refused once its       *)
(* counter part no longer fits, but the counter has moved on regardless.  *)
GetNextObjectId(n) == [id |-> n, nid |-> n + 1, ok |-> n < IdLimit]

(* Registration<C>::forward/backward: the dynamic_cast of the state to    *)
(* the command's State type, then the command's own method.               *)
Forward(c, d, r, m, n) ==
    IF Accepts(c) THEN CmdForward(c, d, r, m, n)
    ELSE [err |-> "InapplicableCommand", dom |-> d, res |-> r, nid |-> n]

Backward(c, d, r) ==
    IF Accepts(c) THEN CmdBackward(c, d, r)
    ELSE [err |-> "InapplicableCommand", dom |-> d]

-----------------------------------------------------------------------------
Init == /\ dom = Dom0
        /\ nextId = FirstId
        /\ undo = <<>>
        /\ redo = <<>>
        /\ raised = "none"

(* _runCommand, when getCommand(commandId) returns nullptr.               *)
RunUnregistered(c) ==
    /\ CommandIdOf(c) \notin Registered
    /\ raised' = "InapplicableCommand"
    /\ UNCHANGED <<dom, nextId, undo, redo>>

\* Mutants of RunCommand: the registry check dropped (the result of
\* getCommand used without the nullptr test), and m_redo not cleared.
RunCommandUnchecked(c, allowUndo) ==
    LET o == Forward(c, dom, EmptyResult, TRUE, nextId)
    IN  /\ dom' = o.dom
        /\ nextId' = o.nid
        /\ raised' = o.err
        /\ IF o.err = "none" /\ allowUndo
             THEN /\ undo' = Append(undo, [cmd |-> c, res |-> o.res])
                  /\ redo' = <<>>
             ELSE UNCHANGED <<undo, redo>>

RunCommandKeepRedo(c, allowUndo) ==
    /\ CommandIdOf(c) \in Registered
    /\ LET o == Forward(c, dom, EmptyResult, TRUE, nextId)
       IN  /\ dom' = o.dom
           /\ nextId' = o.nid
           /\ raised' = o.err
           /\ IF o.err = "none" /\ allowUndo
                THEN undo' = Append(undo, [cmd |-> c, res |-> o.res])
                ELSE UNCHANGED undo
           /\ UNCHANGED redo

(* _runCommand: forward with a fresh result map and mutableResult = true; *)
(* only if it returned, and only if allowUndo, the record is pushed on    *)
(* m_undo and m_redo is cleared.                                          *)
RunCommand(c, allowUndo) ==
    /\ CommandIdOf(c) \in Registered
    /\ LET o == Forward(c, dom, EmptyResult, TRUE, nextId)
       IN  /\ dom' = o.dom
           /\ nextId' = o.nid
           /\ raised' = o.err
           /\ IF o.err = "none" /\ allowUndo
                THEN /\ undo' = Append(undo, [cmd |-> c, res |-> o.res])
                     /\ redo' = <<>>
                ELSE UNCHANGED <<undo, redo>>

(* undo(): the last record is moved out of m_undo BEFORE backward runs,   *)
(* and pushed on m_redo only if backward returned.                        *)
Undo ==
    /\ undo # <<>>
    /\ LET r == undo[Len(undo)]
           o == Backward(r.cmd, dom, r.res)
       IN  /\ undo' = SubSeq(undo, 1, Len(undo) - 1)
           /\ dom' = o.dom
           /\ raised' = o.err
           /\ redo' = IF o.err = "none" THEN Append(redo, r) ELSE redo
           /\ UNCHANGED nextId

(* undo() when canUndo() is false does nothing.                           *)
UndoNothing ==
    /\ undo = <<>>
    /\ raised' = "none"
    /\ UNCHANGED <<dom, nextId, undo, redo>>

\* Mutant of Redo: the record is re-run as a new command (fresh result,
\* mutableResult = true) instead of being replayed with its result.
RedoFreshResult ==
    /\ redo # <<>>
    /\ LET r == redo[Len(redo)]
           o == Forward(r.cmd, dom, EmptyResult, TRUE, nextId)
       IN  /\ redo' = SubSeq(redo, 1, Len(redo) - 1)
           /\ dom' = o.dom
           /\ nextId' = o.nid
           /\ raised' = o.err
           /\ undo' = IF o.err = "none" THEN Append(undo, r) ELSE undo

(* redo(): the last record is moved out of m_redo, forward replays it     *)
(* with its recorded result and mutableResult = false, and the record is  *)
(* pushed on m_undo only if forward returned.                             *)
Redo ==
    /\ redo # <<>>
    /\ LET r == redo[Len(redo)]
           o == Forward(r.cmd, dom, r.res, FALSE, nextId)
       IN  /\ redo' = SubSeq(redo, 1, Len(redo) - 1)
           /\ dom' = o.dom
           /\ nextId' = o.nid
           /\ raised' = o.err
           /\ undo' = IF o.err = "none" THEN Append(undo, r) ELSE undo

RedoNothing ==
    /\ redo = <<>>
    /\ raised' = "none"
    /\ UNCHANGED <<dom, nextId, undo, redo>>

\* Model bound: at most MaxHistory records, and no command is submitted
\* once the counter has passed the exhaustion limit.
InModelBounds == Len(undo) + Len(redo) < MaxHistory /\ nextId <= IdLimit

Next ==
    \/ \E c \in Commands : RunUnregistered(c)
    \/ \E c \in Commands, a \in AllowUndo : InModelBounds /\ RunCommand(c, a)
    \/ Undo
    \/ UndoNothing
    \/ Redo
    \/ RedoNothing

Spec == Init /\ [][Next]_vars

-----------------------------------------------------------------------------
(* Replaying a sequence of records on a fresh replica, as spec.md 6       *)
(* describes: each record's forward with its recorded result and          *)
(* mutableResult = false, from the initial domain.  ok is FALSE as soon   *)
(* as one of the replayed forwards raises.                                *)
ReplayOf(s) ==
    LET step[i \in 0..Len(s)] ==
          IF i = 0 THEN [ok |-> TRUE, dom |-> Dom0, nid |-> FirstId]
          ELSE LET o == Forward(s[i].cmd, step[i - 1].dom, s[i].res, FALSE,
                                step[i - 1].nid)
               IN  [ok |-> step[i - 1].ok /\ o.err = "none",
                    dom |-> o.dom, nid |-> o.nid]
    IN  step[Len(s)]

Reversed(s) == [i \in 1..Len(s) |-> s[Len(s) - i + 1]]

\* The whole timeline: the applied records, then the undone ones in the
\* order redo() would re-apply them.
Timeline == undo \o Reversed(redo)

-----------------------------------------------------------------------------
(* Type invariant.  Besides the shapes of the variables, it says that     *)
(* every record in either deque is of a registered command: undo() and    *)
(* redo() call getCommand(r.command_id)->... without a null check.        *)
TypeOK ==
    /\ dom \in Domains
    /\ nextId \in Nat
    /\ undo \in Seq(Record)
    /\ redo \in Seq(Record)
    /\ raised \in Errors

(* spec.md 4.5 and 6: replaying the records of m_undo in order on a fresh *)
(* replica (recorded results, mutableResult = false) raises nothing and   *)
(* reproduces the domain model, and the undone records of m_redo can be   *)
(* replayed after them without raising either.  Broken if a command that  *)
(* mints ids ignores its recorded result on redo, if a record is kept for *)
(* a command that raised, or if a command writes its result on replay.    *)
HistoryReplay ==
    /\ ReplayOf(undo).ok
    /\ ReplayOf(undo).dom = dom
    /\ ReplayOf(Timeline).ok

(* The history is one linear timeline (module LinearHistory): running     *)
(* truncates it at the cursor and appends, undo and redo only move the    *)
(* cursor.  Broken if a record is dropped, e.g. when backward raises      *)
(* after undo() has already popped it, or if redo is not cleared.         *)
LH == INSTANCE LinearHistory WITH hist <- Timeline, pos <- Len(undo),
                                  Records <- Record

RefinesLinearHistory == LH!Spec

(* spec.md 4.5 (atomic-apply convention) and 7: a call of runCommand,    *)
(* undo or redo that raises leaves the domain model as it found it.  The  *)
(* core rolls nothing back, so this holds only if every command raises    *)
(* before its first mutation, including when getNextObjectId raises.     *)
FailedCallLeavesDomain == [][raised' # "none" => dom' = dom]_vars

\* Hypothesis of the typing theorem: the commands' methods return outcomes
\* of the right shape on every input of the right shape.
CommandsTyped ==
    /\ Dom0 \in Domains
    /\ EmptyResult \in Results
    /\ \A c \in Commands, d \in Domains, r \in Results, m \in BOOLEAN,
          n \in Nat :
         CmdForward(c, d, r, m, n)
           \in [err : Errors, dom : Domains, res : Results, nid : Nat]
    /\ \A c \in Commands, d \in Domains, r \in Results :
         CmdBackward(c, d, r) \in [err : Errors, dom : Domains]
=============================================================================
