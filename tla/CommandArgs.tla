----------------------------- MODULE CommandArgs -----------------------------
(***************************************************************************)
(* The argument map of one command object (CommandBase::m_args,           *)
(* src/OctoCore/Command.h) and the handles and references callers take to *)
(* it: args() hands out a shared_ptr copy (kept by callers and by the      *)
(* CommandRecord that _runCommand pushes); argsMutable() copies the map    *)
(* when it is shared; ArgField's operator= writes one field through it,   *)
(* and operator*, operator-> and operator[] return a reference to the     *)
(* field's GenericValue inside the map (for the string and container      *)
(* types, whose mutate_as<T>::type is a reference: DataTypes.h).          *)
(*                                                                         *)
(* Maps live at addresses; the use count of a map is the number of        *)
(* shared_ptrs to it (the command's own and the handles), and a map whose  *)
(* use count drops to 0 is freed.  make_shared takes a fresh address each  *)
(* time (a freed map is never the target of a later allocation), which is *)
(* enough to tell a write through a reference to a freed map.             *)
(***************************************************************************)
EXTENDS Naturals, FiniteSets

CONSTANTS
    Fields,        \* argument FieldIds
    Values,        \* argument values
    Default,       \* GenericValue(): what operator[] inserts for a missing field
    Absent,        \* no entry for the field in the map
    Handles,       \* shared_ptr<const Map> copies callers and records may keep
    Refs,          \* references into the map callers may keep
    MaxMaps,       \* model bound: maps ever allocated
    HoldAcrossArgs \* may a caller keep a reference across a call of args()?

ASSUME ArgsAssumption ==
    /\ Default \notin Values
    /\ Absent \notin Values \cup {Default}
    /\ MaxMaps \in Nat \ {0}
    /\ HoldAcrossArgs \in BOOLEAN
    /\ IsFiniteSet(Handles)

Null == 0

Addrs == 1..MaxMaps

Contents == [Fields -> Values \cup {Default, Absent}]

EmptyContents == [f \in Fields |-> Absent]

\* A reference slot that holds no reference.
NoRef == [addr |-> Null, field |-> Absent]

VARIABLES
    mem,       \* mem[a]: the entries of the map at address a
    cur,       \* m_args: the address the command points to
    next,      \* the address the next make_shared returns
    held,      \* held[h]: the map handle h points to, or Null
    snap,      \* snap[h]: the entries that map had when args() returned h
    ref,       \* ref[r]: the [addr, field] reference r points to, or NoRef
    fault      \* a write went through a reference to a freed map

vars == <<mem, cur, next, held, snap, ref, fault>>

\* shared_ptr::use_count() of the map at a.
UseCount(a) == (IF cur = a THEN 1 ELSE 0) + Cardinality({h \in Handles : held[h] = a})

\* CommandBase(commandId): m_args(std::make_shared<Map>()).
Init == /\ mem = [a \in Addrs |-> EmptyContents]
        /\ cur = 1
        /\ next = 2
        /\ held = [h \in Handles |-> Null]
        /\ snap = [h \in Handles |-> EmptyContents]
        /\ ref = [r \in Refs |-> NoRef]
        /\ fault = FALSE

\* Mutant of ArgsMutable: the copy made from an empty map
\* (std::make_shared<Map>() in place of std::make_shared<Map>(*old_args)).
ArgsMutableFresh ==
    IF UseCount(cur) > 1
      THEN [addr |-> next, next |-> next + 1, mem |-> [mem EXCEPT ![next] = EmptyContents]]
      ELSE [addr |-> cur, next |-> next, mem |-> mem]

\* Mutant of ArgsMutable: the copy made only when more than two share the map.
ArgsMutableOffByOne ==
    IF UseCount(cur) > 2
      THEN [addr |-> next, next |-> next + 1, mem |-> [mem EXCEPT ![next] = mem[cur]]]
      ELSE [addr |-> cur, next |-> next, mem |-> mem]

\* argsMutable(): if (m_args.use_count() > 1) m_args =
\* std::make_shared<Map>(*old_args); the address of the (possibly new) map
\* and the heap.
ArgsMutable ==
    IF UseCount(cur) > 1
      THEN [addr |-> next, next |-> next + 1, mem |-> [mem EXCEPT ![next] = mem[cur]]]
      ELSE [addr |-> cur, next |-> next, mem |-> mem]

\* A copy needs a fresh address within the model bound.
CanAllocate == UseCount(cur) <= 1 \/ next <= MaxMaps

\* ArgField::operator=(val): (*m_cmd->argsMutable())[fieldID] = wrap(val).
Assign(f, v) ==
    /\ CanAllocate
    /\ LET m == ArgsMutable IN
       /\ cur' = m.addr
       /\ next' = m.next
       /\ mem' = [m.mem EXCEPT ![m.addr][f] = v]
    /\ UNCHANGED <<held, snap, ref, fault>>

\* Mutant of TakeRef: the reference taken into the map without argsMutable().
TakeRefNoCopy(r, f) ==
    /\ ref[r] = NoRef
    /\ mem' = IF mem[cur][f] = Absent THEN [mem EXCEPT ![cur][f] = Default] ELSE mem
    /\ ref' = [ref EXCEPT ![r] = [addr |-> cur, field |-> f]]
    /\ UNCHANGED <<cur, next, held, snap, fault>>

\* ArgField::operator*, operator-> and operator[]: GenericValue& value =
\* (*m_cmd->argsMutable())[fieldID], which inserts a default value for a
\* missing field; the caller keeps a reference into that map.
TakeRef(r, f) ==
    /\ ref[r] = NoRef
    /\ CanAllocate
    /\ LET m == ArgsMutable IN
       /\ cur' = m.addr
       /\ next' = m.next
       /\ mem' = IF m.mem[m.addr][f] = Absent
                   THEN [m.mem EXCEPT ![m.addr][f] = Default] ELSE m.mem
       /\ ref' = [ref EXCEPT ![r] = [addr |-> m.addr, field |-> f]]
    /\ UNCHANGED <<held, snap, fault>>

(* The caller writes through a reference it kept.  Through a reference to *)
(* a map that has been freed this is undefined behaviour; the model lets   *)
(* the write land in the old entries and records the fault.               *)
WriteRef(r, v) ==
    /\ ref[r] # NoRef
    /\ mem' = [mem EXCEPT ![ref[r].addr][ref[r].field] = v]
    /\ fault' = (fault \/ UseCount(ref[r].addr) = 0)
    /\ UNCHANGED <<cur, next, held, snap, ref>>

\* The reference goes out of scope.
DropRef(r) ==
    /\ ref[r] # NoRef
    /\ ref' = [ref EXCEPT ![r] = NoRef]
    /\ UNCHANGED <<mem, cur, next, held, snap, fault>>

(* args(): return m_args, a new shared_ptr to the same map; the caller (a *)
(* user, or _runCommand's CommandRecord) keeps it as handle h.  Unless    *)
(* HoldAcrossArgs, callers hold no reference into the map at that moment. *)
Capture(h) ==
    /\ held[h] = Null
    /\ HoldAcrossArgs \/ \A r \in Refs : ref[r] = NoRef
    /\ held' = [held EXCEPT ![h] = cur]
    /\ snap' = [snap EXCEPT ![h] = mem[cur]]
    /\ UNCHANGED <<mem, cur, next, ref, fault>>

\* The handle is destroyed (a caller's copy going out of scope, or a
\* record dropped by a cleared redo deque).
Release(h) ==
    /\ held[h] # Null
    /\ held' = [held EXCEPT ![h] = Null]
    /\ UNCHANGED <<mem, cur, next, snap, ref, fault>>

Next ==
    \/ \E r \in Refs, v \in Values : WriteRef(r, v)
    \/ \E f \in Fields, v \in Values : Assign(f, v)
    \/ \E r \in Refs, f \in Fields : TakeRef(r, f)
    \/ \E r \in Refs : DropRef(r)
    \/ \E h \in Handles : Capture(h) \/ Release(h)

Spec == Init /\ [][Next]_vars

-----------------------------------------------------------------------------
TypeOK ==
    /\ mem \in [Addrs -> Contents]
    /\ cur \in Addrs
    /\ next \in 2..MaxMaps + 1
    /\ held \in [Handles -> Addrs \cup {Null}]
    /\ snap \in [Handles -> Contents]
    /\ ref \in [Refs -> [addr : Addrs, field : Fields] \cup {NoRef}]
    /\ fault \in BOOLEAN

(* Command.h 44-46 and spec.md 8: the map args() returns "is guaranteed   *)
(* to never change": whatever the command's setters do afterwards, every  *)
(* handle (and so every CommandRecord's args) still reads what it read     *)
(* when it was taken.  Broken if copy-on-write misjudges sharing, or by a  *)
(* reference into the map kept across the args() call.                   *)
CapturedImmutable ==
    \A h \in Handles : held[h] # Null => mem[held[h]] = snap[h]

(* No write goes through a reference into a map that has been freed: the   *)
(* map a reference points into stays alive as long as the reference is     *)
(* written through.  Broken when copy-on-write moves the command to a new *)
(* map and the last handle to the old one is released while a reference   *)
(* into it is kept.                                                       *)
NoWriteAfterFree == ~fault

(* Command.h 44-46 and spec.md 8: copy-on-write implements value          *)
(* semantics (module ArgsValue).  The command's current map changes only  *)
(* as its setters and operator[] say, a copy carries every entry over,    *)
(* and the map a live handle points to reads what it read when args()     *)
(* returned it.  Broken by a copy that loses entries, by a write that     *)
(* reaches a shared map, or by a reference kept across args().            *)
AV == INSTANCE ArgsValue
      WITH args <- mem[cur],
           handle <- [h \in {x \in Handles : held[x] # Null} |-> mem[held[h]]]

RefinesArgsValue == AV!Spec
=============================================================================
