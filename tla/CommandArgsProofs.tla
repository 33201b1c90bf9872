-------------------------- MODULE CommandArgsProofs --------------------------
(***************************************************************************)
(* Proofs about CommandArgs for every value of its constants: with callers *)
(* that keep no ArgField reference across a call of args(), copy-on-write  *)
(* keeps every captured map unchanged and no reference outlives its map.  *)
(***************************************************************************)
EXTENDS CommandArgs, FiniteSetTheorems, TLAPS

(* The inductive strengthening.  Besides the two properties it says that   *)
(* the command's map and every handle's map were allocated before next    *)
(* (so a fresh copy is shared with nobody), and that a reference held by  *)
(* a caller points into the command's current map, which no handle shares *)
(* (so argsMutable() will not copy away from under it).                   *)
IInv ==
    /\ TypeOK
    /\ CapturedImmutable
    /\ ~fault
    /\ cur < next
    /\ \A h \in Handles : held[h] # Null => held[h] < next
    /\ \A r \in Refs : ref[r] # NoRef =>
           /\ ref[r].addr = cur
           /\ \A h \in Handles : held[h] # cur

(* The use count of a map: a natural number, at least 1 for the command's *)
(* own map, and exactly the command's share when no handle points to it.  *)
LEMMA UseCountFacts ==
    ASSUME TypeOK, NEW a \in Addrs
    PROVE  /\ UseCount(a) \in Nat
           /\ cur = a => UseCount(a) >= 1
           /\ (\A h \in Handles : held[h] # a)
                <=> UseCount(a) = IF cur = a THEN 1 ELSE 0
<1> DEFINE S == {h \in Handles : held[h] = a}
<1>1. IsFiniteSet(S)
    BY ArgsAssumption, FS_Subset
<1>2. Cardinality(S) \in Nat
    BY <1>1, FS_CardinalityType
<1>3. Cardinality(S) = 0 <=> S = {}
    BY <1>1, FS_EmptySet
<1>4. QED
    BY <1>2, <1>3 DEF UseCount

-----------------------------------------------------------------------------
(* Init establishes the strengthening.                                    *)
LEMMA InitIInv == Init => IInv
<1> SUFFICES ASSUME Init PROVE IInv
    OBVIOUS
<1>1. 1 \in Addrs /\ 2 \in 2..MaxMaps + 1
    BY ArgsAssumption DEF Addrs
<1>2. EmptyContents \in Contents
    BY DEF EmptyContents, Contents
<1>3. TypeOK
    BY <1>1, <1>2 DEF Init, TypeOK
<1>4. QED
    BY <1>3 DEF Init, IInv, CapturedImmutable, Null

(* A write through a held reference lands in the command's own map, which *)
(* no handle shares and which is alive.                                   *)
LEMMA WriteRefIInv ==
    ASSUME IInv, NEW r \in Refs, NEW v \in Values, WriteRef(r, v)
    PROVE  IInv'
<1>1. ref[r] \in [addr : Addrs, field : Fields] /\ ref[r].addr = cur
      /\ \A h \in Handles : held[h] # cur
    BY DEF WriteRef, IInv, TypeOK
<1>2. UseCount(cur) \in Nat /\ UseCount(cur) >= 1
    BY UseCountFacts DEF IInv, TypeOK
<1>3. mem' = [mem EXCEPT ![cur][ref[r].field] = v] /\ fault' = FALSE
  <2>1. UseCount(ref[r].addr) # 0
      BY <1>1, <1>2
  <2>2. ~fault
      BY DEF IInv
  <2>3. QED
      BY <1>1, <2>1, <2>2 DEF WriteRef
<1>4. TypeOK'
    BY <1>1, <1>3 DEF WriteRef, IInv, TypeOK, Contents
<1>5. CapturedImmutable'
    BY <1>1, <1>3 DEF WriteRef, IInv, TypeOK, CapturedImmutable
<1>6. QED
    BY <1>3, <1>4, <1>5 DEF WriteRef, IInv

(* A reference going out of scope changes nothing else.                   *)
LEMMA DropRefIInv ==
    ASSUME IInv, NEW r \in Refs, DropRef(r)
    PROVE  IInv'
BY DEF DropRef, IInv, TypeOK, CapturedImmutable

(* args() is called with no reference held: the new handle reads the      *)
(* command's map as it is.                                                *)
LEMMA CaptureIInv ==
    ASSUME ~HoldAcrossArgs, IInv, NEW h \in Handles, Capture(h)
    PROVE  IInv'
<1>1. \A r \in Refs : ref[r] = NoRef
    BY DEF Capture
<1>2. TypeOK'
    BY DEF Capture, IInv, TypeOK
<1>3. CapturedImmutable'
    BY DEF Capture, IInv, TypeOK, CapturedImmutable, Null, Addrs
<1>4. QED
    BY <1>1, <1>2, <1>3 DEF Capture, IInv, TypeOK, Null, Addrs

(* Destroying a handle changes nothing else.                              *)
LEMMA ReleaseIInv ==
    ASSUME IInv, NEW h \in Handles, Release(h)
    PROVE  IInv'
BY DEF Release, IInv, TypeOK, CapturedImmutable, Null, Addrs

(* What argsMutable() returns, whether it copies or not: a map within the *)
(* bound that no handle shares, with next beyond it, every handle's map   *)
(* untouched, and (since a held reference rules out a copy) the command's *)
(* current map whenever a reference is held.                              *)
LEMMA ArgsMutableFacts ==
    ASSUME IInv, CanAllocate
    PROVE  LET m == ArgsMutable IN
           /\ m.addr \in Addrs
           /\ m.next \in 2..MaxMaps + 1
           /\ m.addr < m.next
           /\ m.mem \in [Addrs -> Contents]
           /\ m.mem[m.addr] = mem[cur]
           /\ \A h \in Handles : held[h] # Null =>
                  /\ held[h] # m.addr
                  /\ held[h] < m.next
                  /\ m.mem[held[h]] = mem[held[h]]
           /\ \A r \in Refs : ref[r] # NoRef => m.addr = cur
<1> DEFINE m == ArgsMutable
<1>1. UseCount(cur) \in Nat
    BY UseCountFacts DEF IInv, TypeOK
<1>2. CASE UseCount(cur) > 1
  <2>1. m = [addr |-> next, next |-> next + 1,
             mem |-> [mem EXCEPT ![next] = mem[cur]]]
      BY <1>2 DEF ArgsMutable
  <2>2. next \in Addrs
      BY <1>1, <1>2, ArgsAssumption DEF CanAllocate, IInv, TypeOK, Addrs
  <2>3. ~\A h \in Handles : held[h] # cur
    <3>1. cur \in Addrs /\ TypeOK
        BY DEF IInv, TypeOK
    <3>2. (\A h \in Handles : held[h] # cur) => UseCount(cur) = 1
        BY <3>1, UseCountFacts
    <3>3. QED
        BY <1>2, <3>2
  <2>4. \A r \in Refs : ref[r] = NoRef
      BY <2>3 DEF IInv
  <2>5. /\ cur \in Addrs /\ cur < next /\ mem \in [Addrs -> Contents]
        /\ held \in [Handles -> Addrs \cup {Null}]
      BY DEF IInv, TypeOK
  <2>6. \A h \in Handles : held[h] # Null => held[h] < next
      BY DEF IInv
  <2>7. next + 1 \in 2..MaxMaps + 1
      BY <2>2, ArgsAssumption DEF Addrs
  <2>8. m.addr \in Addrs /\ m.next \in 2..MaxMaps + 1 /\ m.addr < m.next
      BY <2>1, <2>2, <2>7 DEF Addrs
  <2>9. m.mem \in [Addrs -> Contents] /\ m.mem[m.addr] = mem[cur]
      BY <2>1, <2>2, <2>5
  <2>10. \A h \in Handles : held[h] # Null =>
            /\ held[h] # m.addr
            /\ held[h] < m.next
            /\ m.mem[held[h]] = mem[held[h]]
      BY <2>1, <2>2, <2>5, <2>6 DEF Addrs, Null
  <2>11. \A r \in Refs : ref[r] # NoRef => m.addr = cur
      BY <2>4
  <2>12. QED
      BY <2>8, <2>9, <2>10, <2>11
<1>3. CASE UseCount(cur) <= 1
  <2>1. m = [addr |-> cur, next |-> next, mem |-> mem]
      BY <1>3, <1>1 DEF ArgsMutable
  <2>2. \A h \in Handles : held[h] # cur
      BY <1>1, <1>3, UseCountFacts DEF IInv, TypeOK
  <2>3. QED
      BY <2>1, <2>2 DEF IInv, TypeOK
<1>4. QED
    BY <1>1, <1>2, <1>3

(* ArgField::operator= writes into the map argsMutable() returned.        *)
LEMMA AssignIInv ==
    ASSUME IInv, NEW f \in Fields, NEW v \in Values, Assign(f, v)
    PROVE  IInv'
<1> DEFINE m == ArgsMutable
<1>1. cur' = m.addr /\ next' = m.next /\ mem' = [m.mem EXCEPT ![m.addr][f] = v]
    BY DEF Assign
<1>2. TypeOK'
    BY <1>1, ArgsMutableFacts DEF Assign, IInv, TypeOK, Contents
<1>3. CapturedImmutable'
    BY <1>1, ArgsMutableFacts DEF Assign, IInv, TypeOK, CapturedImmutable
<1>4. QED
    BY <1>1, <1>2, <1>3, ArgsMutableFacts DEF Assign, IInv

(* operator*, operator-> and operator[] take a reference into the map     *)
(* argsMutable() returned, which no handle shares.                        *)
LEMMA TakeRefIInv ==
    ASSUME IInv, NEW r \in Refs, NEW f \in Fields, TakeRef(r, f)
    PROVE  IInv'
<1> DEFINE m == ArgsMutable
<1>1. /\ cur' = m.addr /\ next' = m.next
      /\ mem' = IF m.mem[m.addr][f] = Absent
                  THEN [m.mem EXCEPT ![m.addr][f] = Default] ELSE m.mem
      /\ ref' = [ref EXCEPT ![r] = [addr |-> m.addr, field |-> f]]
    BY DEF TakeRef
<1>2. TypeOK'
    BY <1>1, ArgsMutableFacts DEF TakeRef, IInv, TypeOK, Contents
<1>3. CapturedImmutable'
    BY <1>1, ArgsMutableFacts DEF TakeRef, IInv, TypeOK, CapturedImmutable
<1>4. \A q \in Refs : ref'[q] # NoRef =>
          ref'[q].addr = cur' /\ \A h \in Handles : held'[h] # cur'
    BY <1>1, ArgsMutableFacts DEF TakeRef, IInv, TypeOK, Null, Addrs, NoRef
<1>5. QED
    BY <1>1, <1>2, <1>3, <1>4, ArgsMutableFacts DEF TakeRef, IInv

(* Every step of Next, and a stutter, preserves the strengthening when    *)
(* callers hold no reference across args().                               *)
LEMMA NextIInv ==
    ASSUME ~HoldAcrossArgs, IInv, [Next]_vars
    PROVE  IInv'
<1>1. CASE \E r \in Refs, v \in Values : WriteRef(r, v)
    BY <1>1, WriteRefIInv
<1>2. CASE \E f \in Fields, v \in Values : Assign(f, v)
    BY <1>2, AssignIInv
<1>3. CASE \E r \in Refs, f \in Fields : TakeRef(r, f)
    BY <1>3, TakeRefIInv
<1>4. CASE \E r \in Refs : DropRef(r)
    BY <1>4, DropRefIInv
<1>5. CASE \E h \in Handles : Capture(h)
    BY <1>5, CaptureIInv
<1>6. CASE \E h \in Handles : Release(h)
    BY <1>6, ReleaseIInv
<1>7. CASE UNCHANGED vars
    BY <1>7 DEF vars, IInv, TypeOK, CapturedImmutable
<1>8. QED
    BY <1>1, <1>2, <1>3, <1>4, <1>5, <1>6, <1>7 DEF Next

-----------------------------------------------------------------------------
(* Copy-on-write in argsMutable() keeps every map args() handed out (to a *)
(* caller or to a CommandRecord) unchanged, for every number of fields,   *)
(* values, handles, references and maps, provided no caller keeps an      *)
(* ArgField reference across a call of args().                            *)
THEOREM CapturedImmutableHolds ==
    ASSUME ~HoldAcrossArgs
    PROVE  Spec => []CapturedImmutable
<1>1. IInv => CapturedImmutable
    BY DEF IInv
<1>2. QED
    BY <1>1, InitIInv, NextIInv, PTL DEF Spec

(* Under the same discipline no write through an ArgField reference ever  *)
(* reaches a map whose last shared_ptr is gone.                           *)
THEOREM NoWriteAfterFreeHolds ==
    ASSUME ~HoldAcrossArgs
    PROVE  Spec => []NoWriteAfterFree
<1>1. IInv => NoWriteAfterFree
    BY DEF IInv, NoWriteAfterFree
<1>2. QED
    BY <1>1, InitIInv, NextIInv, PTL DEF Spec

-----------------------------------------------------------------------------
\* The handles that are alive, and the map each of them reads: the value
\* of ArgsValue's handle under the refinement mapping.
Live == {x \in Handles : held[x] # Null}

HandleMap == [h \in Live |-> mem[held[h]]]

(* A write through a held reference is ArgsValue's Set of the reference's *)
(* field: it lands in the command's own map, which no live handle shares. *)
LEMMA WriteRefRefines ==
    ASSUME IInv, NEW r \in Refs, NEW v \in Values, WriteRef(r, v)
    PROVE  AV!Set(ref[r].field, v)
<1>1. /\ ref[r] \in [addr : Addrs, field : Fields] /\ ref[r].addr = cur
      /\ \A h \in Handles : held[h] # cur
    BY DEF WriteRef, IInv, TypeOK
<1>2. /\ mem \in [Addrs -> Contents] /\ cur \in Addrs
      /\ mem' = [mem EXCEPT ![cur][ref[r].field] = v]
      /\ UNCHANGED <<cur, held>>
    BY <1>1 DEF WriteRef, IInv, TypeOK
<1>3. mem'[cur'] = [mem[cur] EXCEPT ![ref[r].field] = v]
    BY <1>2
<1>4. HandleMap' = HandleMap
    BY <1>1, <1>2 DEF HandleMap, Live
<1>5. QED BY <1>3, <1>4 DEF AV!Set, HandleMap, Live

(* ArgField::operator= is ArgsValue's Set: argsMutable() hands back a map *)
(* with the command's entries, no live handle's map among its targets.    *)
LEMMA AssignRefines ==
    ASSUME IInv, NEW f \in Fields, NEW v \in Values, Assign(f, v)
    PROVE  AV!Set(f, v)
<1> DEFINE m == ArgsMutable
<1>1. cur' = m.addr /\ mem' = [m.mem EXCEPT ![m.addr][f] = v] /\ UNCHANGED held
    BY DEF Assign
<1>2. /\ m.addr \in Addrs /\ m.mem \in [Addrs -> Contents] /\ m.mem[m.addr] = mem[cur]
      /\ \A h \in Handles : held[h] # Null =>
             held[h] # m.addr /\ m.mem[held[h]] = mem[held[h]]
    BY ArgsMutableFacts DEF Assign
<1>3. mem'[cur'] = [mem[cur] EXCEPT ![f] = v]
    BY <1>1, <1>2
<1>4. HandleMap' = HandleMap
  <2>1. held \in [Handles -> Addrs \cup {Null}]
      BY DEF IInv, TypeOK
  <2>2. QED BY <1>1, <1>2, <2>1 DEF HandleMap, Live, Addrs, Null
<1>5. QED BY <1>3, <1>4 DEF AV!Set, HandleMap, Live

(* operator*, operator-> and operator[] are ArgsValue's Touch.            *)
LEMMA TakeRefRefines ==
    ASSUME IInv, NEW r \in Refs, NEW f \in Fields, TakeRef(r, f)
    PROVE  AV!Touch(f)
<1> DEFINE m == ArgsMutable
<1>1. /\ cur' = m.addr /\ UNCHANGED held
      /\ mem' = IF m.mem[m.addr][f] = Absent
                  THEN [m.mem EXCEPT ![m.addr][f] = Default] ELSE m.mem
    BY DEF TakeRef
<1>2. /\ m.addr \in Addrs /\ m.mem \in [Addrs -> Contents] /\ m.mem[m.addr] = mem[cur]
      /\ \A h \in Handles : held[h] # Null =>
             held[h] # m.addr /\ m.mem[held[h]] = mem[held[h]]
    BY ArgsMutableFacts DEF TakeRef
<1>3. mem'[cur'] = IF mem[cur][f] = Absent THEN [mem[cur] EXCEPT ![f] = Default]
                   ELSE mem[cur]
    BY <1>1, <1>2
<1>4. HandleMap' = HandleMap
  <2>1. held \in [Handles -> Addrs \cup {Null}]
      BY DEF IInv, TypeOK
  <2>2. QED BY <1>1, <1>2, <2>1 DEF HandleMap, Live, Addrs, Null
<1>5. QED BY <1>3, <1>4 DEF AV!Touch, HandleMap, Live

(* args() is ArgsValue's Capture: the new handle reads the command's map. *)
LEMMA CaptureRefines ==
    ASSUME IInv, NEW h \in Handles, Capture(h)
    PROVE  AV!Capture(h)
<1>1. /\ held[h] = Null /\ held' = [held EXCEPT ![h] = cur]
      /\ UNCHANGED <<mem, cur>>
      /\ held \in [Handles -> Addrs \cup {Null}] /\ cur \in Addrs
    BY DEF Capture, IInv, TypeOK
<1>2. Live' = Live \cup {h}
    BY <1>1 DEF Live, Addrs, Null
<1>3. HandleMap' = [x \in Live \cup {h} |-> IF x = h THEN mem[cur] ELSE HandleMap[x]]
    BY <1>1, <1>2 DEF HandleMap
<1>4. h \notin Live
    BY <1>1 DEF Live
<1>5. DOMAIN HandleMap = Live
    BY DEF HandleMap
<1>6. AV!Capture(h) <=>
        /\ h \notin DOMAIN HandleMap
        /\ HandleMap' = [x \in DOMAIN HandleMap \cup {h} |->
                           IF x = h THEN mem[cur] ELSE HandleMap[x]]
        /\ UNCHANGED mem[cur]
    BY DEF AV!Capture, HandleMap, Live
<1>7. QED BY <1>1, <1>3, <1>4, <1>5, <1>6

(* Destroying a handle is ArgsValue's Release.                            *)
LEMMA ReleaseRefines ==
    ASSUME IInv, NEW h \in Handles, Release(h)
    PROVE  AV!Release(h)
<1>1. /\ held[h] # Null /\ held' = [held EXCEPT ![h] = Null]
      /\ UNCHANGED <<mem, cur>>
      /\ held \in [Handles -> Addrs \cup {Null}]
    BY DEF Release, IInv, TypeOK
<1>2. Live' = Live \ {h}
    BY <1>1 DEF Live
<1>3. HandleMap' = [x \in Live \ {h} |-> HandleMap[x]]
    BY <1>1, <1>2 DEF HandleMap
<1>4. QED BY <1>1, <1>3 DEF AV!Release, HandleMap, Live

(* Every step of CommandArgs from a state of the strengthening is a step  *)
(* of ArgsValue or leaves the arguments and the live handles' maps as     *)
(* they are: dropping a reference, like the copy inside argsMutable(),    *)
(* is invisible.                                                           *)
LEMMA NextRefines ==
    ASSUME IInv, [Next]_vars
    PROVE  [AV!Next]_AV!vars
<1>1. CASE \E r \in Refs, v \in Values : WriteRef(r, v)
  <2>1. PICK r \in Refs, v \in Values : WriteRef(r, v)
      BY <1>1
  <2>2. ref[r].field \in Fields
      BY <2>1 DEF WriteRef, IInv, TypeOK
  <2>3. AV!Set(ref[r].field, v)
      BY <2>1, WriteRefRefines
  <2>4. QED BY <2>2, <2>3 DEF AV!Next
<1>2. CASE \E f \in Fields, v \in Values : Assign(f, v)
  <2>1. PICK f \in Fields, v \in Values : Assign(f, v)
      BY <1>2
  <2>2. AV!Set(f, v)
      BY <2>1, AssignRefines
  <2>3. QED BY <2>2 DEF AV!Next
<1>3. CASE \E r \in Refs, f \in Fields : TakeRef(r, f)
  <2>1. PICK r \in Refs, f \in Fields : TakeRef(r, f)
      BY <1>3
  <2>2. AV!Touch(f)
      BY <2>1, TakeRefRefines
  <2>3. QED BY <2>2 DEF AV!Next
<1>4. CASE \E r \in Refs : DropRef(r)
    BY <1>4 DEF DropRef, AV!vars
<1>5. CASE \E h \in Handles : Capture(h)
  <2>1. PICK h \in Handles : Capture(h)
      BY <1>5
  <2>2. AV!Capture(h)
      BY <2>1, CaptureRefines
  <2>3. QED BY <2>2 DEF AV!Next
<1>6. CASE \E h \in Handles : Release(h)
  <2>1. PICK h \in Handles : Release(h)
      BY <1>6
  <2>2. AV!Release(h)
      BY <2>1, ReleaseRefines
  <2>3. QED BY <2>2 DEF AV!Next
<1>7. CASE UNCHANGED vars
    BY <1>7 DEF vars, AV!vars
<1>8. QED
    BY <1>1, <1>2, <1>3, <1>4, <1>5, <1>6, <1>7 DEF Next

(* Copy-on-write implements value semantics, for every number of fields, *)
(* values, handles, references and maps, provided no caller keeps an      *)
(* ArgField reference across a call of args(): the command's map changes  *)
(* exactly as its setters and operator[] say, every copy argsMutable()    *)
(* makes carries all the entries over, and every live handle keeps the    *)
(* map args() returned (Command.h 44-46, spec.md 8).                      *)
THEOREM RefinesArgsValueHolds ==
    ASSUME ~HoldAcrossArgs
    PROVE  Spec => RefinesArgsValue
<1>1. Init => AV!Init
  <2> SUFFICES ASSUME Init PROVE AV!Init
      OBVIOUS
  <2>1. mem[cur] = [f \in Fields |-> Absent]
      BY ArgsAssumption DEF Init, Addrs, EmptyContents
  <2>2. {x \in Handles : held[x] # Null} = {}
      BY DEF Init
  <2>3. QED BY <2>1, <2>2 DEF AV!Init
<1>2. IInv /\ [Next]_vars => [AV!Next]_AV!vars
    BY NextRefines
<1>3. QED
    BY <1>1, <1>2, InitIInv, NextIInv, PTL DEF Spec, RefinesArgsValue, AV!Spec
=============================================================================
