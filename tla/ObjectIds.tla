------------------------------ MODULE ObjectIds ------------------------------
(***************************************************************************)
(* The object-id allocator of Octo::State (src/OctoCore/src/State.cpp,    *)
(* constructor and getNextObjectId; src/OctoCore/State.h,                 *)
(* m_next_object_id), for several State instances, one per session, and  *)
(* several threads minting ids from them.                                 *)
(*                                                                         *)
(* The 64-bit layout (2 zero bits, 14 session bits, 48 counter bits) is   *)
(* kept with its proportions and scaled down: SessionBits and CounterBits *)
(* stand for 14 and 48, the id is a signed integer of                     *)
(* Width = 2 + SessionBits + CounterBits bits that wraps as int64_t does, *)
(* and a SessionId is unsigned of SessionBits + 2 bits, as uint16_t is.   *)
(*                                                                         *)
(* m_next_object_id++ is one atomic fetch-and-add on std::atomic<int64_t>;*)
(* under EMSCRIPTEN the counter is a plain int64_t and ++ is a load and a *)
(* store that another thread's steps may separate (a data race, whose     *)
(* outcomes the build can produce are the interleavings of the two).      *)
(***************************************************************************)
EXTENDS Integers, Sequences

CONSTANTS
    SessionBits,   \* 14 in the code
    CounterBits,   \* 48 in the code
    SessionIds,    \* the session ids States are constructed with
    Threads,       \* the threads that call getNextObjectId
    Atomic,        \* TRUE: std::atomic counter; FALSE: the EMSCRIPTEN build
    MaxCalls       \* model bound: getNextObjectId calls per State

ASSUME WidthAssumption == SessionBits \in Nat \ {0} /\ CounterBits \in Nat \ {0}
ASSUME SessionIdsAssumption == SessionIds \subseteq 0..(2^(SessionBits + 2) - 1)
ASSUME AtomicAssumption == Atomic \in BOOLEAN
ASSUME MaxCallsAssumption == MaxCalls \in Nat

Width == 2 + SessionBits + CounterBits

\* Two's-complement wrap of an integer into int64_t (scaled to Width bits).
ToSigned(x) == LET u == x % 2^Width
               IN  IF u >= 2^(Width - 1) THEN u - 2^Width ELSE u

\* object_id >> 48 on a signed value: an arithmetic (flooring) shift.
SessionPart(id) == id \div 2^CounterBits

\* The constructor's test m_session_id & 4<<14, i.e. bit SessionBits + 2.
SessionCheckFails(s) == (s \div 2^(SessionBits + 2)) % 2 = 1

\* The States whose constructor returned.
States == {s \in SessionIds : ~SessionCheckFails(s)}

\* Mutant of FirstObjectId: the | 1 left out, so the first id of a
\* session has counter part 0.
FirstObjectIdNoLowBit(s) == ToSigned(s * 2^CounterBits)

\* m_next_object_id(((int64_t)sessionId << 48) | 1)
FirstObjectId(s) == ToSigned(s * 2^CounterBits) + 1

VARIABLES
    ctr,       \* ctr[s]: m_next_object_id of the State of session s
    calls,     \* calls[s]: getNextObjectId calls begun on that State
    pc,        \* pc[t]: "idle", or "store" between the load and the store
    loaded,    \* loaded[t]: the value thread t loaded
    target,    \* target[t]: the State thread t is minting from
    minted     \* minted[s]: the outcomes on that State, in the order returned

vars == <<ctr, calls, pc, loaded, target, minted>>

\* Mutant of Outcome: the exhaustion check left out.
OutcomeUnchecked(s, id) == [id |-> id, ok |-> TRUE]

\* An outcome: the id getNextObjectId returned, or ok = FALSE if it threw.
Outcome(s, id) == [id |-> id, ok |-> SessionPart(id) = s]

Init == /\ ctr = [s \in States |-> FirstObjectId(s)]
        /\ calls = [s \in States |-> 0]
        /\ pc = [t \in Threads |-> "idle"]
        /\ loaded = [t \in Threads |-> 0]
        /\ target = [t \in Threads |-> CHOOSE s \in States : TRUE]
        /\ minted = [s \in States |-> <<>>]

\* Mutant of MintAtomic: the increment kept inside the counter bits, so
\* the counter wraps around within the session instead of leaving it.
MintAtomicMasked(t, s) ==
    /\ Atomic
    /\ pc[t] = "idle"
    /\ calls[s] < MaxCalls
    /\ ctr' = [ctr EXCEPT ![s] = s * 2^CounterBits + ((@ + 1) % 2^CounterBits)]
    /\ calls' = [calls EXCEPT ![s] = @ + 1]
    /\ minted' = [minted EXCEPT ![s] = Append(@, Outcome(s, ctr[s]))]
    /\ UNCHANGED <<pc, loaded, target>>

\* Mutant of MintAtomic: the incremented value returned
\* (++m_next_object_id in place of m_next_object_id++).
MintAtomicPreIncrement(t, s) ==
    /\ Atomic
    /\ pc[t] = "idle"
    /\ calls[s] < MaxCalls
    /\ ctr' = [ctr EXCEPT ![s] = ToSigned(@ + 1)]
    /\ calls' = [calls EXCEPT ![s] = @ + 1]
    /\ minted' = [minted EXCEPT ![s] = Append(@, Outcome(s, ctr'[s]))]
    /\ UNCHANGED <<pc, loaded, target>>

(* getNextObjectId with an atomic counter: fetch-and-increment, then the  *)
(* session check on the fetched value, which throws StateException when   *)
(* it fails; the counter has moved on either way.                         *)
MintAtomic(t, s) ==
    /\ Atomic
    /\ pc[t] = "idle"
    /\ calls[s] < MaxCalls
    /\ ctr' = [ctr EXCEPT ![s] = ToSigned(@ + 1)]
    /\ calls' = [calls EXCEPT ![s] = @ + 1]
    /\ minted' = [minted EXCEPT ![s] = Append(@, Outcome(s, ctr[s]))]
    /\ UNCHANGED <<pc, loaded, target>>

(* The EMSCRIPTEN build: the load of m_next_object_id ...                 *)
MintLoad(t, s) ==
    /\ ~Atomic
    /\ pc[t] = "idle"
    /\ calls[s] < MaxCalls
    /\ pc' = [pc EXCEPT ![t] = "store"]
    /\ loaded' = [loaded EXCEPT ![t] = ctr[s]]
    /\ target' = [target EXCEPT ![t] = s]
    /\ calls' = [calls EXCEPT ![s] = @ + 1]
    /\ UNCHANGED <<ctr, minted>>

\* Mutant of MintStore: the increment kept inside the counter bits.
MintStoreMasked(t) ==
    /\ pc[t] = "store"
    /\ LET s == target[t] IN
       /\ ctr' = [ctr EXCEPT ![s] = s * 2^CounterBits + ((loaded[t] + 1) % 2^CounterBits)]
       /\ minted' = [minted EXCEPT ![s] = Append(@, Outcome(s, loaded[t]))]
    /\ pc' = [pc EXCEPT ![t] = "idle"]
    /\ UNCHANGED <<calls, loaded, target>>

(* ... then the store of the loaded value plus one, the session check and *)
(* the return (or the throw).                                             *)
MintStore(t) ==
    /\ pc[t] = "store"
    /\ LET s == target[t] IN
       /\ ctr' = [ctr EXCEPT ![s] = ToSigned(loaded[t] + 1)]
       /\ minted' = [minted EXCEPT ![s] = Append(@, Outcome(s, loaded[t]))]
    /\ pc' = [pc EXCEPT ![t] = "idle"]
    /\ UNCHANGED <<calls, loaded, target>>

Next ==
    \/ \E t \in Threads, s \in States : MintAtomic(t, s) \/ MintLoad(t, s)
    \/ \E t \in Threads : MintStore(t)

Spec == Init /\ [][Next]_vars

-----------------------------------------------------------------------------
\* The ids getNextObjectId returned on the State of session s.
IdsOf(s) == {minted[s][i].id : i \in {j \in DOMAIN minted[s] : minted[s][j].ok}}

TypeOK ==
    /\ ctr \in [States -> Int]
    /\ calls \in [States -> 0..MaxCalls]
    /\ pc \in [Threads -> {"idle", "store"}]
    /\ loaded \in [Threads -> Int]
    /\ target \in [Threads -> States]
    /\ minted \in [States -> Seq([id : Int, ok : BOOLEAN])]

(* spec.md 3 (ObjectId): no id is returned twice, neither by one State    *)
(* (to two threads, or to one thread twice) nor by the States of two      *)
(* different sessions.  Broken by the EMSCRIPTEN counter when two threads *)
(* mint at once, or by a layout in which the sessions' ranges overlap.    *)
IdsUnique ==
    /\ \A s \in States : \A i, j \in DOMAIN minted[s] :
         i # j /\ minted[s][i].ok /\ minted[s][j].ok
           => minted[s][i].id # minted[s][j].id
    /\ \A s1, s2 \in States : s1 # s2 => IdsOf(s1) \cap IdsOf(s2) = {}

(* spec.md 3 and 8: every id the State of session K returns has its top   *)
(* two bits zero (so it is non-negative), (id >> 48) & 0x3FFF = K, and a  *)
(* non-zero counter part; and a State whose constructor returned gets its *)
(* first id (K << 48 | 1).  Broken if exhaustion is not detected, or if   *)
(* the constructor lets through a session id that does not fit in 14 bits:*)
(* from 2^14 the ids carry the wrong session, from 2^15 the first counter *)
(* value is negative and every getNextObjectId throws.                    *)
IdLayout ==
    /\ \A s \in States : \A id \in IdsOf(s) :
          /\ 0 <= id /\ id < 2^(Width - 2)
          /\ SessionPart(id) % 2^SessionBits = s
          /\ id % 2^CounterBits # 0
    /\ \A s \in States : Len(minted[s]) >= 1 => minted[s][1].ok

(* spec.md 3: within a session the ids are strictly increasing in the     *)
(* order getNextObjectId returns them, and once it has thrown for          *)
(* exhaustion it never returns an id again.                               *)
MintOrder ==
    \A s \in States : \A i, j \in DOMAIN minted[s] :
        i < j /\ minted[s][j].ok => minted[s][i].ok /\ minted[s][i].id < minted[s][j].id

(* spec.md 4.5: getNextObjectId implements the atomic counter of module   *)
(* IdCounter, each State's outcomes being its issued calls: the n-th call *)
(* on session K returns (K << 48) | n or, once n does not fit, throws;    *)
(* every call takes effect in one step, the EMSCRIPTEN load being a       *)
(* stutter.  Broken by two threads interleaving a load and a store, by a  *)
(* pre-increment, or by a first id other than (K << 48) | 1.              *)
IC == INSTANCE IdCounter WITH Sessions <- States, issued <- minted

RefinesIdCounter == IC!Spec
=============================================================================
