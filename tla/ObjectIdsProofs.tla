--------------------------- MODULE ObjectIdsProofs ---------------------------
(***************************************************************************)
(* Proofs about the object-id allocator, with the atomic counter and    *)
(* with the EMSCRIPTEN counter and one thread, for every width of the    *)
(* layout.                                                                 *)
(*                                                                         *)
(* The provers know nothing of x^n beyond what an instance computes, so   *)
(* the facts about powers of two the layout rests on are a hypothesis,    *)
(* PowersOfTwo, which holds for every SessionBits and CounterBits.        *)
(***************************************************************************)
EXTENDS ObjectIds, SequenceTheorems, TLAPS

\* 2^CounterBits: one session's range of counter values.
P == 2^CounterBits

\* 2^SessionBits: the number of sessions that fit the session field.
Q == 2^SessionBits

\* 2^(Width - 1): the sign bit of the id.
H == 2^(Width - 1)

(* The powers of two of the layout: the id has two bits above the session *)
(* field, so the sign bit is 2 * Q * P, and the full range is twice that. *)
PowersOfTwo ==
    /\ P \in Nat /\ P >= 2
    /\ Q \in Nat /\ Q >= 1
    /\ H = 2 * Q * P
    /\ 2^Width = 2 * H
    /\ 2^(Width - 2) = Q * P

(* The sessions the proofs are about: those that fit the session field    *)
(* (the constructor's own check lets wider ones through: ids_wide_session).*)
ValidSessions == SessionIds \subseteq 0..Q - 1

(* No more calls than a session's counter can go before it reaches the    *)
(* sign bit of the id, so that ++ on int64_t never wraps.                 *)
CallsBound == MaxCalls <= Q * P

(* The builds the proofs are about: the atomic counter, or the EMSCRIPTEN *)
(* counter with a single thread (the ids_emscripten_race run shows two).  *)
OneThread == \A u1, u2 \in Threads : u1 = u2

-----------------------------------------------------------------------------
\* int64_t conversion does nothing to a value that is already in range.
LEMMA ToSignedInRange ==
    ASSUME PowersOfTwo, NEW x \in 0..H - 1
    PROVE  ToSigned(x) = x
<1>1. x % 2^Width = x
    BY DEF PowersOfTwo, Width, H
<1>2. QED
    BY <1>1 DEF ToSigned, PowersOfTwo, H

(* The quotient of x by P is q exactly when q * P <= x < q * P + P.       *)
LEMMA DivUnique ==
    ASSUME NEW p \in Nat, p >= 1, NEW q \in Int, NEW x \in Int,
           q * p <= x, x < q * p + p
    PROVE  x \div p = q
OBVIOUS

LEMMA DivBounds ==
    ASSUME NEW p \in Nat, p >= 1, NEW x \in Int
    PROVE  (x \div p) * p <= x /\ x < (x \div p) * p + p
OBVIOUS

LEMMA ModUnique ==
    ASSUME NEW p \in Nat, p >= 1, NEW q \in Int, NEW r \in 0..p - 1
    PROVE  (q * p + r) % p = r
OBVIOUS

(* The quotient by P, stated for P once and for all.                     *)
LEMMA DivByP ==
    ASSUME PowersOfTwo
    PROVE  /\ \A q, x \in Int : q * P <= x /\ x < q * P + P => x \div P = q
           /\ \A x \in Int : (x \div P) * P <= x /\ x < (x \div P) * P + P
<1>1. P \in Nat /\ P >= 1
    BY DEF PowersOfTwo
<1>2. QED BY <1>1, DivUnique, DivBounds

(* The counter part k of an id s * P + k (1 <= k) leaves the session      *)
(* exactly when k reaches P.                                               *)
LEMMA SessionOfCounter ==
    ASSUME PowersOfTwo, NEW s \in Nat, NEW k \in Nat, k >= 1
    PROVE  SessionPart(s * P + k) = s <=> k < P
<1>1. P \in Nat /\ P >= 2
    BY DEF PowersOfTwo
<1>2. s * P + k \in Int
    BY <1>1
<1>3. SessionPart(s * P + k) = (s * P + k) \div P
    BY DEF SessionPart, P
<1>4. CASE k < P
    BY <1>1, <1>2, <1>3, <1>4, DivByP
<1>5. CASE k >= P
  <2>1. ((s * P + k) \div P) * P <= s * P + k /\ s * P + k < ((s * P + k) \div P) * P + P
      BY <1>2, DivByP
  <2>2. (s * P + k) \div P # s
    <3>1. SUFFICES ASSUME (s * P + k) \div P = s PROVE FALSE
        OBVIOUS
    <3>2. s * P + k < s * P + P
        BY <2>1, <3>1
    <3>3. QED BY <1>1, <1>5, <3>2
  <2>3. QED BY <1>1, <1>3, <1>5, <2>2
<1>6. QED BY <1>1, <1>4, <1>5

(* Every value a counter takes on a valid session, up to one past the     *)
(* last call, is below the sign bit.                                      *)
LEMMA CounterInRange ==
    ASSUME PowersOfTwo, NEW s \in 0..Q - 1, NEW k \in 0..Q * P + 1
    PROVE  s * P + k \in 0..H - 1
<1>1. P \in Nat /\ P >= 2 /\ Q \in Nat /\ Q >= 1 /\ H = 2 * Q * P
    BY DEF PowersOfTwo
<1>2. \A a, b, c \in Nat : a <= b => a * c <= b * c
    OBVIOUS
<1>3. s * P <= (Q - 1) * P
    BY <1>1, <1>2
<1>4. QED BY <1>1, <1>3

\* The States of valid sessions are among 0..Q - 1.
LEMMA StatesValid ==
    ASSUME ValidSessions
    PROVE  States \subseteq 0..Q - 1
BY DEF ValidSessions, States

\* What Append does, for all sequences over S.
LEMMA AppendFacts ==
    ASSUME NEW S
    PROVE  \A q \in Seq(S), x \in S :
             /\ Append(q, x) \in Seq(S)
             /\ Len(Append(q, x)) = Len(q) + 1
             /\ \A i \in 1..Len(q) : Append(q, x)[i] = q[i]
             /\ Append(q, x)[Len(q) + 1] = x
BY AppendProperties

(* The outcomes of every State so far: the i-th is that of the counter    *)
(* value s * P + i.  Both builds' invariants imply it, and it implies the *)
(* three properties.                                                       *)
OInv ==
    /\ minted \in [States -> Seq([id : Int, ok : BOOLEAN])]
    /\ \A s \in States : \A i \in 1..Len(minted[s]) :
         minted[s][i] = Outcome(s, s * P + i)

\* The first value of a valid session's counter is s * P + 1.
LEMMA FirstIdValue ==
    ASSUME PowersOfTwo, ValidSessions
    PROVE  \A s \in States : FirstObjectId(s) = s * P + 1
<1>1. \A x \in 0..H - 1 : ToSigned(x) = x
    BY ToSignedInRange
<1>2. \A s \in 0..Q - 1, k \in 0..Q * P + 1 : s * P + k \in 0..H - 1
    BY CounterInRange
<1>3. \A s \in States : s * P + 0 = s * P /\ s \in 0..Q - 1
    BY StatesValid DEF PowersOfTwo
<1>4. 0 \in 0..Q * P + 1
    BY DEF PowersOfTwo
<1>5. \A s \in States : ToSigned(s * P) = s * P
    BY <1>1, <1>2, <1>3, <1>4
<1>6. QED BY <1>5 DEF FirstObjectId, P

\* The increment of a counter that has been incremented k - 2 times stays
\* in range: int64_t ++ does not wrap.
LEMMA IncrementInRange ==
    ASSUME PowersOfTwo, NEW s \in 0..Q - 1, NEW k \in 0..Q * P + 1
    PROVE  ToSigned(s * P + k) = s * P + k
<1>1. \A x \in 0..H - 1 : ToSigned(x) = x
    BY ToSignedInRange
<1>2. s * P + k \in 0..H - 1
    BY CounterInRange
<1>3. QED BY <1>1, <1>2

-----------------------------------------------------------------------------
(* The inductive invariant of the atomic build.  No thread is ever between *)
(* a load and a store, and on the State of each session s the counter has *)
(* been incremented once per call: m_next_object_id is s * P + 1 + calls, *)
(* and the i-th outcome is that of the counter value s * P + i.           *)
AInv ==
    /\ ctr \in [States -> Int]
    /\ calls \in [States -> 0..MaxCalls]
    /\ minted \in [States -> Seq([id : Int, ok : BOOLEAN])]
    /\ pc = [t \in Threads |-> "idle"]
    /\ \A s \in States :
         /\ ctr[s] = s * P + 1 + calls[s]
         /\ Len(minted[s]) = calls[s]
         /\ \A i \in 1..calls[s] : minted[s][i] = Outcome(s, s * P + i)

LEMMA AInvInit ==
    ASSUME PowersOfTwo, ValidSessions, Init
    PROVE  AInv
<1>1. \A s \in States : FirstObjectId(s) = s * P + 1
    BY FirstIdValue
<1>2. \A s \in States : Len(minted[s]) = 0
    BY EmptySeq DEF Init
<1>3. QED
    BY <1>1, <1>2, EmptySeq, StatesValid, MaxCallsAssumption DEF Init, AInv, PowersOfTwo

\* An atomic fetch-and-increment on the State of session s keeps AInv.
LEMMA MintAtomicAInv ==
    ASSUME PowersOfTwo, ValidSessions, CallsBound, AInv,
           NEW t \in Threads, NEW s \in States, MintAtomic(t, s)
    PROVE  AInv'
<1>1. calls[s] \in 0..MaxCalls - 1 /\ MaxCalls <= Q * P
    BY MaxCallsAssumption DEF MintAtomic, AInv, CallsBound
<1>2. s \in 0..Q - 1
    BY StatesValid
<1>3. ctr[s] + 1 = s * P + (calls[s] + 2) /\ ctr[s] = s * P + (calls[s] + 1)
    BY <1>2 DEF AInv, PowersOfTwo
<1>4. ToSigned(ctr[s] + 1) = s * P + 1 + (calls[s] + 1)
  <2>1. \A x \in 0..H - 1 : ToSigned(x) = x
      BY ToSignedInRange
  <2>2. \A y \in 0..Q - 1, j \in 0..Q * P + 1 : y * P + j \in 0..H - 1
      BY CounterInRange
  <2>3. calls[s] + 2 \in 0..Q * P + 1
      BY <1>1, MaxCallsAssumption DEF PowersOfTwo
  <2>4. s * P + (calls[s] + 2) \in 0..H - 1
      BY <1>2, <2>2, <2>3
  <2>5. QED BY <1>1, <1>2, <1>3, <2>1, <2>4 DEF PowersOfTwo
<1>5. Outcome(s, ctr[s]) = Outcome(s, s * P + (calls[s] + 1))
    BY <1>3
<1>6. Outcome(s, s * P + (calls[s] + 1)) \in [id : Int, ok : BOOLEAN]
    BY <1>1, <1>2 DEF Outcome, PowersOfTwo
<1>7. /\ minted'[s] = Append(minted[s], Outcome(s, s * P + (calls[s] + 1)))
      /\ minted[s] \in Seq([id : Int, ok : BOOLEAN])
    BY <1>5 DEF MintAtomic, AInv
<1>8. /\ minted'[s] \in Seq([id : Int, ok : BOOLEAN])
      /\ Len(minted'[s]) = calls[s] + 1
      /\ \A i \in 1..calls[s] : minted'[s][i] = minted[s][i]
      /\ minted'[s][calls[s] + 1] = Outcome(s, s * P + (calls[s] + 1))
  <2>1. Len(minted[s]) = calls[s]
      BY DEF AInv
  <2>2. \A S, x : \A q \in Seq(S) : x \in S =>
           /\ Append(q, x) \in Seq(S)
           /\ Len(Append(q, x)) = Len(q) + 1
           /\ \A i \in 1..Len(q) : Append(q, x)[i] = q[i]
           /\ Append(q, x)[Len(q) + 1] = x
      BY AppendProperties
  <2>3. QED BY <1>6, <1>7, <2>1, <2>2
<1>9. \A i \in 1..calls[s] + 1 : minted'[s][i] = Outcome(s, s * P + i)
  <2> TAKE i \in 1..calls[s] + 1
  <2>1. CASE i <= calls[s]
    <3>1. minted[s][i] = Outcome(s, s * P + i)
        BY <1>1, <2>1 DEF AInv
    <3>2. QED BY <1>1, <1>8, <2>1, <3>1
  <2>2. CASE i = calls[s] + 1
      BY <1>8, <2>2
  <2>3. QED BY <1>1, <2>1, <2>2
<1>10. /\ ctr' = [ctr EXCEPT ![s] = s * P + 1 + (calls[s] + 1)]
       /\ calls' = [calls EXCEPT ![s] = calls[s] + 1]
       /\ minted' = [minted EXCEPT ![s] = minted'[s]]
       /\ pc' = pc
    BY <1>4 DEF MintAtomic, AInv
<1>11. /\ ctr' \in [States -> Int]
       /\ calls' \in [States -> 0..MaxCalls]
       /\ minted' \in [States -> Seq([id : Int, ok : BOOLEAN])]
       /\ pc' = [t2 \in Threads |-> "idle"]
  <2>1. ctr' \in [States -> Int]
      BY <1>2, <1>10 DEF AInv, PowersOfTwo
  <2>2. calls' \in [States -> 0..MaxCalls]
      BY <1>1, <1>10, MaxCallsAssumption DEF AInv
  <2>3. minted' \in [States -> Seq([id : Int, ok : BOOLEAN])]
      BY <1>8, <1>10 DEF AInv
  <2>4. pc' = [t2 \in Threads |-> "idle"]
      BY <1>10 DEF AInv
  <2>5. QED BY <2>1, <2>2, <2>3, <2>4
<1>12. ASSUME NEW s2 \in States
       PROVE  /\ ctr'[s2] = s2 * P + 1 + calls'[s2]
              /\ Len(minted'[s2]) = calls'[s2]
              /\ \A i \in 1..calls'[s2] : minted'[s2][i] = Outcome(s2, s2 * P + i)
  <2>1. CASE s2 = s
      BY <1>8, <1>9, <1>10, <2>1 DEF AInv
  <2>2. CASE s2 # s
      BY <1>10, <2>2 DEF AInv
  <2>3. QED BY <2>1, <2>2
<1>13. QED
    BY <1>11, <1>12 DEF AInv

\* Every step of the atomic build keeps AInv: no thread ever loads.
LEMMA AInvStep ==
    ASSUME PowersOfTwo, ValidSessions, CallsBound, Atomic, AInv, [Next]_vars
    PROVE  AInv'
<1>1. CASE \E t \in Threads, s \in States : MintAtomic(t, s) \/ MintLoad(t, s)
  <2>1. PICK t \in Threads, s \in States : MintAtomic(t, s) \/ MintLoad(t, s)
      BY <1>1
  <2>2. ~MintLoad(t, s)
      BY DEF MintLoad
  <2>3. QED BY <2>1, <2>2, MintAtomicAInv
<1>2. CASE \E t \in Threads : MintStore(t)
    BY <1>2 DEF MintStore, AInv
<1>3. CASE UNCHANGED vars
    BY <1>3 DEF vars, AInv
<1>4. QED BY <1>1, <1>2, <1>3 DEF Next

(* What OInv says of the outcomes: the i-th is that of s * P + i, which   *)
(* is an id (ok) exactly when i < P.                                       *)
LEMMA OutcomesOf ==
    ASSUME PowersOfTwo, ValidSessions, OInv, NEW s \in States,
           NEW i \in DOMAIN minted[s]
    PROVE  /\ i \in 1..Len(minted[s]) /\ s \in 0..Q - 1
           /\ minted[s][i].id = s * P + i
           /\ minted[s][i].ok <=> i < P
<1>1. s \in 0..Q - 1
    BY StatesValid
<1>2. i \in 1..Len(minted[s])
    BY DEF OInv
<1>3. minted[s][i] = Outcome(s, s * P + i)
    BY <1>2 DEF OInv
<1>4. \A y \in Nat, k \in Nat : k >= 1 => (SessionPart(y * P + k) = y <=> k < P)
    BY SessionOfCounter
<1>5. minted[s][i].ok <=> i < P
  <2>1. minted[s][i].ok = (SessionPart(s * P + i) = s)
      BY <1>3 DEF Outcome
  <2>2. SessionPart(s * P + i) = s <=> i < P
      BY <1>1, <1>2, <1>4
  <2>3. QED BY <2>1, <2>2, Zenon
<1>6. QED BY <1>1, <1>2, <1>3, <1>5 DEF Outcome

\* AInv implies OInv: the atomic build has made one outcome per call.
LEMMA AInvOInv ==
    ASSUME AInv
    PROVE  OInv
BY DEF AInv, OInv

-----------------------------------------------------------------------------
(* The inductive invariant of the EMSCRIPTEN build with one thread.  The  *)
(* counter of each State has been stored once per outcome; a State no    *)
(* thread is minting from has had as many calls as outcomes; and a thread *)
(* between its load and its store has loaded the current counter of its  *)
(* State and made the call whose outcome is not there yet.                *)
SInv ==
    /\ ctr \in [States -> Int]
    /\ calls \in [States -> 0..MaxCalls]
    /\ minted \in [States -> Seq([id : Int, ok : BOOLEAN])]
    /\ pc \in [Threads -> {"idle", "store"}]
    /\ loaded \in [Threads -> Int]
    /\ DOMAIN target = Threads
    /\ \A s \in States :
         /\ ctr[s] = s * P + 1 + Len(minted[s])
         /\ \A i \in 1..Len(minted[s]) : minted[s][i] = Outcome(s, s * P + i)
         /\ (\A t \in Threads : pc[t] = "store" => target[t] # s)
              => calls[s] = Len(minted[s])
    /\ \A t \in Threads : pc[t] = "store" =>
         /\ target[t] \in States
         /\ loaded[t] = ctr[target[t]]
         /\ calls[target[t]] = Len(minted[target[t]]) + 1

LEMMA SInvOInv ==
    ASSUME SInv
    PROVE  OInv
BY DEF SInv, OInv

LEMMA SInvInit ==
    ASSUME PowersOfTwo, ValidSessions, Init
    PROVE  SInv
<1>1. \A s \in States : FirstObjectId(s) = s * P + 1
    BY FirstIdValue
<1>2. \A s \in States : Len(minted[s]) = 0
    BY EmptySeq DEF Init
<1>3. ctr \in [States -> Int]
    BY <1>1, StatesValid DEF Init, PowersOfTwo
<1>4. /\ calls \in [States -> 0..MaxCalls]
      /\ minted \in [States -> Seq([id : Int, ok : BOOLEAN])]
      /\ pc \in [Threads -> {"idle", "store"}]
      /\ loaded \in [Threads -> Int]
      /\ DOMAIN target = Threads
    BY EmptySeq, MaxCallsAssumption DEF Init
<1>5. \A s \in States : ctr[s] = s * P + 1 + Len(minted[s])
    BY <1>1, <1>2, StatesValid DEF Init, PowersOfTwo
<1>6. \A s \in States : calls[s] = Len(minted[s])
    BY <1>2 DEF Init
<1>7. \A t \in Threads : pc[t] = "idle"
    BY DEF Init
<1>8. QED
    BY <1>2, <1>3, <1>4, <1>5, <1>6, <1>7 DEF SInv

(* The load of the only thread: no State is being minted from, so the     *)
(* State s has had as many calls as outcomes, and the thread now holds    *)
(* its current counter and the one call without an outcome.              *)
LEMMA MintLoadSInv ==
    ASSUME OneThread, SInv, NEW t \in Threads, NEW s \in States, MintLoad(t, s)
    PROVE  SInv'
<1>1. \A u \in Threads : u = t /\ pc[u] = "idle"
    BY DEF OneThread, MintLoad
<1>2. calls[s] = Len(minted[s]) /\ calls[s] \in 0..MaxCalls - 1
    BY <1>1, MaxCallsAssumption DEF SInv, MintLoad
<1>3. /\ pc' = [pc EXCEPT ![t] = "store"]
      /\ loaded'[t] = ctr[s] /\ target'[t] = s
      /\ calls' = [calls EXCEPT ![s] = calls[s] + 1]
      /\ ctr' = ctr /\ minted' = minted
    BY DEF MintLoad, SInv
<1>4. /\ ctr' \in [States -> Int]
      /\ calls' \in [States -> 0..MaxCalls]
      /\ minted' \in [States -> Seq([id : Int, ok : BOOLEAN])]
      /\ pc' \in [Threads -> {"idle", "store"}]
      /\ loaded' \in [Threads -> Int]
      /\ DOMAIN target' = Threads
  <2>1. ctr[s] \in Int
      BY DEF SInv
  <2>2. QED BY <1>2, <1>3, <2>1, MaxCallsAssumption DEF SInv, MintLoad
<1>5. ASSUME NEW s2 \in States
      PROVE  /\ ctr'[s2] = s2 * P + 1 + Len(minted'[s2])
             /\ \A i \in 1..Len(minted'[s2]) : minted'[s2][i] = Outcome(s2, s2 * P + i)
             /\ (\A u \in Threads : pc'[u] = "store" => target'[u] # s2)
                  => calls'[s2] = Len(minted'[s2])
  <2>1. /\ ctr'[s2] = s2 * P + 1 + Len(minted'[s2])
        /\ \A i \in 1..Len(minted'[s2]) : minted'[s2][i] = Outcome(s2, s2 * P + i)
      BY <1>3 DEF SInv
  <2>2. ASSUME \A u \in Threads : pc'[u] = "store" => target'[u] # s2
        PROVE  calls'[s2] = Len(minted'[s2])
    <3>1. pc'[t] = "store"
        BY <1>3, <1>4 DEF SInv
    <3>2. s2 # s
        BY <1>3, <2>2, <3>1
    <3>3. calls[s2] = Len(minted[s2])
        BY <1>1 DEF SInv
    <3>4. QED BY <1>3, <3>2, <3>3 DEF SInv
  <2>3. QED BY <2>1, <2>2
<1>6. ASSUME NEW u \in Threads, pc'[u] = "store"
      PROVE  /\ target'[u] \in States
             /\ loaded'[u] = ctr'[target'[u]]
             /\ calls'[target'[u]] = Len(minted'[target'[u]]) + 1
  <2>1. u = t /\ target'[u] = s
      BY <1>1, <1>3
  <2>2. loaded'[u] = ctr'[s]
      BY <1>3, <2>1
  <2>3. calls'[s] = Len(minted'[s]) + 1
      BY <1>2, <1>3 DEF SInv
  <2>4. QED BY <2>1, <2>2, <2>3
<1>7. QED BY <1>4, <1>5, <1>6, Zenon DEF SInv

(* The store of the only thread: the counter of its State goes one past   *)
(* the loaded value, which does not wrap, and the outcome of the loaded   *)
(* value is appended, so the State again has as many calls as outcomes.  *)
LEMMA MintStoreSInv ==
    ASSUME PowersOfTwo, ValidSessions, CallsBound, OneThread, SInv,
           NEW t \in Threads, MintStore(t)
    PROVE  SInv'
<1>1. \A u \in Threads : u = t
    BY DEF OneThread
<1>2. PICK s \in States : s = target[t]
    BY DEF MintStore, SInv
<1>3. PICK L \in Nat : L = Len(minted[s])
    BY DEF SInv
<1>4. /\ loaded[t] = s * P + (L + 1)
      /\ calls[s] = L + 1
      /\ L + 1 <= Q * P
      /\ s \in 0..Q - 1
  <2>1. pc[t] = "store"
      BY DEF MintStore
  <2>2. loaded[t] = ctr[s] /\ calls[s] = L + 1
      BY <1>2, <1>3, <2>1 DEF SInv
  <2>3. ctr[s] = s * P + 1 + L
      BY <1>3 DEF SInv
  <2>4. s \in 0..Q - 1 /\ P \in Nat /\ Q \in Nat
      BY StatesValid DEF PowersOfTwo
  <2>5. calls[s] <= MaxCalls /\ MaxCalls <= Q * P
      BY DEF SInv, CallsBound
  <2>6. \A x, p, l \in Nat : x * p + 1 + l = x * p + (l + 1)
      OBVIOUS
  <2>7. s \in Nat
      BY <2>4
  <2>8. loaded[t] = s * P + (L + 1)
      BY <2>2, <2>3, <2>4, <2>6, <2>7, Zenon
  <2>9. \A a, b \in Nat : a * b \in Nat
      OBVIOUS
  <2>10. \A a \in Int, m \in Nat, b \in Int : a <= m /\ m <= b => a <= b
      OBVIOUS
  <2>11. L + 1 <= Q * P
    <3>1. Q * P \in Int /\ L + 1 \in Int
        BY <2>4, <2>9
    <3>2. QED BY <2>2, <2>5, <2>10, <3>1, MaxCallsAssumption, Zenon
  <2>12. QED BY <2>2, <2>4, <2>8, <2>11
<1>5. ToSigned(loaded[t] + 1) = s * P + 1 + (L + 1)
  <2>1. L + 2 \in 0..Q * P + 1
      BY <1>4 DEF PowersOfTwo
  <2>2. ToSigned(s * P + (L + 2)) = s * P + (L + 2)
      BY <1>4, <2>1, IncrementInRange
  <2>3. QED BY <1>4, <2>2 DEF PowersOfTwo
<1>6. Outcome(s, loaded[t]) = Outcome(s, s * P + (L + 1))
  <2>1. Outcome(s, s * P + (L + 1)) \in [id : Int, ok : BOOLEAN]
      BY <1>4 DEF Outcome, PowersOfTwo
  <2>2. QED BY <1>4
<1>7. /\ ctr' = [ctr EXCEPT ![s] = s * P + 1 + (L + 1)]
      /\ minted' = [minted EXCEPT ![s] = Append(minted[s], Outcome(s, s * P + (L + 1)))]
      /\ pc' = [pc EXCEPT ![t] = "idle"]
      /\ calls' = calls
  <2>1. ctr' = [ctr EXCEPT ![s] = ToSigned(loaded[t] + 1)]
      BY <1>2 DEF MintStore
  <2>2. minted' = [minted EXCEPT ![s] = Append(minted[s], Outcome(s, loaded[t]))]
      BY <1>2 DEF MintStore
  <2>3. pc' = [pc EXCEPT ![t] = "idle"] /\ calls' = calls
      BY DEF MintStore
  <2>4. ctr' = [ctr EXCEPT ![s] = s * P + 1 + (L + 1)]
      BY <1>5, <2>1, Zenon
  <2>5. minted' = [minted EXCEPT ![s] = Append(minted[s], Outcome(s, s * P + (L + 1)))]
      BY <1>6, <2>2, Zenon
  <2>6. QED BY <2>3, <2>4, <2>5
<1>8. /\ minted'[s] \in Seq([id : Int, ok : BOOLEAN])
      /\ Len(minted'[s]) = L + 1
      /\ \A i \in 1..L : minted'[s][i] = minted[s][i]
      /\ minted'[s][L + 1] = Outcome(s, s * P + (L + 1))
  <2>1. Outcome(s, s * P + (L + 1)) \in [id : Int, ok : BOOLEAN]
      BY <1>4 DEF Outcome, PowersOfTwo
  <2>2. minted[s] \in Seq([id : Int, ok : BOOLEAN])
      BY DEF SInv
  <2>3. \A q \in Seq([id : Int, ok : BOOLEAN]), x \in [id : Int, ok : BOOLEAN] :
           /\ Append(q, x) \in Seq([id : Int, ok : BOOLEAN])
           /\ Len(Append(q, x)) = Len(q) + 1
           /\ \A i \in 1..Len(q) : Append(q, x)[i] = q[i]
           /\ Append(q, x)[Len(q) + 1] = x
      BY AppendFacts
  <2>4. QED BY <1>3, <1>7, <2>1, <2>2, <2>3 DEF SInv
<1>9. \A u \in Threads : pc'[u] = "idle"
    BY <1>1, <1>7 DEF SInv
<1>10. /\ ctr' \in [States -> Int]
       /\ calls' \in [States -> 0..MaxCalls]
       /\ minted' \in [States -> Seq([id : Int, ok : BOOLEAN])]
       /\ pc' \in [Threads -> {"idle", "store"}]
       /\ loaded' \in [Threads -> Int]
       /\ DOMAIN target' = Threads
  <2>1. s * P + 1 + (L + 1) \in Int
      BY <1>4 DEF PowersOfTwo
  <2>2. ctr' \in [States -> Int]
      BY <1>7, <2>1 DEF SInv
  <2>3. minted' \in [States -> Seq([id : Int, ok : BOOLEAN])]
      BY <1>7, <1>8 DEF SInv
  <2>4. pc' \in [Threads -> {"idle", "store"}]
      BY <1>7 DEF SInv
  <2>5. calls' \in [States -> 0..MaxCalls] /\ loaded' \in [Threads -> Int]
        /\ DOMAIN target' = Threads
      BY <1>7 DEF SInv, MintStore
  <2>6. QED BY <2>2, <2>3, <2>4, <2>5
<1>11. ASSUME NEW s2 \in States
       PROVE  /\ ctr'[s2] = s2 * P + 1 + Len(minted'[s2])
              /\ \A i \in 1..Len(minted'[s2]) : minted'[s2][i] = Outcome(s2, s2 * P + i)
              /\ calls'[s2] = Len(minted'[s2])
  <2>1. CASE s2 = s
    <3>1. \A i \in 1..L : minted[s][i] = Outcome(s, s * P + i)
        BY <1>3 DEF SInv
    <3>2. \A i \in 1..L + 1 : minted'[s][i] = Outcome(s, s * P + i)
        BY <1>8, <3>1
    <3>3. ctr'[s] = s * P + 1 + (L + 1) /\ calls'[s] = L + 1
        BY <1>4, <1>7 DEF SInv
    <3>4. QED BY <1>8, <2>1, <3>2, <3>3
  <2>2. CASE s2 # s
    <3>1. \A u \in Threads : pc[u] = "store" => target[u] # s2
        BY <1>1, <1>2, <2>2
    <3>2. calls[s2] = Len(minted[s2])
        BY <3>1 DEF SInv
    <3>3. QED BY <1>7, <2>2, <3>2 DEF SInv
  <2>3. QED BY <2>1, <2>2
<1>12. QED BY <1>9, <1>10, <1>11 DEF SInv

\* Every step of the EMSCRIPTEN build with one thread keeps SInv.
LEMMA SInvStep ==
    ASSUME PowersOfTwo, ValidSessions, CallsBound, OneThread, ~Atomic, SInv,
           [Next]_vars
    PROVE  SInv'
<1>1. CASE \E t \in Threads, s \in States : MintAtomic(t, s) \/ MintLoad(t, s)
  <2>1. PICK t \in Threads, s \in States : MintAtomic(t, s) \/ MintLoad(t, s)
      BY <1>1
  <2>2. ~MintAtomic(t, s)
      BY DEF MintAtomic
  <2>3. QED BY <2>1, <2>2, MintLoadSInv
<1>2. CASE \E t \in Threads : MintStore(t)
    BY <1>2, MintStoreSInv
<1>3. CASE UNCHANGED vars
    BY <1>3 DEF vars, SInv
<1>4. QED BY <1>1, <1>2, <1>3 DEF Next

-----------------------------------------------------------------------------
(* The inductive invariant of either build: AInv for the atomic counter,  *)
(* SInv for the EMSCRIPTEN one.                                            *)
BuildInv == IF Atomic THEN AInv ELSE SInv

\* In the builds the proofs are about, every reachable state satisfies OInv.
LEMMA OInvHolds ==
    ASSUME PowersOfTwo, ValidSessions, CallsBound, Atomic \/ OneThread
    PROVE  Spec => []OInv
<1>1. Init => BuildInv
  <2>1. CASE Atomic
      BY <2>1, AInvInit DEF BuildInv
  <2>2. CASE ~Atomic
      BY <2>2, SInvInit DEF BuildInv
  <2>3. QED BY <2>1, <2>2
<1>2. BuildInv /\ [Next]_vars => BuildInv'
  <2>1. CASE Atomic
      BY <2>1, AInvStep DEF BuildInv
  <2>2. CASE ~Atomic
      BY <2>2, SInvStep DEF BuildInv
  <2>3. QED BY <2>1, <2>2
<1>3. BuildInv => OInv
    BY AInvOInv, SInvOInv DEF BuildInv
<1>4. QED BY <1>1, <1>2, <1>3, PTL DEF Spec

-----------------------------------------------------------------------------
(* spec.md 3: within a session the ids increase in the order             *)
(* getNextObjectId returns them, and once it has thrown it never returns  *)
(* an id again, for every width of the layout, every valid set of         *)
(* sessions and up to Q * P calls per State, in the atomic build with any *)
(* number of threads and in the EMSCRIPTEN build with one.                *)
THEOREM MintOrderHolds ==
    ASSUME PowersOfTwo, ValidSessions, CallsBound, Atomic \/ OneThread
    PROVE  Spec => []MintOrder
<1>1. Spec => []OInv
    BY OInvHolds
<1>3. OInv => MintOrder
  <2> SUFFICES ASSUME OInv, NEW s \in States,
                      NEW i \in DOMAIN minted[s], NEW j \in DOMAIN minted[s],
                      i < j, minted[s][j].ok
               PROVE  minted[s][i].ok /\ minted[s][i].id < minted[s][j].id
      BY DEF MintOrder
  <2>1. P \in Nat
      BY DEF PowersOfTwo
  <2>2. QED BY <2>1, OutcomesOf
<1>4. QED BY <1>1, <1>3, PTL

(* spec.md 3: no id is returned twice, by one State or by the States of   *)
(* two sessions, under the same hypotheses.                                *)
THEOREM IdsUniqueHolds ==
    ASSUME PowersOfTwo, ValidSessions, CallsBound, Atomic \/ OneThread
    PROVE  Spec => []IdsUnique
<1>1. OInv => IdsUnique
  <2> SUFFICES ASSUME OInv PROVE IdsUnique
      OBVIOUS
  <2>1. P \in Nat
      BY DEF PowersOfTwo
  <2>2. ASSUME NEW s \in States, NEW i \in DOMAIN minted[s], NEW j \in DOMAIN minted[s],
               i # j
        PROVE  minted[s][i].id # minted[s][j].id
      BY <2>1, <2>2, OutcomesOf
  <2>3. ASSUME NEW s1 \in States, NEW s2 \in States, s1 # s2
        PROVE  IdsOf(s1) \cap IdsOf(s2) = {}
    <3>1. \A s \in States : \A id \in IdsOf(s) : SessionPart(id) = s
      <4> TAKE s \in States
      <4>1. \A i \in DOMAIN minted[s] : minted[s][i].ok => SessionPart(minted[s][i].id) = s
        <5> TAKE i \in DOMAIN minted[s]
        <5>1. /\ minted[s][i].id = s * P + i
              /\ minted[s][i].ok <=> i < P
              /\ i \in 1..Len(minted[s]) /\ s \in 0..Q - 1
            BY OutcomesOf
        <5>2. \A y \in Nat, k \in Nat : k >= 1 => (SessionPart(y * P + k) = y <=> k < P)
            BY SessionOfCounter
        <5>3. SUFFICES ASSUME minted[s][i].ok
                       PROVE  SessionPart(minted[s][i].id) = s
            OBVIOUS
        <5>4. i < P
            BY <5>1, <5>3, Zenon
        <5>5. s \in Nat /\ i \in Nat /\ i >= 1
            BY <5>1
        <5>6. SessionPart(s * P + i) = s
            BY <5>2, <5>4, <5>5, Zenon
        <5>7. QED BY <5>1, <5>6
      <4>2. QED BY <4>1 DEF IdsOf
    <3>2. QED BY <2>3, <3>1
  <2>4. QED BY <2>2, <2>3 DEF IdsUnique
<1>2. QED BY <1>1, OInvHolds, PTL


(* spec.md 3 and 8: every id the State of a valid session K returns has   *)
(* its top two bits zero, K in the session field and a non-zero counter   *)
(* part, and the first call always returns an id, under the same          *)
(* hypotheses.                                                             *)
THEOREM IdLayoutHolds ==
    ASSUME PowersOfTwo, ValidSessions, CallsBound, Atomic \/ OneThread
    PROVE  Spec => []IdLayout
<1>1. OInv => IdLayout
  <2> SUFFICES ASSUME OInv PROVE IdLayout
      OBVIOUS
  <2>1. P \in Nat /\ P >= 2 /\ Q \in Nat /\ Q >= 1 /\ 2^(Width - 2) = Q * P
      BY DEF PowersOfTwo
  <2>2. ASSUME NEW s \in States, NEW id \in IdsOf(s)
        PROVE  /\ 0 <= id /\ id < 2^(Width - 2)
               /\ SessionPart(id) % 2^SessionBits = s
               /\ id % 2^CounterBits # 0
    <3>1. PICK i \in DOMAIN minted[s] : minted[s][i].ok /\ id = minted[s][i].id
        BY DEF IdsOf
    <3>2. /\ minted[s][i].id = s * P + i
          /\ minted[s][i].ok <=> i < P
          /\ i \in 1..Len(minted[s]) /\ s \in 0..Q - 1
        BY OutcomesOf
    <3>3. i < P
        BY <3>1, <3>2, Zenon
    <3>4. id = s * P + i /\ i \in 1..P - 1 /\ s \in 0..Q - 1
        BY <2>1, <3>1, <3>2, <3>3
    <3>5. 0 <= id /\ id < 2^(Width - 2)
      <4>1. \A a, b, c \in Nat : a <= b => a * c <= b * c
          OBVIOUS
      <4>2. s * P <= (Q - 1) * P
          BY <2>1, <3>4, <4>1
      <4>3. QED BY <2>1, <3>4, <4>2
    <3>6. SessionPart(id) % 2^SessionBits = s
      <4>1. \A y \in Nat, k \in Nat : k >= 1 => (SessionPart(y * P + k) = y <=> k < P)
          BY SessionOfCounter
      <4>2. SessionPart(id) = s
          BY <2>1, <3>4, <4>1
      <4>3. QED BY <2>1, <3>4, <4>2 DEF Q
    <3>7. id % 2^CounterBits # 0
      <4>1. \A q \in Int, r \in 0..P - 1 : (q * P + r) % P = r
          BY <2>1, ModUnique
      <4>2. id % P = i
          BY <2>1, <3>4, <4>1
      <4>3. QED BY <3>4, <4>2 DEF P
    <3>8. QED BY <3>5, <3>6, <3>7
  <2>3. ASSUME NEW s \in States, Len(minted[s]) >= 1
        PROVE  minted[s][1].ok
    <3>1. 1 \in DOMAIN minted[s]
        BY <2>3 DEF OInv
    <3>2. minted[s][1].ok <=> 1 < P
        BY <3>1, OutcomesOf
    <3>3. QED BY <2>1, <3>2
  <2>4. QED BY <2>2, <2>3 DEF IdLayout
<1>2. QED BY <1>1, OInvHolds, PTL

-----------------------------------------------------------------------------
(* A step that appends one outcome to the calls of a State is, once OInv  *)
(* holds after it, the IdCounter call on that session: the appended       *)
(* outcome is the n-th, and it is (K << 48) | n, refused when n does not  *)
(* fit the counter bits.                                                   *)
LEMMA AppendIsCall ==
    ASSUME PowersOfTwo, ValidSessions, OInv, OInv', NEW s \in States,
           \E x : minted' = [minted EXCEPT ![s] = Append(@, x)]
    PROVE  IC!NextObjectId(s)
<1>1. PICK x : minted' = [minted EXCEPT ![s] = Append(@, x)]
    BY Zenon
<1> DEFINE n == Len(minted[s]) + 1
<1>2. minted[s] \in Seq([id : Int, ok : BOOLEAN]) /\ minted'[s] = Append(minted[s], x)
    BY <1>1 DEF OInv
<1>3. n \in Nat /\ n >= 1 /\ Len(minted'[s]) = n /\ minted'[s][n] = x
    BY <1>2
<1>4. x = Outcome(s, s * P + n)
    BY <1>3 DEF OInv
<1>5. Outcome(s, s * P + n) = IC!NthCall(s, n)
  <2>1. s \in Nat
      BY StatesValid
  <2>2. SessionPart(s * P + n) = s <=> n < P
      BY <1>3, <2>1, SessionOfCounter
  <2>3. Outcome(s, s * P + n) = [id |-> s * P + n, ok |-> n < P]
      BY <2>2 DEF Outcome
  <2>4. IC!NthCall(s, n) = [id |-> s * P + n, ok |-> n < P]
      BY DEF IC!NthCall, P
  <2>5. QED BY <2>3, <2>4
<1>6. QED BY <1>1, <1>4, <1>5, Zenon DEF IC!NextObjectId

(* Every step of the allocator, between two states that satisfy OInv, is  *)
(* one IdCounter call or leaves every State's outcomes as they are: the   *)
(* EMSCRIPTEN load returns nothing, and the store or the fetch-and-add    *)
(* returns one outcome on one State.                                      *)
LEMMA StepIsCall ==
    ASSUME PowersOfTwo, ValidSessions, OInv, OInv', [Next]_vars
    PROVE  [IC!Next]_minted
<1>1. CASE \E t \in Threads, s \in States : MintAtomic(t, s) \/ MintLoad(t, s)
  <2>1. PICK t \in Threads, s \in States : MintAtomic(t, s) \/ MintLoad(t, s)
      BY <1>1
  <2>2. CASE MintAtomic(t, s)
    <3>1. minted' = [minted EXCEPT ![s] = Append(@, Outcome(s, ctr[s]))]
        BY <2>2 DEF MintAtomic
    <3>2. \E x : minted' = [minted EXCEPT ![s] = Append(@, x)]
        BY <3>1, Zenon
    <3>3. IC!NextObjectId(s)
        BY <3>2, AppendIsCall, Zenon
    <3>4. QED BY <3>3 DEF IC!Next
  <2>3. CASE MintLoad(t, s)
      BY <2>3 DEF MintLoad
  <2>4. QED BY <2>1, <2>2, <2>3
<1>2. CASE \E t \in Threads : MintStore(t)
  <2>1. PICK t \in Threads : MintStore(t)
      BY <1>2
  <2>2. CASE target[t] \in States
    <3>1. minted' = [minted EXCEPT ![target[t]] = Append(@, Outcome(target[t], loaded[t]))]
        BY <2>1 DEF MintStore
    <3>2. \E x : minted' = [minted EXCEPT ![target[t]] = Append(@, x)]
        BY <3>1, Zenon
    <3>3. IC!NextObjectId(target[t])
        BY <2>2, <3>2, AppendIsCall, Zenon
    <3>4. QED BY <2>2, <3>3 DEF IC!Next
  <2>3. CASE target[t] \notin States
    <3>1. minted \in [States -> Seq([id : Int, ok : BOOLEAN])]
        BY DEF OInv
    <3>2. QED BY <2>1, <2>3, <3>1 DEF MintStore
  <2>4. QED BY <2>2, <2>3
<1>3. CASE UNCHANGED vars
    BY <1>3 DEF vars
<1>4. QED BY <1>1, <1>2, <1>3 DEF Next

(* spec.md 4.5: in the builds the proofs are about, getNextObjectId       *)
(* implements the atomic counter of module IdCounter for every width of   *)
(* the layout, every valid set of sessions and up to Q * P calls per      *)
(* State: each call takes effect in one step, the n-th on session K       *)
(* returning (K << 48) | n or, once n does not fit, throwing.             *)
THEOREM RefinesIdCounterHolds ==
    ASSUME PowersOfTwo, ValidSessions, CallsBound, Atomic \/ OneThread
    PROVE  Spec => RefinesIdCounter
<1>1. Spec => []OInv
    BY OInvHolds
<1>2. Init => IC!Init
    BY DEF Init, IC!Init
<1>3. OInv /\ OInv' /\ [Next]_vars => [IC!Next]_minted
    BY StepIsCall
<1>4. QED
    BY <1>1, <1>2, <1>3, PTL DEF Spec, RefinesIdCounter, IC!Spec
=============================================================================
