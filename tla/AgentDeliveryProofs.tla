------------------------- MODULE AgentDeliveryProofs ------------------------
(***************************************************************************)
(* The agent for any number of payloads, jobs, tokens, rows and attempts:  *)
(* the cache's own guarantees, which any caller of its operations inherits *)
(* (CacheInv); the delivery loop around it (IInv, FInv); and that the loop *)
(* implements DeliveryContract: under the mapping StageOf every initial    *)
(* state is initial in the contract, and every step is a step of the       *)
(* contract or moves nothing.                                              *)
(***************************************************************************)
EXTENDS AgentDelivery, FiniteSetTheorems, FunctionTheorems, TLAPS

-----------------------------------------------------------------------------
(* The cache: types, the row bound, one fate per id.                       *)

CacheInv == CacheTypeOK /\ Bounded /\ OneFate /\ AttemptsLeft

\* The cache starts empty, within its invariant.
LEMMA CacheInitInv == CacheInit => CacheInv
  <1> SUFFICES ASSUME CacheInit PROVE CacheInv
    OBVIOUS
  <1>1. IsFiniteSet(pending) /\ Cardinality(pending) = 0
    BY FS_EmptySet DEF CacheInit
  <1>2. QED
    BY <1>1, CacheAssumption
    DEF CacheInit, CacheInv, CacheTypeOK, Bounded, OneFate, AttemptsLeft

\* What the eviction leaves and the insertion adds stay within the bound: the
\* arithmetic of EvictCount, also when the queue is empty or MaxRows is one.
LEMMA PushBounded ==
  ASSUME CacheTypeOK, Bounded, NEW old, IsOldest(old, EvictCount), NEW r
  PROVE  /\ IsFiniteSet((pending \ old) \cup {r})
         /\ Cardinality((pending \ old) \cup {r}) <= MaxRows
  <1> DEFINE n == Cardinality(pending)
  <1>1. IsFiniteSet(pending) /\ n \in Nat /\ old \subseteq pending
    BY FS_CardinalityType DEF CacheTypeOK, IsOldest
  <1>2. EvictCount \in Nat
    BY <1>1, CacheAssumption DEF EvictCount
  <1>3. Cardinality(old) = IF EvictCount < n THEN EvictCount ELSE n
    BY DEF IsOldest
  <1>4. pending \cap old = old
    BY <1>1
  <1>5. /\ IsFiniteSet(pending \ old)
        /\ Cardinality(pending \ old) = n - Cardinality(old)
    BY <1>1, <1>4, FS_Difference
  <1>6. IsFiniteSet((pending \ old) \cup {r})
    BY <1>5, FS_AddElement
  <1>7. Cardinality((pending \ old) \cup {r}) <= Cardinality(pending \ old) + 1
    <2>1. Cardinality(pending \ old) \in Nat
      BY <1>5, FS_CardinalityType
    <2>2. QED
      BY <2>1, <1>5, FS_AddElement
  <1>8. n - Cardinality(old) + 1 <= MaxRows
    BY <1>1, <1>2, <1>3, CacheAssumption DEF EvictCount, Bounded
  <1>9. Cardinality((pending \ old) \cup {r}) \in Nat
    BY <1>6, FS_CardinalityType
  <1>10. QED
    BY <1>1, <1>2, <1>3, <1>5, <1>6, <1>7, <1>8, <1>9, CacheAssumption

\* Push preserves the invariant.
LEMMA PushInv ==
  ASSUME CacheInv, NEW p \in Payload, NEW now \in Second, Push(p, now)
  PROVE  CacheInv'
  <1> DEFINE new == [id |-> lastId + 1, at |-> now, payload |-> p, attempts |-> 0, key |-> gcmKey]
  <1>1. PICK old \in SUBSET pending :
          /\ IsOldest(old, EvictCount)
          /\ pending' = (pending \ old) \cup {new}
    BY DEF Push
  <1>2. lastId' = lastId + 1 /\ dead' = dead /\ gcmKey' = gcmKey
    BY DEF Push
  <1>3. new \in Row
    BY DEF Row, CacheInv, CacheTypeOK
  <1>4. IsFiniteSet(pending') /\ Cardinality(pending') <= MaxRows
    BY <1>1, PushBounded DEF CacheInv
  <1>5. CacheTypeOK' /\ Bounded'
    BY <1>1, <1>2, <1>3, <1>4 DEF CacheInv, CacheTypeOK, Bounded
  <1>6. \A r \in pending' : r = new \/ r \in pending
    BY <1>1
  <1>7. OneFate'
    <2>1. \A r \in pending : r.id \in Nat /\ r.id <= lastId
      BY DEF CacheInv, CacheTypeOK, OneFate, Row
    <2>2. \A d \in dead : d.original \in Nat /\ d.original <= lastId
      BY DEF CacheInv, CacheTypeOK, OneFate, DeadRow
    <2>3. lastId \in Nat /\ new.id = lastId + 1
      BY DEF CacheInv, CacheTypeOK
    <2>4. QED
      BY <1>2, <1>6, <2>1, <2>2, <2>3 DEF CacheInv, OneFate
  <1>8. AttemptsLeft'
    <2>1. new.attempts = 0
      OBVIOUS
    <2>2. QED
      BY <1>6, <2>1, CacheAssumption DEF CacheInv, AttemptsLeft
  <1>9. QED
    BY <1>5, <1>7, <1>8 DEF CacheInv

\* Ack preserves the invariant, for an id in the queue or not.
LEMMA AckInv ==
  ASSUME CacheInv, NEW id, Ack(id)
  PROVE  CacheInv'
  <1>1. pending' \subseteq pending /\ dead' = dead /\ lastId' = lastId /\ gcmKey' = gcmKey
    BY DEF Ack
  <1>2. /\ IsFiniteSet(pending') /\ Cardinality(pending') <= Cardinality(pending)
        /\ Cardinality(pending') \in Nat /\ Cardinality(pending) \in Nat
    BY <1>1, FS_Subset, FS_CardinalityType DEF CacheInv, CacheTypeOK
  <1>3. Bounded'
    BY <1>2, CacheAssumption DEF CacheInv, Bounded
  <1>4. QED
    BY <1>1, <1>2, <1>3 DEF CacheInv, CacheTypeOK, OneFate, AttemptsLeft

\* Nack preserves the invariant: it rewrites one row or moves it to the dead
\* letters, and does nothing for an id that is no longer queued.
LEMMA NackInv ==
  ASSUME CacheInv, NEW id \in Nat, Nack(id)
  PROVE  CacheInv'
  <1>1. CASE \A r \in pending : r.id # id
    <2>1. pending' = pending /\ dead' = dead /\ lastId' = lastId /\ gcmKey' = gcmKey
      BY <1>1 DEF Nack
    <2>2. QED
      BY <2>1 DEF CacheInv, CacheTypeOK, Bounded, OneFate, AttemptsLeft
  <1>2. CASE \E r \in pending : r.id = id
    <2>1. PICK r \in pending : r.id = id
      BY <1>2
    <2>2. {q \in pending : q.id = id} = {r}
      BY <2>1 DEF CacheInv, OneFate
    <2> DEFINE more == [r EXCEPT !.attempts = @ + 1]
               letter == [original |-> r.id, payload |-> r.payload, key |-> r.key]
    <2>3. r \in Row /\ r.attempts < MaxTries /\ r.id <= lastId
      BY DEF CacheInv, CacheTypeOK, AttemptsLeft, OneFate
    <2>4. more \in Row /\ more.id = r.id /\ more.attempts = r.attempts + 1 /\ letter \in DeadRow
      BY <2>3 DEF Row, DeadRow
    <2>5. /\ IsFiniteSet(pending \ {r})
          /\ Cardinality(pending \ {r}) = Cardinality(pending) - 1
          /\ Cardinality(pending) \in Nat
      BY FS_RemoveElement, FS_CardinalityType DEF CacheInv, CacheTypeOK
    <2>6. CASE r.attempts + 1 >= MaxTries
      <3>1. pending' = pending \ {r} /\ dead' = dead \cup {letter}
            /\ lastId' = lastId /\ gcmKey' = gcmKey
        BY <2>2, <2>6 DEF Nack
      <3>2. CacheTypeOK' /\ Bounded'
        BY <2>4, <2>5, <3>1, CacheAssumption DEF CacheInv, CacheTypeOK, Bounded
      <3>3. OneFate'
        BY <2>1, <2>3, <3>1 DEF CacheInv, OneFate
      <3>4. AttemptsLeft'
        BY <3>1 DEF CacheInv, AttemptsLeft
      <3>5. QED
        BY <3>2, <3>3, <3>4 DEF CacheInv
    <2>7. CASE ~(r.attempts + 1 >= MaxTries)
      <3>1. pending' = (pending \ {r}) \cup {more} /\ dead' = dead
            /\ lastId' = lastId /\ gcmKey' = gcmKey
        BY <2>2, <2>7 DEF Nack
      <3>2. /\ IsFiniteSet((pending \ {r}) \cup {more})
            /\ Cardinality((pending \ {r}) \cup {more}) <= Cardinality(pending)
        <4>1. /\ IsFiniteSet((pending \ {r}) \cup {more})
              /\ \/ Cardinality((pending \ {r}) \cup {more}) = Cardinality(pending \ {r})
                 \/ Cardinality((pending \ {r}) \cup {more}) = Cardinality(pending \ {r}) + 1
          BY <2>5, FS_AddElement
        <4>2. QED
          BY <4>1, <2>5
      <3>3. Cardinality(pending') \in Nat
        BY <3>1, <3>2, FS_CardinalityType
      <3>4. CacheTypeOK' /\ Bounded'
        BY <2>4, <2>5, <3>1, <3>2, <3>3, CacheAssumption DEF CacheInv, CacheTypeOK, Bounded
      <3>5. OneFate'
        <4>1. \A q \in pending' : \E s \in pending : s.id = q.id /\ (q = s \/ (s = r /\ q = more))
          BY <2>4, <3>1
        <4>2. \A q, s \in pending' : q.id = s.id => q = s
          BY <2>1, <2>2, <2>4, <3>1 DEF CacheInv, OneFate
        <4>3. QED
          BY <3>1, <4>1, <4>2 DEF CacheInv, OneFate
      <3>6. AttemptsLeft'
        <4>1. more.attempts < MaxTries
          BY <2>3, <2>4, <2>7, CacheAssumption DEF Row
        <4>2. QED
          BY <3>1, <4>1 DEF CacheInv, AttemptsLeft
      <3>7. QED
        BY <3>4, <3>5, <3>6 DEF CacheInv
    <2>8. QED
      BY <2>6, <2>7
  <1>3. QED
    BY <1>1, <1>2

\* A restart with any key leaves the tables alone.
LEMMA ReopenInv ==
  ASSUME CacheInv, NEW k \in Key, Reopen(k)
  PROVE  CacheInv'
  BY DEF Reopen, CacheInv, CacheTypeOK, Bounded, OneFate, AttemptsLeft

\* Every step of the cache preserves the invariant.
LEMMA CacheNextInv == CacheInv /\ [CacheNext]_cacheVars => CacheInv'
  <1> SUFFICES ASSUME CacheInv, [CacheNext]_cacheVars PROVE CacheInv'
    OBVIOUS
  <1>1. ASSUME NEW p \in Payload, NEW now \in Second, Push(p, now) PROVE CacheInv'
    BY <1>1, PushInv
  <1>2. ASSUME NEW id \in 1..lastId, Ack(id) PROVE CacheInv'
    BY <1>2, AckInv
  <1>3. ASSUME NEW id \in 1..lastId, Nack(id) PROVE CacheInv'
    <2>1. id \in Nat
      BY DEF CacheInv, CacheTypeOK
    <2>2. QED
      BY <1>3, <2>1, NackInv
  <1>4. ASSUME NEW k \in Key, Reopen(k) PROVE CacheInv'
    BY <1>4, ReopenInv
  <1>5. CASE UNCHANGED cacheVars
    BY <1>5 DEF cacheVars, CacheInv, CacheTypeOK, Bounded, OneFate, AttemptsLeft
  <1>6. QED
    BY <1>1, <1>2, <1>3, <1>4, <1>5 DEF CacheNext

\* The cache's types, its bound and the uniqueness of ids hold in every state,
\* whoever calls its operations and in whatever order.
THEOREM CacheCorrect == CacheSpec => [](CacheTypeOK /\ Bounded /\ OneFate /\ AttemptsLeft)
  <1>1. CacheSpec => []CacheInv
    BY CacheInitInv, CacheNextInv, PTL DEF CacheSpec
  <1>2. CacheInv => CacheTypeOK /\ Bounded /\ OneFate /\ AttemptsLeft
    BY DEF CacheInv
  <1>3. QED
    BY <1>1, <1>2, PTL

-----------------------------------------------------------------------------
(* The delivery loop's invariant.                                          *)

IInv ==
  /\ CacheInv /\ AgentTypeOK
  /\ SinglePlace /\ Accounted
  /\ BatchKnown /\ AckAnswered

\* The queue's order is strict: a batch has one next row at most.
LEMMA OneNextRow ==
  ASSUME AgentTypeOK, NEW f \in FlushJob, NEW r, NEW s, IsNextRow(f, r), IsNextRow(f, s)
  PROVE  r = s
  <1>1. r \in Row /\ s \in Row
    BY DEF AgentTypeOK, IsNextRow
  <1>2. ~(Before(r, s) /\ Before(s, r))
    <2>1. r.at \in Nat /\ s.at \in Nat /\ r.id \in Nat /\ s.id \in Nat
      BY <1>1, CacheAssumption DEF Row
    <2>2. QED
      BY <2>1 DEF Before
  <1>3. QED
    BY <1>2 DEF IsNextRow

\* The agent starts idle, with an empty cache.
LEMMA InitIInv == Init => IInv
  <1> SUFFICES ASSUME Init PROVE IInv
    OBVIOUS
  <1>1. CacheInv
    BY CacheInitInv DEF Init
  <1>2. AgentTypeOK
    <2>1. failures \in [Payload -> 0..MaxTries]
      BY CacheAssumption DEF Init
    <2>2. /\ scanPc \in [ScanJob -> ScanPc] /\ held \in [ScanJob -> Payload \cup {NoPayload}]
          /\ flushPc \in [FlushJob -> FlushPc] /\ batch \in [FlushJob -> SUBSET Row]
      BY DEF Init, ScanPc, FlushPc
    <2>3. QED
      BY <1>1, <2>1, <2>2 DEF Init, CacheInit, CacheInv, AgentTypeOK, Proc
  <1>3. SinglePlace /\ Accounted
    BY DEF Init, CacheInit, SinglePlace, Accounted, Held, Queued, Parked
  <1>4. BatchKnown /\ AckAnswered
    BY DEF Init, CacheInit, BatchKnown, AckAnswered
  <1>5. QED
    BY <1>1, <1>2, <1>3, <1>4 DEF IInv

\* Steps that leave the cache as it is leave its invariant.
LEMMA CacheUnchanged == CacheInv /\ UNCHANGED cacheVars => CacheInv'
  BY DEF CacheInv, cacheVars, CacheTypeOK, Bounded, OneFate, AttemptsLeft

-----------------------------------------------------------------------------
(* The scan jobs' steps.                                                   *)

\* A new payload is in no other place.
LEMMA CollectIInv ==
  ASSUME IInv, NEW j \in ScanJob, Collect(j)
  PROVE  IInv'
  <1>1. CacheInv'
    BY CacheUnchanged DEF IInv, Collect
  <1>2. PICK p \in Payload \ collected, pc \in {"deliver", "cache"} :
          /\ collected' = collected \cup {p}
          /\ held' = [held EXCEPT ![j] = p]
          /\ scanPc' = [scanPc EXCEPT ![j] = pc]
    BY DEF Collect
  <1>3. AgentTypeOK'
    BY <1>1, <1>2, AgentAssumption
    DEF IInv, AgentTypeOK, CacheInv, Collect, ScanPc, cacheVars, tokenVars, answerVars
  <1>4. SinglePlace'
    BY <1>2 DEF IInv, AgentTypeOK, SinglePlace, Accounted, Collect, cacheVars, Held, Queued, Parked
  <1>5. Accounted'
    BY <1>2 DEF IInv, AgentTypeOK, Accounted, Collect, cacheVars
  <1>6. BatchKnown' /\ AckAnswered'
    BY <1>2 DEF IInv, BatchKnown, AckAnswered, Collect, cacheVars, answerVars, answered, IsNextRow
  <1>7. QED
    BY <1>1, <1>3, <1>4, <1>5, <1>6 DEF IInv

\* A job's end lets its payload go, and nothing else moves.
LEMMA EndScanPlaces ==
  ASSUME IInv, NEW j \in ScanJob, scanPc[j] # "idle", EndScan(j), UNCHANGED <<pending, dead, collected>>
  PROVE  SinglePlace' /\ Accounted'
  <1>1. \A i \in ScanJob : held'[i] # NoPayload => held'[i] = held[i]
    BY DEF EndScan, IInv, AgentTypeOK
  <1>2. Accounted'
    BY <1>1 DEF IInv, Accounted
  <1>3. SinglePlace'
    BY <1>1, AgentAssumption DEF IInv, SinglePlace, Held, Queued, Parked
  <1>4. QED
    BY <1>2, <1>3

LEMMA DeliverIInv ==
  ASSUME IInv, NEW j \in ScanJob, Deliver(j)
  PROVE  IInv'
  <1>1. CacheInv'
    BY CacheUnchanged DEF IInv, Deliver
  <1>2. PICK o \in Outcome :
          /\ Exchange(held[j], o)
          /\ IF o \in {"failed", "lost"}
             THEN scanPc' = [scanPc EXCEPT ![j] = "cache"] /\ UNCHANGED <<held, flushPc, batch>>
             ELSE EndScan(j)
    BY DEF Deliver
  <1>3. held[j] \in collected
    BY DEF IInv, AgentTypeOK, Accounted, Deliver
  <1>4. UNCHANGED <<cacheVars, proc, tokenVars, collected, failures, flushPc, batch>>
    BY <1>2 DEF Deliver, EndScan
  <1>5. SinglePlace' /\ Accounted'
    <2>1. CASE EndScan(j)
      BY <1>4, <2>1, EndScanPlaces DEF cacheVars, Deliver
    <2>2. CASE UNCHANGED held
      BY <1>4, <2>2 DEF IInv, SinglePlace, Accounted, Held, Queued, Parked, cacheVars
    <2>3. QED
      BY <1>2, <2>1, <2>2
  <1>6. answered \subseteq answered' /\ settled' \subseteq collected /\ denied' \subseteq collected
    BY <1>2, <1>3 DEF Exchange, answered, IInv, AgentTypeOK
  <1>7. AgentTypeOK'
    <2>1. CASE o \in {"failed", "lost"}
      BY <1>1, <1>2, <1>4, <1>6, <2>1
      DEF IInv, AgentTypeOK, CacheInv, Deliver, Running, ScanPc, cacheVars, tokenVars
    <2>2. CASE o \notin {"failed", "lost"}
      BY <1>1, <1>2, <1>4, <1>6, <2>2
      DEF IInv, AgentTypeOK, CacheInv, EndScan, ScanPc, cacheVars, tokenVars
    <2>3. QED
      BY <2>1, <2>2
  <1>8. BatchKnown' /\ AckAnswered'
    BY <1>4, <1>6 DEF IInv, BatchKnown, AckAnswered, cacheVars, IsNextRow
  <1>9. QED
    BY <1>1, <1>5, <1>7, <1>8 DEF IInv

\* The payload goes from the job into the one new row; rows that made room are
\* gone for good, and no batch takes the new row for one of its own.
LEMMA StorePayloadIInv ==
  ASSUME IInv, NEW j \in ScanJob, StorePayload(j)
  PROVE  IInv'
  <1>1. PICK now \in Second : Push(held[j], now)
    BY DEF StorePayload
  <1>2. held[j] \in Payload /\ held[j] \in collected
    BY DEF StorePayload, IInv, AgentTypeOK, Accounted
  <1>3. CacheInv'
    BY <1>1, <1>2, PushInv DEF IInv
  <1> DEFINE new == [id |-> lastId + 1, at |-> now, payload |-> held[j], attempts |-> 0, key |-> gcmKey]
  <1>4. /\ pending' \subseteq pending \cup {new}
        /\ lastId' = lastId + 1 /\ dead' = dead /\ gcmKey' = gcmKey
    BY <1>1 DEF Push
  <1>5. EndScan(j) /\ UNCHANGED <<proc, tokenVars, collected, answerVars, failures>>
    BY DEF StorePayload
  <1>6. /\ held' = [held EXCEPT ![j] = NoPayload] /\ scanPc' = [scanPc EXCEPT ![j] = "idle"]
        /\ flushPc' = flushPc /\ batch' = batch
    BY <1>5 DEF EndScan
  <1>7. AgentTypeOK'
    BY <1>3, <1>4, <1>5, <1>6 DEF IInv, AgentTypeOK, CacheInv, ScanPc, tokenVars, answerVars
  <1>8. \A i \in ScanJob : held'[i] # NoPayload => i # j /\ held'[i] = held[i]
    BY <1>6 DEF IInv, AgentTypeOK
  <1>9. SinglePlace'
    <2>1. \A r \in pending' : r = new \/ (r \in pending /\ r.payload # held[j])
      BY <1>2, <1>4 DEF IInv, SinglePlace, Held, Queued
    <2>2. ~Parked(held[j]) /\ \A i \in ScanJob : held'[i] # held[j]
      <3>1. ~Parked(held[j])
        BY <1>2 DEF IInv, SinglePlace, Held
      <3>2. \A i \in ScanJob : held'[i] # held[j]
        BY <1>2, <1>8, AgentAssumption DEF IInv, SinglePlace
      <3>3. QED
        BY <3>1, <3>2
    <2>3. \A r, q \in pending' : r.payload = q.payload => r = q
      BY <2>1 DEF IInv, SinglePlace
    <2>4. \A i, k \in ScanJob : held'[i] = held'[k] /\ held'[i] # NoPayload => i = k
      BY <1>8 DEF IInv, SinglePlace
    <2>5. \A p \in Payload : Held(p)' => Held(p) /\ p # held[j]
      BY <1>8, AgentAssumption, <2>2 DEF Held
    <2>6. \A p \in Payload : (Queued(p)' => Queued(p) \/ p = held[j]) /\ Parked(p)' = Parked(p)
      BY <1>4, <2>1 DEF Queued, Parked
    <2>7. QED
      BY <1>4, <2>2, <2>3, <2>4, <2>5, <2>6 DEF IInv, SinglePlace
  <1>10. Accounted'
    BY <1>2, <1>4, <1>5, <1>8 DEF IInv, Accounted
  <1>11. BatchKnown'
    <2>1. \A f \in FlushJob : \A r \in batch[f] : r.id \in Nat /\ r.id <= lastId
      BY DEF IInv, AgentTypeOK, BatchKnown, Row
    <2>2. lastId \in Nat
      BY DEF IInv, AgentTypeOK, CacheTypeOK
    <2>3. QED
      BY <1>4, <1>5, <1>6, <2>1, <2>2 DEF IInv, BatchKnown
  <1>12. AckAnswered'
    BY <1>5, <1>6 DEF IInv, AckAnswered, answerVars, answered, IsNextRow
  <1>13. QED
    BY <1>3, <1>7, <1>9, <1>10, <1>11, <1>12 DEF IInv

LEMMA ScanTimeoutIInv ==
  ASSUME IInv, NEW j \in ScanJob, ScanTimeout(j)
  PROVE  IInv'
  <1>1. CacheInv'
    BY CacheUnchanged DEF IInv, ScanTimeout
  <1>2. AgentTypeOK'
    BY <1>1 DEF IInv, CacheInv, AgentTypeOK, ScanTimeout, Running, ScanPc, cacheVars, tokenVars, answerVars
  <1>3. SinglePlace' /\ Accounted'
    BY DEF IInv, SinglePlace, Accounted, ScanTimeout, cacheVars, Held, Queued, Parked
  <1>4. BatchKnown' /\ AckAnswered'
    BY DEF IInv, BatchKnown, AckAnswered, ScanTimeout, cacheVars, answerVars, answered, IsNextRow
  <1>5. QED
    BY <1>1, <1>2, <1>3, <1>4 DEF IInv

LEMMA StoreFailsIInv ==
  ASSUME IInv, NEW j \in ScanJob, StoreFails(j)
  PROVE  IInv'
  <1>1. CacheInv'
    BY CacheUnchanged DEF IInv, StoreFails
  <1>2. EndScan(j) /\ scanPc[j] # "idle"
        /\ UNCHANGED <<cacheVars, proc, tokenVars, collected, answerVars, failures>>
    BY DEF StoreFails
  <1>3. AgentTypeOK'
    BY <1>1, <1>2 DEF IInv, CacheInv, AgentTypeOK, EndScan, ScanPc, cacheVars, tokenVars, answerVars
  <1>4. SinglePlace' /\ Accounted'
    BY <1>2, EndScanPlaces DEF cacheVars
  <1>5. BatchKnown' /\ AckAnswered'
    BY <1>2 DEF IInv, BatchKnown, AckAnswered, EndScan, cacheVars, answerVars, answered, IsNextRow
  <1>6. QED
    BY <1>1, <1>3, <1>4, <1>5 DEF IInv

-----------------------------------------------------------------------------
(* The flush jobs' steps.                                                  *)

\* A fresh batch is made of readable queued rows.
LEMMA FlushStartIInv ==
  ASSUME IInv, NEW f \in FlushJob, FlushStart(f)
  PROVE  IInv'
  <1>1. CacheInv'
    BY CacheUnchanged DEF IInv, FlushStart
  <1>2. PICK rows \in SUBSET pending :
          /\ rows # {} /\ Peek(rows)
          /\ batch' = [batch EXCEPT ![f] = rows]
    BY DEF FlushStart
  <1>3. \A r \in rows : r \in pending /\ r.key = gcmKey
    BY <1>2 DEF Peek, Readable
  <1>4. flushPc' = [flushPc EXCEPT ![f] = "post"] /\ StoreOpen
        /\ UNCHANGED <<cacheVars, proc, tokenVars, scanPc, held, collected, answerVars, failures>>
    BY DEF FlushStart
  <1>5. AgentTypeOK'
    <2>1. rows \subseteq Row
      BY DEF IInv, AgentTypeOK, CacheTypeOK
    <2>2. QED
      BY <1>1, <1>2, <1>4, <2>1
      DEF IInv, CacheInv, AgentTypeOK, FlushPc, StoreOpen, cacheVars, tokenVars, answerVars
  <1>6. SinglePlace' /\ Accounted'
    BY <1>4 DEF IInv, SinglePlace, Accounted, cacheVars, Held, Queued, Parked
  <1>7. BatchKnown'
    <2>1. \A r \in rows : /\ r.id <= lastId /\ r.payload \in collected
                          /\ \A q \in pending : q.id = r.id => q = r
      BY <1>3 DEF IInv, CacheInv, OneFate, Accounted
    <2>2. QED
      BY <1>2, <1>3, <1>4, <2>1 DEF IInv, AgentTypeOK, BatchKnown, cacheVars
  <1>8. AckAnswered'
    BY <1>2, <1>4 DEF IInv, AgentTypeOK, AckAnswered, answerVars, answered, IsNextRow
  <1>9. QED
    BY <1>1, <1>5, <1>6, <1>7, <1>8 DEF IInv

\* The job goes to "ack" only with an answer for its one next row.
LEMMA FlushPostIInv ==
  ASSUME IInv, NEW f \in FlushJob, FlushPost(f)
  PROVE  IInv'
  <1>1. CacheInv'
    BY CacheUnchanged DEF IInv, FlushPost
  <1>2. PICK r \in batch[f], o \in Outcome :
          /\ IsNextRow(f, r) /\ Exchange(r.payload, o)
          /\ IF o \in {"failed", "lost"}
             THEN /\ flushPc' = [flushPc EXCEPT ![f] = "nack"]
                  /\ failures' = [failures EXCEPT ![r.payload] = IF @ < MaxTries THEN @ + 1 ELSE @]
             ELSE /\ flushPc' = [flushPc EXCEPT ![f] = "ack"]
                  /\ UNCHANGED failures
    BY DEF FlushPost
  <1>3. Running /\ flushPc[f] = "post"
        /\ UNCHANGED <<cacheVars, proc, tokenVars, scanPc, held, batch, collected>>
    BY DEF FlushPost
  <1>4. r.payload \in collected /\ r.payload \in Payload
    BY DEF IInv, AgentTypeOK, BatchKnown, Row
  <1>5. answered \subseteq answered' /\ settled' \subseteq collected /\ denied' \subseteq collected
    BY <1>2, <1>4 DEF Exchange, answered, IInv, AgentTypeOK
  <1>6. failures' \in [Payload -> 0..MaxTries]
    BY <1>2, <1>4, CacheAssumption DEF IInv, AgentTypeOK
  <1>7. flushPc' \in [FlushJob -> FlushPc] /\ \A g \in FlushJob : flushPc'[g] = "idle" <=> flushPc[g] = "idle"
    BY <1>2, <1>3 DEF IInv, AgentTypeOK, FlushPc
  <1>8. AgentTypeOK'
    BY <1>1, <1>3, <1>5, <1>6, <1>7
    DEF IInv, CacheInv, AgentTypeOK, Running, cacheVars, tokenVars
  <1>9. SinglePlace' /\ Accounted' /\ BatchKnown'
    BY <1>3 DEF IInv, SinglePlace, Accounted, BatchKnown, cacheVars, Held, Queued, Parked
  <1>10. AckAnswered'
    <2> SUFFICES ASSUME NEW g \in FlushJob, flushPc'[g] = "ack", NEW s \in batch[g], IsNextRow(g, s)
                 PROVE  s.payload \in answered'
      BY <1>3 DEF AckAnswered, IsNextRow
    <2>1. CASE g # f
      BY <1>2, <1>5, <2>1 DEF IInv, AgentTypeOK, AckAnswered
    <2>2. CASE g = f
      <3>1. s = r
        BY <1>2, <2>2, OneNextRow DEF IInv
      <3>2. o \in {"settled", "denied"}
        BY <1>2, <2>2 DEF IInv, AgentTypeOK, Outcome
      <3>3. QED
        BY <1>2, <3>1, <3>2 DEF Exchange, answered
    <2>3. QED
      BY <2>1, <2>2
  <1>11. QED
    BY <1>1, <1>8, <1>9, <1>10 DEF IInv

\* Moving on to the next row: the batch shrinks by the row just dealt with.
LEMMA NextRowKeeps ==
  ASSUME IInv, NEW f \in FlushJob, NEW r \in batch[f], NextRow(f, r),
         flushPc[f] \in {"ack", "nack"}
  PROVE  /\ batch' \in [FlushJob -> SUBSET Row] /\ flushPc' \in [FlushJob -> FlushPc]
         /\ \A g \in FlushJob : /\ batch'[g] \subseteq batch[g]
                                /\ flushPc'[g] = "idle" <=> batch'[g] = {}
                                /\ flushPc'[g] = "ack" => flushPc[g] = "ack" /\ batch'[g] = batch[g]
                                /\ proc # "down" \/ flushPc'[g] = "idle"
         /\ UNCHANGED <<scanPc, held>>
  <1>1. batch[f] \subseteq Row /\ batch[f] \ {r} \subseteq Row
    BY DEF IInv, AgentTypeOK
  <1>2. /\ batch' = [batch EXCEPT ![f] = @ \ {r}]
        /\ flushPc' = [flushPc EXCEPT ![f] = IF batch[f] = {r} THEN "idle" ELSE "post"]
        /\ UNCHANGED <<scanPc, held>>
    BY DEF NextRow
  <1>3. batch'[f] = batch[f] \ {r} /\ flushPc'[f] = (IF batch[f] = {r} THEN "idle" ELSE "post")
    BY <1>2 DEF IInv, AgentTypeOK
  <1>4. flushPc'[f] = "idle" <=> batch'[f] = {}
    BY <1>3
  <1>5. \A g \in FlushJob \ {f} : batch'[g] = batch[g] /\ flushPc'[g] = flushPc[g]
    BY <1>2 DEF IInv, AgentTypeOK
  <1>6. batch' \in [FlushJob -> SUBSET Row] /\ flushPc' \in [FlushJob -> FlushPc]
    BY <1>1, <1>2 DEF IInv, AgentTypeOK, FlushPc
  <1>7. proc # "down"
    BY DEF IInv, AgentTypeOK
  <1>8. \A g \in FlushJob : flushPc[g] = "idle" <=> batch[g] = {}
    BY DEF IInv, AgentTypeOK
  <1>9. QED
    BY <1>2, <1>3, <1>4, <1>5, <1>6, <1>7, <1>8

\* Ack removes at most the job's own payload, which has its answer.
LEMMA FlushAckIInv ==
  ASSUME IInv, NEW f \in FlushJob, FlushAck(f)
  PROVE  IInv'
  <1>1. PICK r \in batch[f] :
          /\ IsNextRow(f, r)
          /\ IF StoreOpen THEN Ack(r.id) ELSE UNCHANGED cacheVars
          /\ NextRow(f, r)
    BY DEF FlushAck
  <1>2. flushPc[f] = "ack" /\ UNCHANGED <<proc, tokenVars, collected, answerVars, failures>>
    BY DEF FlushAck
  <1>3. CacheInv'
    BY <1>1, AckInv, CacheUnchanged DEF IInv
  <1>4. pending' \subseteq pending /\ dead' = dead /\ lastId' = lastId /\ gcmKey' = gcmKey
    BY <1>1 DEF Ack, cacheVars
  <1>5. /\ batch' \in [FlushJob -> SUBSET Row] /\ flushPc' \in [FlushJob -> FlushPc]
        /\ \A g \in FlushJob : /\ batch'[g] \subseteq batch[g]
                               /\ flushPc'[g] = "idle" <=> batch'[g] = {}
                               /\ flushPc'[g] = "ack" => flushPc[g] = "ack" /\ batch'[g] = batch[g]
                               /\ proc # "down" \/ flushPc'[g] = "idle"
        /\ UNCHANGED <<scanPc, held>>
    BY <1>1, <1>2, NextRowKeeps
  <1>6. AgentTypeOK'
    BY <1>2, <1>3, <1>4, <1>5 DEF IInv, CacheInv, AgentTypeOK, tokenVars, answerVars
  <1>7. SinglePlace'
    BY <1>4, <1>5 DEF IInv, SinglePlace, Held, Queued, Parked
  <1>8. Accounted' /\ BatchKnown'
    BY <1>2, <1>4, <1>5 DEF IInv, Accounted, BatchKnown
  <1>9. AckAnswered'
    BY <1>2, <1>5 DEF IInv, AckAnswered, answerVars, answered, IsNextRow
  <1>10. QED
    BY <1>3, <1>6, <1>7, <1>8, <1>9 DEF IInv

\* What Nack does to the tables, seen from outside: a row keeps its id, payload
\* and key, and moves to the dead letters as a whole.
LEMMA NackMoves ==
  ASSUME CacheInv, NEW id \in Nat, Nack(id)
  PROVE  /\ lastId' = lastId /\ gcmKey' = gcmKey
         /\ \A q \in pending' : \E s \in pending :
              s.id = q.id /\ s.payload = q.payload /\ s.key = q.key
         /\ \A q \in pending : q.id # id => q \in pending'
         /\ \/ dead' = dead /\ \A s \in pending : \E q \in pending' : q.payload = s.payload
            \/ \E s \in pending :
                 /\ s.id = id
                 /\ dead' = dead \cup {[original |-> s.id, payload |-> s.payload, key |-> s.key]}
                 /\ pending' = pending \ {s}
  <1>0. lastId' = lastId /\ gcmKey' = gcmKey
    BY DEF Nack
  <1>1. CASE \A r \in pending : r.id # id
    <2>1. pending' = pending /\ dead' = dead
      BY <1>1 DEF Nack
    <2>2. QED
      BY <1>0, <2>1
  <1>2. CASE \E r \in pending : r.id = id
    <2>1. PICK r \in pending : r.id = id
      BY <1>2
    <2>2. {q \in pending : q.id = id} = {r} /\ r \in Row
      BY <2>1 DEF CacheInv, OneFate, CacheTypeOK
    <2> DEFINE more == [r EXCEPT !.attempts = @ + 1]
    <2>3. more.id = r.id /\ more.payload = r.payload /\ more.key = r.key
      BY <2>2 DEF Row
    <2>4. CASE r.attempts + 1 >= MaxTries
      <3>1. /\ pending' = pending \ {r}
            /\ dead' = dead \cup {[original |-> r.id, payload |-> r.payload, key |-> r.key]}
        BY <2>2, <2>4 DEF Nack
      <3>2. QED
        BY <1>0, <2>1, <2>2, <3>1
    <2>5. CASE ~(r.attempts + 1 >= MaxTries)
      <3>1. pending' = (pending \ {r}) \cup {more} /\ dead' = dead
        BY <2>2, <2>5 DEF Nack
      <3>2. QED
        BY <1>0, <2>1, <2>2, <2>3, <3>1
    <2>6. QED
      BY <2>4, <2>5
  <1>3. QED
    BY <1>1, <1>2

LEMMA FlushNackIInv ==
  ASSUME IInv, NEW f \in FlushJob, FlushNack(f)
  PROVE  IInv'
  <1>1. PICK r \in batch[f] :
          /\ IF StoreOpen THEN Nack(r.id) ELSE UNCHANGED cacheVars
          /\ NextRow(f, r)
    BY DEF FlushNack
  <1>2. flushPc[f] = "nack" /\ UNCHANGED <<proc, tokenVars, collected, answerVars, failures>>
    BY DEF FlushNack
  <1>3. r.id \in Nat
    BY DEF IInv, AgentTypeOK, Row
  <1>4. CacheInv'
    BY <1>1, <1>3, NackInv, CacheUnchanged DEF IInv
  <1>5. /\ batch' \in [FlushJob -> SUBSET Row] /\ flushPc' \in [FlushJob -> FlushPc]
        /\ \A g \in FlushJob : /\ batch'[g] \subseteq batch[g]
                               /\ flushPc'[g] = "idle" <=> batch'[g] = {}
                               /\ flushPc'[g] = "ack" => flushPc[g] = "ack" /\ batch'[g] = batch[g]
                               /\ proc # "down" \/ flushPc'[g] = "idle"
        /\ UNCHANGED <<scanPc, held>>
    BY <1>1, <1>2, NextRowKeeps
  <1>6. AckAnswered'
    BY <1>2, <1>5 DEF IInv, AckAnswered, answerVars, answered, IsNextRow
  <1>7. CASE UNCHANGED cacheVars
    <2>1. AgentTypeOK'
      BY <1>2, <1>4, <1>5, <1>7 DEF IInv, CacheInv, AgentTypeOK, tokenVars, answerVars, cacheVars
    <2>2. SinglePlace' /\ Accounted' /\ BatchKnown'
      BY <1>2, <1>5, <1>7
      DEF IInv, SinglePlace, Accounted, BatchKnown, cacheVars, Held, Queued, Parked
    <2>3. QED
      BY <1>4, <1>6, <2>1, <2>2 DEF IInv
  <1>8. CASE Nack(r.id)
    <2>1. /\ lastId' = lastId /\ gcmKey' = gcmKey
          /\ \A q \in pending' : \E s \in pending :
               s.id = q.id /\ s.payload = q.payload /\ s.key = q.key
          /\ \/ dead' = dead
             \/ \E s \in pending :
                  /\ dead' = dead \cup {[original |-> s.id, payload |-> s.payload, key |-> s.key]}
                  /\ pending' = pending \ {s}
      BY <1>3, <1>8, NackMoves DEF IInv
    <2>2. AgentTypeOK'
      BY <1>2, <1>4, <1>5, <2>1 DEF IInv, CacheInv, AgentTypeOK, tokenVars, answerVars
    <2>3. BatchKnown'
      BY <1>2, <1>5, <2>1 DEF IInv, BatchKnown
    <2>4. Accounted'
      <3>1. \A d \in dead' : d \in dead \/ \E s \in pending : d.payload = s.payload
        BY <2>1
      <3>2. QED
        BY <1>2, <1>5, <2>1, <3>1 DEF IInv, Accounted
    <2>5. SinglePlace'
      <3>1. \A p \in Payload : (Queued(p)' => Queued(p)) /\ Held(p)' = Held(p)
        BY <1>5, <2>1 DEF Queued, Held
      <3>2. \A q, s \in pending' : q.payload = s.payload => q = s
        <4> SUFFICES ASSUME NEW q \in pending', NEW s \in pending', q.payload = s.payload
                     PROVE  q = s
          OBVIOUS
        <4>1. \E a, b \in pending : a.id = q.id /\ b.id = s.id /\ a.payload = q.payload /\ b.payload = s.payload
          BY <2>1
        <4>2. q.id = s.id
          BY <4>1 DEF IInv, SinglePlace
        <4>3. QED
          BY <4>2, <1>4 DEF CacheInv, OneFate
      <3>3. CASE dead' = dead
        BY <1>5, <3>1, <3>2, <3>3 DEF IInv, SinglePlace, Parked
      <3>4. ASSUME NEW s \in pending,
                   dead' = dead \cup {[original |-> s.id, payload |-> s.payload, key |-> s.key]},
                   pending' = pending \ {s}
            PROVE  SinglePlace'
        <4>1. s.payload \in Payload /\ Queued(s.payload)
          BY DEF IInv, AgentTypeOK, CacheTypeOK, Row, Queued
        <4>2. ~Parked(s.payload) /\ ~Held(s.payload)
          BY <4>1 DEF IInv, SinglePlace
        <4>3. ~(Queued(s.payload)')
          BY <3>4 DEF IInv, SinglePlace, Queued
        <4>4. \A p \in Payload : Parked(p)' => Parked(p) \/ p = s.payload
          BY <3>4 DEF Parked
        <4>5. \A d, e \in dead' : d.payload = e.payload => d = e
          BY <3>4, <4>2 DEF IInv, SinglePlace, Parked
        <4>6. QED
          BY <1>5, <3>1, <3>2, <4>2, <4>3, <4>4, <4>5 DEF IInv, SinglePlace
      <3>5. QED
        BY <2>1, <3>3, <3>4
    <2>6. QED
      BY <1>4, <1>6, <2>2, <2>3, <2>4, <2>5 DEF IInv
  <1>9. QED
    BY <1>1, <1>7, <1>8

LEMMA FlushTimeoutIInv ==
  ASSUME IInv, NEW f \in FlushJob, FlushTimeout(f)
  PROVE  IInv'
  <1>1. CacheInv'
    BY CacheUnchanged DEF IInv, FlushTimeout
  <1>2. AgentTypeOK'
    BY <1>1 DEF IInv, CacheInv, AgentTypeOK, FlushTimeout, FlushPc, cacheVars, tokenVars, answerVars
  <1>3. SinglePlace' /\ Accounted'
    BY DEF IInv, SinglePlace, Accounted, FlushTimeout, cacheVars, Held, Queued, Parked
  <1>4. BatchKnown' /\ AckAnswered'
    BY DEF IInv, AgentTypeOK, BatchKnown, AckAnswered, FlushTimeout, cacheVars, answerVars, answered, IsNextRow
  <1>5. QED
    BY <1>1, <1>2, <1>3, <1>4 DEF IInv

-----------------------------------------------------------------------------
(* The process' steps.                                                     *)

LEMMA RefreshIInv == IInv /\ Refresh => IInv'
  <1> SUFFICES ASSUME IInv, Refresh PROVE IInv'
    OBVIOUS
  <1>1. CacheInv'
    BY CacheUnchanged DEF IInv, Refresh
  <1>2. AgentTypeOK'
    BY <1>1 DEF IInv, CacheInv, AgentTypeOK, Refresh, cacheVars, jobVars, answerVars
  <1>3. SinglePlace' /\ Accounted'
    BY DEF IInv, SinglePlace, Accounted, Refresh, cacheVars, jobVars, Held, Queued, Parked
  <1>4. BatchKnown' /\ AckAnswered'
    BY DEF IInv, BatchKnown, AckAnswered, Refresh, cacheVars, jobVars, answerVars, answered, IsNextRow
  <1>5. QED
    BY <1>1, <1>2, <1>3, <1>4 DEF IInv

\* Time, the signal and the closing of the store touch no payload.
LEMMA QuietIInv == IInv /\ (Expire \/ Stop \/ CloseStore) => IInv'
  <1> SUFFICES ASSUME IInv, Expire \/ Stop \/ CloseStore PROVE IInv'
    OBVIOUS
  <1>1. /\ UNCHANGED <<cacheVars, diskToken, issued, jobVars, collected, answerVars, failures>>
        /\ proc' \in Proc /\ (proc' = "down" => proc = "down") /\ fresh' \in BOOLEAN
    BY DEF IInv, AgentTypeOK, Expire, Stop, CloseStore, Proc, tokenVars
  <1>2. CacheInv'
    BY <1>1, CacheUnchanged DEF IInv
  <1>3. AgentTypeOK'
    BY <1>1, <1>2 DEF IInv, CacheInv, AgentTypeOK, cacheVars, jobVars, answerVars
  <1>4. SinglePlace' /\ Accounted'
    BY <1>1 DEF IInv, SinglePlace, Accounted, cacheVars, jobVars, Held, Queued, Parked
  <1>5. BatchKnown' /\ AckAnswered'
    BY <1>1 DEF IInv, BatchKnown, AckAnswered, cacheVars, jobVars, answerVars, answered, IsNextRow
  <1>6. QED
    BY <1>2, <1>3, <1>4, <1>5 DEF IInv

\* What dies with the process is in memory only.
LEMMA ExitIInv == IInv /\ Exit => IInv'
  <1> SUFFICES ASSUME IInv, Exit PROVE IInv'
    OBVIOUS
  <1>1. CacheInv'
    BY CacheUnchanged DEF IInv, Exit
  <1>2. AgentTypeOK'
    BY <1>1 DEF IInv, CacheInv, AgentTypeOK, Exit, Proc, ScanPc, FlushPc, cacheVars, answerVars
  <1>3. SinglePlace' /\ Accounted'
    <2>1. \A j \in ScanJob : held'[j] = NoPayload
      BY DEF Exit
    <2>2. \A p \in Payload : ~(Held(p)')
      BY <2>1, AgentAssumption DEF Held
    <2>3. UNCHANGED <<pending, dead, collected>>
      BY DEF Exit, cacheVars
    <2>4. QED
      BY <2>1, <2>2, <2>3 DEF IInv, SinglePlace, Accounted, Queued, Parked
  <1>4. BatchKnown' /\ AckAnswered'
    BY DEF Exit, BatchKnown, AckAnswered
  <1>5. QED
    BY <1>1, <1>2, <1>3, <1>4 DEF IInv

\* The key changes only while no job is busy.
LEMMA StartIInv == IInv /\ Start => IInv'
  <1> SUFFICES ASSUME IInv, Start PROVE IInv'
    OBVIOUS
  <1>1. diskToken \in Key
    BY DEF IInv, AgentTypeOK
  <1>2. CacheInv'
    BY <1>1, ReopenInv DEF IInv, Start
  <1>3. AgentTypeOK'
    BY <1>2 DEF IInv, CacheInv, AgentTypeOK, Start, Reopen, Proc, tokenVars, jobVars, answerVars
  <1>4. SinglePlace' /\ Accounted'
    BY DEF IInv, SinglePlace, Accounted, Start, Reopen, jobVars, Held, Queued, Parked
  <1>5. \A f \in FlushJob : batch'[f] = {} /\ flushPc'[f] = "idle"
    BY DEF IInv, AgentTypeOK, Start, jobVars
  <1>6. BatchKnown' /\ AckAnswered'
    BY <1>5 DEF BatchKnown, AckAnswered
  <1>7. QED
    BY <1>2, <1>3, <1>4, <1>6 DEF IInv

-----------------------------------------------------------------------------

\* Every step preserves the inductive invariant.
LEMMA NextIInv == IInv /\ [Next]_vars => IInv'
  <1> SUFFICES ASSUME IInv, [Next]_vars PROVE IInv'
    OBVIOUS
  <1>1. ASSUME NEW j \in ScanJob,
               Collect(j) \/ Deliver(j) \/ StorePayload(j) \/ ScanTimeout(j) \/ StoreFails(j)
        PROVE  IInv'
    BY <1>1, CollectIInv, DeliverIInv, StorePayloadIInv, ScanTimeoutIInv, StoreFailsIInv
  <1>2. ASSUME NEW f \in FlushJob,
               FlushStart(f) \/ FlushPost(f) \/ FlushAck(f) \/ FlushNack(f) \/ FlushTimeout(f)
        PROVE  IInv'
    BY <1>2, FlushStartIInv, FlushPostIInv, FlushAckIInv, FlushNackIInv, FlushTimeoutIInv
  <1>3. CASE Refresh
    BY <1>3, RefreshIInv
  <1>4. CASE Expire \/ Stop \/ CloseStore
    BY <1>4, QuietIInv
  <1>5. CASE Exit
    BY <1>5, ExitIInv
  <1>6. CASE Start
    BY <1>6, StartIInv
  <1>7. CASE UNCHANGED vars
    <2>1. UNCHANGED <<cacheVars, proc, tokenVars, jobVars, collected, answerVars, failures>>
      BY <1>7 DEF vars
    <2>2. CacheInv'
      BY <2>1, CacheUnchanged DEF IInv
    <2>3. AgentTypeOK'
      BY <2>1, <2>2 DEF IInv, CacheInv, AgentTypeOK, cacheVars, tokenVars, jobVars, answerVars
    <2>4. SinglePlace' /\ Accounted'
      BY <2>1 DEF IInv, SinglePlace, Accounted, cacheVars, jobVars, Held, Queued, Parked
    <2>5. BatchKnown' /\ AckAnswered'
      BY <2>1 DEF IInv, BatchKnown, AckAnswered, cacheVars, jobVars, answerVars, answered, IsNextRow
    <2>6. QED
      BY <2>2, <2>3, <2>4, <2>5 DEF IInv
  <1>8. QED
    BY <1>1, <1>2, <1>3, <1>4, <1>5, <1>6, <1>7 DEF Next

LEMMA Inductive == Spec => []IInv
  BY InitIInv, NextIInv, PTL DEF Spec

\* Types, and the pairing of each job's program counter with what it holds.
THEOREM TypeCorrect == Spec => []AgentTypeOK
  <1>1. IInv => AgentTypeOK
    BY DEF IInv
  <1>2. QED
    BY <1>1, Inductive, PTL

\* The cache stays within max_pending_rows whatever the agent's jobs do.
THEOREM CacheStaysBounded == Spec => []Bounded
  <1>1. IInv => Bounded
    BY DEF IInv, CacheInv
  <1>2. QED
    BY <1>1, Inductive, PTL

\* A row id names one payload for good, across jobs, crashes and restarts.
THEOREM IdsHaveOneFate == Spec => []OneFate
  <1>1. IInv => OneFate
    BY DEF IInv, CacheInv
  <1>2. QED
    BY <1>1, Inductive, PTL

\* A payload is never held, queued and dead-lettered, or queued twice.
THEOREM PayloadInOnePlace == Spec => []SinglePlace
  <1>1. IInv => SinglePlace
    BY DEF IInv
  <1>2. QED
    BY <1>1, Inductive, PTL

\* Rows sealed under an old key are touched by nothing but an eviction.
THEOREM UnreadableRowsUntouched == Spec => UnreadableUntouched
  <1> DEFINE Untouched ==
        \A r \in pending : ~Readable(r) => r \in pending' \/ lastId' # lastId
  <1>1. IInv /\ [Next]_vars => [Untouched]_vars
    <2> SUFFICES ASSUME IInv, [Next]_vars, NEW r \in pending, r.key # gcmKey
                 PROVE  r \in pending' \/ lastId' # lastId
      BY DEF Readable
    <2>1. ASSUME NEW j \in ScanJob, StorePayload(j)
          PROVE  lastId' # lastId
      <3>1. lastId' = lastId + 1 /\ lastId \in Nat
        BY <2>1 DEF StorePayload, Push, IInv, AgentTypeOK, CacheTypeOK
      <3>2. QED
        BY <3>1
    <2>2. ASSUME NEW f \in FlushJob, FlushAck(f) \/ FlushNack(f)
          PROVE  r \in pending'
      <3>1. PICK s \in batch[f] :
              (IF StoreOpen THEN Ack(s.id) ELSE UNCHANGED cacheVars)
              \/ (IF StoreOpen THEN Nack(s.id) ELSE UNCHANGED cacheVars)
        BY <2>2 DEF FlushAck, FlushNack
      <3>2. s.id \in Nat /\ r.id # s.id
        BY DEF IInv, AgentTypeOK, Row, BatchKnown
      <3>3. CASE UNCHANGED cacheVars
        BY <3>3 DEF cacheVars
      <3>4. CASE Ack(s.id)
        BY <3>2, <3>4 DEF Ack
      <3>5. CASE Nack(s.id)
        BY <3>2, <3>5, NackMoves DEF IInv
      <3>6. QED
        BY <3>1, <3>3, <3>4, <3>5
    <2>3. CASE UNCHANGED pending
      BY <2>3
    <2>4. [Next]_vars => \/ UNCHANGED pending
                         \/ \E j \in ScanJob : StorePayload(j)
                         \/ \E f \in FlushJob : FlushAck(f) \/ FlushNack(f)
      BY DEF Next, vars, cacheVars, Collect, Deliver, ScanTimeout, StoreFails, FlushStart,
             FlushPost, FlushTimeout, Refresh, Expire, Stop, CloseStore, Exit, Start, Reopen
    <2>5. QED
      BY <2>1, <2>2, <2>3, <2>4
  <1>2. QED
    BY <1>1, Inductive, PTL DEF Spec, UnreadableUntouched

-----------------------------------------------------------------------------
(* Dead letters.                                                           *)

FInv == FailuresCounted /\ DeadMeansExhausted

Busy == {f \in FlushJob : flushPc[f] # "idle"}

\* Finitely many jobs are about to Nack a row.
LEMMA NackersFinite ==
  ASSUME FailuresCounted, NEW id
  PROVE  IsFiniteSet(AboutToNack(id)) /\ Cardinality(AboutToNack(id)) \in Nat
  <1>1. AboutToNack(id) \subseteq {f \in FlushJob : flushPc[f] # "idle"}
    BY DEF AboutToNack
  <1>2. QED
    BY <1>1, FS_Subset, FS_CardinalityType DEF FailuresCounted

\* A job that goes on, and is not about to Nack, is not counted any more; the
\* others are as they were.
LEMMA OneJobMoves ==
  ASSUME NEW f \in FlushJob, flushPc'[f] # "nack",
         \A g \in FlushJob : g # f => flushPc'[g] = flushPc[g] /\ batch'[g] = batch[g]
  PROVE  \A id : AboutToNack(id)' = AboutToNack(id) \ {f}
  BY DEF AboutToNack, IsNextRow

\* A step that adds no attempt and no job that is about to Nack keeps the count.
LEMMA NothingCounted ==
  ASSUME IInv, FInv, UNCHANGED <<dead, failures>>, pending' \subseteq pending,
         \A r \in pending' : AboutToNack(r.id)' \subseteq AboutToNack(r.id),
         NEW f, Busy' \subseteq Busy \cup {f}
  PROVE  FInv'
  <1>1. IsFiniteSet(Busy \cup {f})
    BY FS_AddElement DEF FInv, FailuresCounted, Busy
  <1>2. IsFiniteSet(Busy')
    BY <1>1, FS_Subset
  <1>3. ASSUME NEW r \in pending'
        PROVE  \/ failures[r.payload] = MaxTries
               \/ failures[r.payload] >= r.attempts + Cardinality(AboutToNack(r.id))'
    <2>1. /\ IsFiniteSet(AboutToNack(r.id)) /\ Cardinality(AboutToNack(r.id)) \in Nat
      BY NackersFinite DEF FInv
    <2>2. /\ Cardinality(AboutToNack(r.id)') <= Cardinality(AboutToNack(r.id))
          /\ Cardinality(AboutToNack(r.id)') \in Nat
      BY <1>3, <2>1, FS_Subset, FS_CardinalityType
    <2>3. r \in pending /\ r.attempts \in Nat /\ failures[r.payload] \in Nat
      BY <1>3, CacheAssumption DEF IInv, AgentTypeOK, CacheTypeOK, Row
    <2>4. QED
      BY <2>1, <2>2, <2>3 DEF FInv, FailuresCounted
  <1>4. QED
    BY <1>2, <1>3 DEF FInv, FailuresCounted, Busy, DeadMeansExhausted

\* A job that goes on to a POST or ends, and counts nothing.
LEMMA JobMovesCountsNothing ==
  ASSUME IInv, FInv, NEW f \in FlushJob, flushPc'[f] # "nack",
         \A g \in FlushJob : g # f => flushPc'[g] = flushPc[g] /\ batch'[g] = batch[g],
         UNCHANGED <<dead, failures>>, pending' \subseteq pending
  PROVE  FInv'
  <1>1. \A id : AboutToNack(id)' \subseteq AboutToNack(id)
    BY OneJobMoves
  <1>2. Busy' \subseteq Busy \cup {f}
    BY DEF Busy
  <1>3. QED
    BY <1>1, <1>2, NothingCounted

\* A new row has counted nothing, and no job knows its id.
LEMMA StorePayloadCounts ==
  ASSUME IInv, FInv, NEW j \in ScanJob, StorePayload(j)
  PROVE  FInv'
  <1>1. PICK now \in Second : Push(held[j], now)
    BY DEF StorePayload
  <1> DEFINE new == [id |-> lastId + 1, at |-> now, payload |-> held[j], attempts |-> 0, key |-> gcmKey]
  <1>2. UNCHANGED <<flushPc, batch, failures, dead>> /\ pending' \subseteq pending \cup {new}
    BY <1>1 DEF StorePayload, EndScan, Push
  <1>3. \A id : AboutToNack(id)' = AboutToNack(id)
    BY <1>2 DEF AboutToNack, IsNextRow
  <1>4. AboutToNack(lastId + 1) = {}
    <2>1. \A f \in FlushJob : \A r \in batch[f] : r.id \in Nat /\ r.id <= lastId /\ lastId \in Nat
      BY DEF IInv, BatchKnown, AgentTypeOK, CacheTypeOK, Row
    <2>2. QED
      BY <2>1 DEF AboutToNack
  <1>5. failures[held[j]] \in Nat
    <2>1. held[j] \in Payload
      BY DEF StorePayload, IInv, AgentTypeOK
    <2>2. QED
      BY <2>1, CacheAssumption DEF IInv, AgentTypeOK
  <1>6. failures[new.payload] >= new.attempts + Cardinality(AboutToNack(new.id))
    BY <1>4, <1>5, FS_EmptySet
  <1>7. QED
    BY <1>2, <1>3, <1>6 DEF FInv, FailuresCounted, DeadMeansExhausted

\* A failure is counted before the attempt is: by the job that is now about to Nack.
LEMMA FlushPostCounts ==
  ASSUME IInv, FInv, NEW f \in FlushJob, FlushPost(f)
  PROVE  FInv'
  <1>1. PICK r \in batch[f], o \in Outcome :
          /\ IsNextRow(f, r)
          /\ IF o \in {"failed", "lost"}
             THEN /\ flushPc' = [flushPc EXCEPT ![f] = "nack"]
                  /\ failures' = [failures EXCEPT ![r.payload] = IF @ < MaxTries THEN @ + 1 ELSE @]
             ELSE /\ flushPc' = [flushPc EXCEPT ![f] = "ack"]
                  /\ UNCHANGED failures
    BY DEF FlushPost
  <1>2. UNCHANGED <<pending, dead, batch>> /\ flushPc[f] = "post"
    BY DEF FlushPost, cacheVars
  <1>3. \A g \in FlushJob : g # f => flushPc'[g] = flushPc[g]
    BY <1>1 DEF IInv, AgentTypeOK
  <1>4. CASE o \notin {"failed", "lost"}
    <2>1. flushPc'[f] # "nack" /\ UNCHANGED failures
      BY <1>1, <1>4 DEF IInv, AgentTypeOK
    <2>2. QED
      BY <1>2, <1>3, <2>1, JobMovesCountsNothing
  <1>5. CASE o \in {"failed", "lost"}
    <2>1. /\ flushPc'[f] = "nack"
          /\ failures' = [failures EXCEPT ![r.payload] = IF @ < MaxTries THEN @ + 1 ELSE @]
      BY <1>1, <1>5 DEF IInv, AgentTypeOK
    <2>2. \A p \in Payload : failures[p] \in 0..MaxTries
      BY DEF IInv, AgentTypeOK
    <2>3. r.payload \in Payload /\ failures \in [Payload -> 0..MaxTries] /\ MaxTries \in Nat
      BY CacheAssumption DEF IInv, AgentTypeOK, Row
    <2>4. \A p \in Payload : /\ failures'[p] >= failures[p]
                             /\ failures[p] = MaxTries => failures'[p] = MaxTries
      BY <2>1, <2>2, <2>3
    <2>5. failures'[r.payload] = MaxTries \/ failures'[r.payload] = failures[r.payload] + 1
      BY <2>1, <2>2, <2>3
    <2>6. DeadMeansExhausted'
      <3>1. \A d \in dead : d.payload \in Payload
        BY DEF IInv, AgentTypeOK, CacheTypeOK, DeadRow
      <3>2. \A d \in dead : failures'[d.payload] >= MaxTries
        BY <2>2, <2>3, <2>4, <3>1 DEF FInv, DeadMeansExhausted
      <3>3. QED
        BY <1>2, <3>2 DEF DeadMeansExhausted
    <2>7. IsFiniteSet(Busy')
      <3>1. Busy' \subseteq Busy \cup {f}
        BY <1>3 DEF Busy
      <3>2. QED
        BY <3>1, FS_AddElement, FS_Subset DEF FInv, FailuresCounted, Busy
    <2>8. AboutToNack(r.id)' = AboutToNack(r.id) \cup {f}
      <3>1. f \in AboutToNack(r.id)'
        BY <1>1, <1>2, <2>1 DEF AboutToNack, IsNextRow
      <3>2. \A g \in FlushJob : g # f => (g \in AboutToNack(r.id)' <=> g \in AboutToNack(r.id))
        BY <1>2, <1>3 DEF AboutToNack, IsNextRow
      <3>3. AboutToNack(r.id)' \subseteq FlushJob /\ AboutToNack(r.id) \subseteq FlushJob
        BY DEF AboutToNack
      <3>4. QED
        BY <3>1, <3>2, <3>3
    <2>9. \A id : id # r.id => AboutToNack(id)' = AboutToNack(id)
      <3> SUFFICES ASSUME NEW id, id # r.id PROVE AboutToNack(id)' = AboutToNack(id)
        OBVIOUS
      <3>1. \A g \in FlushJob : g # f => (g \in AboutToNack(id)' <=> g \in AboutToNack(id))
        BY <1>2, <1>3 DEF AboutToNack, IsNextRow
      <3>2. f \notin AboutToNack(id)'
        <4>1. \A q \in batch[f] : IsNextRow(f, q) => q = r
          BY <1>1, OneNextRow DEF IInv
        <4>2. QED
          BY <1>2, <4>1 DEF AboutToNack, IsNextRow
      <3>3. f \notin AboutToNack(id)
        BY <1>2 DEF AboutToNack
      <3>4. AboutToNack(id)' \subseteq FlushJob /\ AboutToNack(id) \subseteq FlushJob
        BY DEF AboutToNack
      <3>5. QED
        BY <3>1, <3>2, <3>3, <3>4
    <2>10. ASSUME NEW q \in pending
           PROVE  \/ failures'[q.payload] = MaxTries
                  \/ failures'[q.payload] >= q.attempts + Cardinality(AboutToNack(q.id)')
      <3>1. q.payload \in Payload /\ q.attempts \in Nat
        BY <2>10 DEF IInv, AgentTypeOK, CacheTypeOK, Row
      <3>2. /\ IsFiniteSet(AboutToNack(q.id)) /\ Cardinality(AboutToNack(q.id)) \in Nat
            /\ failures[q.payload] = MaxTries \/ failures[q.payload] >= q.attempts + Cardinality(AboutToNack(q.id))
        BY <2>10, NackersFinite DEF FInv, FailuresCounted
      <3>3. CASE q.id # r.id
        <4>1. AboutToNack(q.id)' = AboutToNack(q.id)
          BY <2>9, <3>3
        <4>2. failures'[q.payload] >= failures[q.payload]
          BY <2>4, <3>1
        <4>3. failures[q.payload] \in Nat /\ failures'[q.payload] \in Nat
          BY <2>1, <2>2, <2>3, <3>1
        <4>4. QED
          BY <2>4, <3>1, <3>2, <4>1, <4>2, <4>3
      <3>4. CASE q.id = r.id
        <4>1. q.payload = r.payload
          BY <2>10, <3>4 DEF IInv, BatchKnown
        <4>2. /\ Cardinality(AboutToNack(q.id)') <= Cardinality(AboutToNack(q.id)) + 1
              /\ Cardinality(AboutToNack(q.id)') \in Nat
          <5>1. AboutToNack(q.id)' = AboutToNack(q.id) \cup {f}
            BY <2>8, <3>4
          <5>2. Cardinality(AboutToNack(q.id) \cup {f}) =
                  IF f \in AboutToNack(q.id) THEN Cardinality(AboutToNack(q.id))
                  ELSE Cardinality(AboutToNack(q.id)) + 1
            BY <3>2, FS_AddElement, Zenon
          <5>3. QED
            BY <3>2, <5>1, <5>2
        <4>3. QED
          BY <2>2, <2>3, <2>4, <2>5, <3>1, <3>2, <4>1, <4>2
      <3>5. QED
        BY <3>3, <3>4
    <2>11. QED
      BY <1>2, <2>6, <2>7, <2>10 DEF FInv, FailuresCounted, Busy
  <1>6. QED
    BY <1>4, <1>5

\* One Nack: the row's attempt for the job's failure, and the last is the MaxTries-th.
LEMMA FlushNackCounts ==
  ASSUME IInv, FInv, NEW f \in FlushJob, FlushNack(f)
  PROVE  FInv'
  <1>1. PICK r \in batch[f] :
          /\ IsNextRow(f, r)
          /\ IF StoreOpen THEN Nack(r.id) ELSE UNCHANGED cacheVars
          /\ NextRow(f, r)
    BY DEF FlushNack
  <1>2. flushPc[f] = "nack" /\ UNCHANGED failures
    BY DEF FlushNack
  <1>3. /\ flushPc'[f] # "nack"
        /\ \A g \in FlushJob : g # f => flushPc'[g] = flushPc[g] /\ batch'[g] = batch[g]
    BY <1>1 DEF NextRow, IInv, AgentTypeOK
  <1>4. CASE UNCHANGED cacheVars
    BY <1>2, <1>3, <1>4, JobMovesCountsNothing DEF cacheVars
  <1>5. CASE Nack(r.id)
    <2>1. f \in AboutToNack(r.id) /\ AboutToNack(r.id)' = AboutToNack(r.id) \ {f}
      BY <1>1, <1>2, <1>3, OneJobMoves DEF AboutToNack
    <2>2. CASE \A q \in pending : q.id # r.id
      <3>1. UNCHANGED <<pending, dead>>
        BY <1>5, <2>2 DEF Nack
      <3>2. QED
        BY <1>2, <1>3, <3>1, JobMovesCountsNothing
    <2>3. CASE \E q \in pending : q.id = r.id
      <3>1. PICK q \in pending : q.id = r.id
        BY <2>3
      <3>2. {s \in pending : s.id = r.id} = {q} /\ q \in Row
        BY <3>1 DEF IInv, CacheInv, OneFate, CacheTypeOK
      <3>3. q.attempts \in Nat /\ q.payload \in Payload /\ failures[q.payload] \in 0..MaxTries /\ MaxTries \in Nat
        BY <3>2, CacheAssumption DEF IInv, AgentTypeOK, Row
      <3>4. /\ IsFiniteSet(AboutToNack(q.id)) /\ Cardinality(AboutToNack(q.id)) \in Nat
            /\ failures[q.payload] = MaxTries \/ failures[q.payload] >= q.attempts + Cardinality(AboutToNack(q.id))
        BY <3>1, NackersFinite DEF FInv, FailuresCounted
      <3>5. /\ Cardinality(AboutToNack(q.id)') = Cardinality(AboutToNack(q.id)) - 1
            /\ Cardinality(AboutToNack(q.id)') \in Nat
        BY <2>1, <3>1, <3>4, FS_RemoveElement, FS_CardinalityType
      <3>6. IsFiniteSet(Busy')
        <4>1. Busy' \subseteq Busy \cup {f}
          BY <1>3 DEF Busy
        <4>2. QED
          BY <4>1, FS_AddElement, FS_Subset DEF FInv, FailuresCounted, Busy
      <3>7. ASSUME NEW s \in pending, s # q
            PROVE  \/ failures[s.payload] = MaxTries
                   \/ failures[s.payload] >= s.attempts + Cardinality(AboutToNack(s.id)')
        <4>1. AboutToNack(s.id)' = AboutToNack(s.id)
          <5>1. s.id # r.id
            BY <3>2, <3>7
          <5>2. f \notin AboutToNack(s.id)
            <6>1. \A t \in batch[f] : IsNextRow(f, t) => t = r
              BY <1>1, OneNextRow DEF IInv
            <6>2. QED
              BY <5>1, <6>1 DEF AboutToNack
          <5>3. QED
            BY <1>3, <5>2, OneJobMoves
        <4>2. QED
          BY <3>7, <4>1 DEF FInv, FailuresCounted
      <3>8. CASE q.attempts + 1 >= MaxTries
        <4>1. /\ pending' = pending \ {q}
              /\ dead' = dead \cup {[original |-> q.id, payload |-> q.payload, key |-> q.key]}
          BY <1>5, <3>2, <3>8 DEF Nack
        <4>2. failures[q.payload] >= MaxTries
          BY <3>3, <3>4, <3>5, <3>8
        <4>3. QED
          BY <1>2, <3>6, <3>7, <4>1, <4>2 DEF FInv, FailuresCounted, Busy, DeadMeansExhausted
      <3>9. CASE ~(q.attempts + 1 >= MaxTries)
        <4> DEFINE more == [q EXCEPT !.attempts = @ + 1]
        <4>1. pending' = (pending \ {q}) \cup {more} /\ dead' = dead
          BY <1>5, <3>2, <3>9 DEF Nack
        <4>2. more.id = q.id /\ more.payload = q.payload /\ more.attempts = q.attempts + 1
          BY <3>2 DEF Row
        <4>3. \/ failures[more.payload] = MaxTries
              \/ failures[more.payload] >= more.attempts + Cardinality(AboutToNack(more.id)')
          BY <3>3, <3>4, <3>5, <4>2
        <4> HIDE DEF more
        <4>4. QED
          BY <1>2, <3>6, <3>7, <4>1, <4>3 DEF FInv, FailuresCounted, Busy, DeadMeansExhausted
      <3>10. QED
        BY <3>8, <3>9
    <2>4. QED
      BY <2>2, <2>3
  <1>6. QED
    BY <1>1, <1>4, <1>5

\* A job's other steps count nothing.
LEMMA FlushCounts ==
  ASSUME IInv, FInv, NEW f \in FlushJob, FlushStart(f) \/ FlushAck(f) \/ FlushTimeout(f)
  PROVE  FInv'
  <1>1. UNCHANGED <<dead, failures>> /\ pending' \subseteq pending
    BY DEF FlushStart, FlushAck, FlushTimeout, Ack, cacheVars
  <1>2. /\ flushPc'[f] # "nack"
        /\ \A g \in FlushJob : g # f => flushPc'[g] = flushPc[g] /\ batch'[g] = batch[g]
    BY DEF FlushStart, FlushAck, FlushTimeout, NextRow, IInv, AgentTypeOK
  <1>3. QED
    BY <1>1, <1>2, JobMovesCountsNothing

\* Steps of the scan jobs and the process, which touch no flush job or end them all.
LEMMA OthersCount ==
  ASSUME IInv, FInv, UNCHANGED <<pending, dead, failures>>,
         \/ UNCHANGED <<flushPc, batch>>
         \/ \A f \in FlushJob : flushPc'[f] = "idle"
  PROVE  FInv'
  <1>1. \A id : AboutToNack(id)' \subseteq AboutToNack(id)
    BY DEF AboutToNack, IsNextRow
  <1>2. Busy' \subseteq Busy \cup {lastId}
    BY DEF Busy
  <1>3. QED
    BY <1>1, <1>2, NothingCounted

LEMMA InitFInv == ASSUME Init PROVE FInv
  <1>1. {f \in FlushJob : flushPc[f] # "idle"} = {} /\ pending = {} /\ dead = {}
    BY DEF Init, CacheInit
  <1>2. QED
    BY <1>1, FS_EmptySet DEF FInv, FailuresCounted, DeadMeansExhausted

LEMMA NextFInv == ASSUME IInv, FInv, [Next]_vars PROVE FInv'
  <1>1. ASSUME NEW j \in ScanJob, Collect(j) \/ Deliver(j) \/ ScanTimeout(j) \/ StoreFails(j)
        PROVE  FInv'
    <2>1. UNCHANGED <<pending, dead, failures, flushPc, batch>>
      BY <1>1 DEF Collect, Deliver, ScanTimeout, StoreFails, EndScan, cacheVars
    <2>2. QED
      BY <2>1, OthersCount
  <1>2. ASSUME NEW j \in ScanJob, StorePayload(j) PROVE FInv'
    BY <1>2, StorePayloadCounts
  <1>3. ASSUME NEW f \in FlushJob,
               FlushStart(f) \/ FlushPost(f) \/ FlushAck(f) \/ FlushNack(f) \/ FlushTimeout(f)
        PROVE  FInv'
    BY <1>3, FlushCounts, FlushPostCounts, FlushNackCounts
  <1>4. CASE Refresh \/ Expire \/ Stop \/ CloseStore \/ Start \/ UNCHANGED vars
    <2>1. UNCHANGED <<pending, dead, failures, flushPc, batch>>
      BY <1>4 DEF Refresh, Expire, Stop, CloseStore, Start, Reopen, vars, cacheVars, jobVars
    <2>2. QED
      BY <2>1, OthersCount
  <1>5. CASE Exit
    <2>1. UNCHANGED <<pending, dead, failures>> /\ \A f \in FlushJob : flushPc'[f] = "idle"
      BY <1>5 DEF Exit, cacheVars
    <2>2. QED
      BY <2>1, OthersCount
  <1>6. QED
    BY <1>1, <1>2, <1>3, <1>4, <1>5 DEF Next

\* A payload is parked only after MaxTries failed deliveries out of the queue, also
\* when several jobs work on its row at once and across restarts.
THEOREM ParkedAfterMaxTries == Spec => []DeadMeansExhausted
  <1>1. FInv => DeadMeansExhausted
    BY DEF FInv
  <1>2. QED
    BY <1>1, InitFInv, NextFInv, Inductive, PTL DEF Spec

-----------------------------------------------------------------------------
(* The contract.                                                           *)

StageMap == [p \in Payload |-> StageOf(p)]

\* In a state of the invariant the places of a payload exclude each other, and
\* its stage is the place it is in.
LEMMA StageIs ==
  IInv => \A p \in Payload :
            /\ StageOf(p) \in {"unborn", "inFlight", "queued", "parked", "gone"}
            /\ StageOf(p) = "unborn" <=> p \notin collected
            /\ StageOf(p) = "queued" <=> Queued(p)
            /\ StageOf(p) = "inFlight" <=> Held(p)
            /\ StageOf(p) = "parked" <=> Parked(p)
  <1> SUFFICES ASSUME IInv, NEW p \in Payload
               PROVE  /\ StageOf(p) \in {"unborn", "inFlight", "queued", "parked", "gone"}
                      /\ StageOf(p) = "unborn" <=> p \notin collected
                      /\ StageOf(p) = "queued" <=> Queued(p)
                      /\ StageOf(p) = "inFlight" <=> Held(p)
                      /\ StageOf(p) = "parked" <=> Parked(p)
    OBVIOUS
  <1>1. Queued(p) \/ Held(p) \/ Parked(p) => p \in collected
    BY AgentAssumption DEF IInv, Accounted, Queued, Held, Parked
  <1>2. ~(Queued(p) /\ Held(p)) /\ ~(Queued(p) /\ Parked(p)) /\ ~(Held(p) /\ Parked(p))
    BY DEF IInv, SinglePlace
  <1>3. StageOf(p) = IF p \notin collected THEN "unborn"
                     ELSE IF Queued(p) THEN "queued"
                     ELSE IF Held(p) THEN "inFlight"
                     ELSE IF Parked(p) THEN "parked" ELSE "gone"
    BY DEF StageOf
  <1>4. QED
    BY <1>1, <1>2, <1>3

\* A step that leaves a payload's places alone leaves its stage alone.
LEMMA SameStage ==
  ASSUME IInv, IInv', NEW p \in Payload,
         p \in collected' <=> p \in collected,
         Queued(p)' <=> Queued(p), Held(p)' <=> Held(p), Parked(p)' <=> Parked(p)
  PROVE  StageOf(p)' = StageOf(p)
  BY DEF StageOf

\* The rows of the queue and the payloads at stage "queued" are as many.
LEMMA QueueSize ==
  ASSUME IInv
  PROVE  Cardinality({p \in Payload : StageMap[p] = "queued"}) = Cardinality(pending)
  <1> DEFINE Q == {p \in Payload : StageMap[p] = "queued"}
             g == [r \in pending |-> r.payload]
  <1>1. Q = {p \in Payload : Queued(p)}
    BY StageIs DEF StageMap
  <1>2. \A r \in pending : r.payload \in Payload
    BY DEF IInv, AgentTypeOK, CacheTypeOK, Row
  <1>3. g \in [pending -> Q]
    BY <1>1, <1>2 DEF Queued
  <1>4. \A r, s \in pending : g[r] = g[s] => r = s
    BY DEF IInv, SinglePlace
  <1>5. \A p \in Q : \E r \in pending : g[r] = p
    BY <1>1 DEF Queued
  <1>6. g \in Bijection(pending, Q)
    <2> HIDE DEF g, Q
    <2>1. QED
      BY <1>3, <1>4, <1>5, Fun_IsBij
  <1>7. ExistsBijection(pending, Q) /\ IsFiniteSet(pending)
    BY <1>6 DEF ExistsBijection, IInv, AgentTypeOK, CacheTypeOK
  <1>8. QED
    BY <1>7, FS_Bijection

\* The first state of the agent is the contract's.
LEMMA ContractInit == Init => Contract!Init
  <1> SUFFICES ASSUME Init PROVE Contract!Init
    OBVIOUS
  <1>1. \A p \in Payload : StageOf(p) = "unborn"
    BY DEF Init, StageOf
  <1>2. QED
    BY <1>1 DEF Init, Contract!Init, answered

\* Steps that move no payload and bring no answer are stutters of the contract.
LEMMA ContractStutter ==
  ASSUME IInv, IInv', UNCHANGED <<pending, dead, held, collected, settled, denied>>
  PROVE  StageMap' = StageMap /\ answered' = answered
  BY DEF StageMap, StageOf, Queued, Held, Parked, answered

\* An answer is the only thing the contract sees.
LEMMA ContractAnswer ==
  ASSUME IInv, IInv', NEW p \in collected, NEW o \in Outcome, Exchange(p, o),
         UNCHANGED <<pending, dead, held, collected>>
  PROVE  Contract!Next \/ (StageMap' = StageMap /\ answered' = answered)
  <1>1. StageMap' = StageMap
    BY DEF StageMap, StageOf, Queued, Held, Parked
  <1>2. p \in Payload
    BY DEF IInv, AgentTypeOK
  <1>3. CASE o = "failed"
    BY <1>1, <1>3 DEF Exchange, answered
  <1>4. CASE o # "failed"
    <2>1. answered' = answered \cup {p}
      BY <1>4 DEF Exchange, answered, Outcome
    <2>2. StageMap[p] # "unborn"
      BY <1>2, StageIs DEF StageMap
    <2>3. Contract!Answer(p)
      BY <1>1, <2>1, <2>2 DEF Contract!Answer, StageMap
    <2>4. QED
      BY <1>2, <2>3 DEF Contract!Next
  <1>5. QED
    BY <1>3, <1>4

LEMMA ContractCollect ==
  ASSUME IInv, IInv', NEW j \in ScanJob, Collect(j)
  PROVE  Contract!Next
  <1>1. PICK p \in Payload \ collected :
          /\ collected' = collected \cup {p}
          /\ held' = [held EXCEPT ![j] = p]
    BY DEF Collect
  <1>2. UNCHANGED <<pending, dead, settled, denied>> /\ held[j] = NoPayload
    BY DEF Collect, cacheVars, answerVars, IInv, AgentTypeOK
  <1>3. \A i \in ScanJob : held'[i] = IF i = j THEN p ELSE held[i]
    BY <1>1 DEF IInv, AgentTypeOK
  <1>4. \A q \in Payload : /\ (q \in collected)' <=> q \in collected \/ q = p
                           /\ Held(q)' <=> Held(q) \/ q = p
                           /\ Queued(q)' <=> Queued(q)
                           /\ Parked(q)' <=> Parked(q)
    BY <1>1, <1>2, <1>3, AgentAssumption DEF Held, Queued, Parked
  <1>5. ~Queued(p)
    BY <1>1 DEF IInv, Accounted, Queued
  <1>6. StageMap[p] = "unborn" /\ StageMap'[p] = "inFlight"
    BY <1>1, <1>4, <1>5 DEF StageMap, StageOf
  <1>7. \A q \in Payload \ {p} : StageMap'[q] = StageMap[q]
    BY <1>4 DEF StageMap, StageOf
  <1>8. StageMap' = [q \in Payload |-> IF q \in {p} THEN "inFlight" ELSE StageMap[q]]
    BY <1>6, <1>7 DEF StageMap
  <1>9. Contract!Collect(p)
    BY <1>2, <1>6, <1>8 DEF Contract!Collect, Contract!Move, StageMap, answered
  <1>10. QED
    BY <1>9 DEF Contract!Next

\* What a job's end does to the stages: its payload, unless it was queued in the
\* same step, is gone, and no other payload moves.
LEMMA EndScanStage ==
  ASSUME IInv, IInv', NEW j \in ScanJob, scanPc[j] # "idle", EndScan(j),
         UNCHANGED <<pending, dead, collected>>
  PROVE  /\ held[j] \in Payload /\ StageMap[held[j]] = "inFlight"
         /\ StageMap' = [q \in Payload |-> IF q \in {held[j]} THEN "gone" ELSE StageMap[q]]
  <1>1. held[j] \in Payload /\ held[j] \in collected /\ Held(held[j])
    BY DEF IInv, AgentTypeOK, Accounted, Held
  <1>2. \A i \in ScanJob : held'[i] = IF i = j THEN NoPayload ELSE held[i]
    BY DEF EndScan, IInv, AgentTypeOK
  <1>3. \A q \in Payload : /\ Held(q)' <=> Held(q) /\ q # held[j]
                           /\ Queued(q)' <=> Queued(q)
                           /\ Parked(q)' <=> Parked(q)
    BY <1>1, <1>2, AgentAssumption DEF Held, Queued, Parked, IInv, SinglePlace
  <1>4. ~Queued(held[j]) /\ ~Parked(held[j])
    BY <1>1 DEF IInv, SinglePlace
  <1>5. StageMap[held[j]] = "inFlight" /\ StageMap'[held[j]] = "gone"
    BY <1>1, <1>3, <1>4 DEF StageMap, StageOf
  <1>6. \A q \in Payload : q # held[j] => StageMap'[q] = StageMap[q]
    BY <1>3 DEF StageMap, StageOf
  <1>7. QED
    BY <1>1, <1>5, <1>6 DEF StageMap

LEMMA ContractDeliver ==
  ASSUME IInv, IInv', NEW j \in ScanJob, Deliver(j)
  PROVE  Contract!Next \/ (StageMap' = StageMap /\ answered' = answered)
  <1>1. PICK o \in Outcome :
          /\ Exchange(held[j], o)
          /\ IF o \in {"failed", "lost"}
             THEN scanPc' = [scanPc EXCEPT ![j] = "cache"] /\ UNCHANGED <<held, flushPc, batch>>
             ELSE EndScan(j)
    BY DEF Deliver
  <1>2. UNCHANGED <<pending, dead, collected>> /\ scanPc[j] # "idle" /\ held[j] \in collected
    BY DEF Deliver, cacheVars, IInv, AgentTypeOK, Accounted
  <1>3. CASE o \in {"failed", "lost"}
    BY <1>1, <1>2, <1>3, ContractAnswer
  <1>4. CASE o \notin {"failed", "lost"}
    <2>1. answered' = answered \cup {held[j]}
      BY <1>1, <1>4 DEF Exchange, answered, Outcome
    <2>2. /\ held[j] \in Payload /\ StageMap[held[j]] = "inFlight"
          /\ StageMap' = [q \in Payload |-> IF q \in {held[j]} THEN "gone" ELSE StageMap[q]]
      BY <1>1, <1>2, <1>4, EndScanStage
    <2>3. Contract!Deliver(held[j])
      BY <2>1, <2>2 DEF Contract!Deliver, Contract!Move, StageMap
    <2>4. QED
      BY <2>2, <2>3 DEF Contract!Next
  <1>5. QED
    BY <1>3, <1>4

\* Push hands the payload over to the queue; the rows that made room are gone, and
\* there are any only when the queue is within one row of its limit.
LEMMA ContractStore ==
  ASSUME IInv, IInv', NEW j \in ScanJob, StorePayload(j)
  PROVE  Contract!Next
  <1> DEFINE p == held[j]
  <1>1. p \in Payload /\ p \in collected /\ Held(p)
    BY DEF StorePayload, IInv, AgentTypeOK, Accounted, Held
  <1>2. ~Queued(p) /\ ~Parked(p)
    BY <1>1 DEF IInv, SinglePlace
  <1>3. PICK now \in Second : Push(p, now)
    BY DEF StorePayload
  <1> DEFINE new == [id |-> lastId + 1, at |-> now, payload |-> p, attempts |-> 0, key |-> gcmKey]
  <1>4. PICK old \in SUBSET pending :
          /\ IsOldest(old, EvictCount)
          /\ pending' = (pending \ old) \cup {new}
    BY <1>3 DEF Push
  <1>5. UNCHANGED <<dead, collected, settled, denied>>
    BY <1>3 DEF Push, StorePayload, answerVars
  <1>6. \A i \in ScanJob : held'[i] = IF i = j THEN NoPayload ELSE held[i]
    BY DEF StorePayload, EndScan, IInv, AgentTypeOK
  <1> DEFINE out == {r.payload : r \in old}
  <1>7. /\ \A r \in pending : r.payload \in Payload
        /\ \A r, q \in pending : r.payload = q.payload => r = q
    BY DEF IInv, AgentTypeOK, CacheTypeOK, Row, SinglePlace
  <1>8. \A q \in out : Queued(q) /\ q \in Payload /\ q # p
    BY <1>2, <1>7 DEF Queued
  <1>9. \A q \in Payload : Queued(q)' <=> (q = p \/ (Queued(q) /\ q \notin out))
    <2>1. \A q \in Payload : q \in out <=> \E r \in old : r.payload = q
      OBVIOUS
    <2>2. new.payload = p
      OBVIOUS
    <2>3. \A r \in pending' : r = new \/ (r \in pending /\ r \notin old)
      BY <1>4
    <2>4. new \in pending' /\ \A r \in pending \ old : r \in pending'
      BY <1>4
    <2> HIDE DEF new, out, p
    <2>5. QED
      BY <1>7, <2>1, <2>2, <2>3, <2>4 DEF Queued
  <1>10. \A q \in Payload : Held(q)' <=> (Held(q) /\ q # p)
    BY <1>1, <1>6, AgentAssumption DEF Held, IInv, SinglePlace
  <1>11. \A q \in Payload : (Parked(q)' <=> Parked(q)) /\ (q \in collected' <=> q \in collected)
    BY <1>5 DEF Parked
  <1> HIDE DEF p, out, new
  <1>12. StageMap[p] = "inFlight" /\ \A q \in out : StageMap[q] = "queued"
    BY <1>1, <1>8, StageIs DEF StageMap
  <1>13. StageMap'[p] = "queued"
    BY <1>1, <1>9, <1>11 DEF StageMap, StageOf
  <1>14. \A q \in out : StageMap'[q] = "gone"
    <2> SUFFICES ASSUME NEW q \in out PROVE StageMap'[q] = "gone"
      OBVIOUS
    <2>1. q \in Payload /\ Queued(q) /\ q # p
      BY <1>8
    <2>2. ~Held(q) /\ ~Parked(q) /\ q \in collected
      BY <2>1, StageIs DEF IInv, SinglePlace
    <2>3. ~(Queued(q)') /\ ~(Held(q)') /\ ~(Parked(q)') /\ q \in collected'
      BY <1>9, <1>10, <1>11, <2>1, <2>2
    <2>4. QED
      BY <2>1, <2>3 DEF StageMap, StageOf
  <1>15. \A q \in Payload : q # p /\ q \notin out => StageMap'[q] = StageMap[q]
    BY <1>9, <1>10, <1>11 DEF StageMap, StageOf
  <1>16. StageMap' = [q \in Payload |-> IF q = p THEN "queued"
                                        ELSE IF q \in out THEN "gone" ELSE StageMap[q]]
    BY <1>1, <1>13, <1>14, <1>15 DEF StageMap
  <1>17. out # {} => Cardinality({q \in Payload : StageMap[q] = "queued"}) + 1 >= MaxRows
    <2> SUFFICES ASSUME out # {} PROVE Cardinality(pending) + 1 >= MaxRows
      BY QueueSize
    <2>1. old # {} /\ IsFiniteSet(pending) /\ IsFiniteSet(old)
      BY <1>4, FS_Subset DEF out, IInv, AgentTypeOK, CacheTypeOK
    <2>2. Cardinality(pending) \in Nat /\ Cardinality(old) \in Nat /\ Cardinality(old) # 0
      BY <2>1, FS_CardinalityType, FS_EmptySet
    <2>3. Cardinality(old) = IF EvictCount < Cardinality(pending) THEN EvictCount ELSE Cardinality(pending)
      BY <1>4 DEF IsOldest
    <2>4. EvictCount # 0
      BY <2>2, <2>3, CacheAssumption DEF EvictCount
    <2>5. QED
      BY <2>2, <2>4, CacheAssumption DEF EvictCount
  <1>18. out \subseteq {q \in Payload : StageMap[q] = "queued"} /\ out \in SUBSET Payload
    BY <1>8, <1>12
  <1>19. answered' = answered
    BY <1>5 DEF answered
  <1>a. \A S : Contract!Cardinality(S) = Cardinality(S)
    BY DEF Contract!Cardinality, Cardinality
  <1>20. Contract!Enqueue(p, out)
    BY <1>12, <1>16, <1>17, <1>18, <1>19, <1>a DEF Contract!Enqueue, Contract!AtStage, StageMap
  <1>21. QED
    BY <1>1, <1>18, <1>20 DEF Contract!Next

LEMMA ContractStoreFails ==
  ASSUME IInv, IInv', NEW j \in ScanJob, StoreFails(j)
  PROVE  Contract!Next
  <1>1. /\ EndScan(j) /\ scanPc[j] # "idle"
        /\ UNCHANGED <<pending, dead, collected, settled, denied>>
    BY DEF StoreFails, cacheVars, answerVars
  <1>2. /\ held[j] \in Payload /\ StageMap[held[j]] = "inFlight"
        /\ StageMap' = [q \in Payload |-> IF q \in {held[j]} THEN "gone" ELSE StageMap[q]]
    BY <1>1, EndScanStage
  <1>3. Contract!Abandon({held[j]})
    BY <1>1, <1>2 DEF Contract!Abandon, Contract!Move, Contract!AtStage, StageMap, answered
  <1>4. QED
    BY <1>2, <1>3 DEF Contract!Next

\* The process' end abandons what its jobs hold.
LEMMA ContractExit ==
  ASSUME IInv, IInv', Exit
  PROVE  Contract!Next
  <1> DEFINE S == {p \in Payload : Held(p)}
  <1>1. UNCHANGED <<pending, dead, collected, settled, denied>>
    BY DEF Exit, cacheVars, answerVars
  <1>2. \A p \in Payload : ~(Held(p)') /\ (Queued(p)' <=> Queued(p)) /\ (Parked(p)' <=> Parked(p))
    BY <1>1, AgentAssumption DEF Exit, Held, Queued, Parked
  <1>3. \A p \in S : StageMap[p] = "inFlight" /\ StageMap'[p] = "gone"
    <2> SUFFICES ASSUME NEW p \in S PROVE StageMap[p] = "inFlight" /\ StageMap'[p] = "gone"
      OBVIOUS
    <2>1. StageMap[p] = "inFlight" /\ ~Queued(p) /\ ~Parked(p) /\ p \in collected
      BY StageIs DEF StageMap, IInv, SinglePlace
    <2>2. QED
      BY <1>1, <1>2, <2>1 DEF StageMap, StageOf
  <1>4. \A p \in Payload \ S : StageMap'[p] = StageMap[p]
    BY <1>1, <1>2 DEF StageMap, StageOf
  <1>5. StageMap' = [p \in Payload |-> IF p \in S THEN "gone" ELSE StageMap[p]]
    BY <1>3, <1>4 DEF StageMap
  <1>6. S \subseteq {p \in Payload : StageMap[p] = "inFlight"}
    BY <1>3
  <1> HIDE DEF S
  <1>7. Contract!Abandon(S)
    BY <1>1, <1>5, <1>6 DEF Contract!Abandon, Contract!Move, Contract!AtStage, StageMap, answered
  <1>8. S \in SUBSET Payload
    BY DEF S
  <1>9. QED
    BY <1>7, <1>8 DEF Contract!Next

\* One row leaves the queue and nothing else moves: its payload changes stage.
LEMMA RowLeaves ==
  ASSUME IInv, IInv', NEW s \in pending, pending' = pending \ {s}, UNCHANGED <<held, collected>>,
         \A p \in Payload \ {s.payload} : Parked(p)' <=> Parked(p)
  PROVE  /\ s.payload \in Payload /\ StageMap[s.payload] = "queued"
         /\ ~(Queued(s.payload)') /\ ~(Held(s.payload)') /\ s.payload \in collected'
         /\ \A p \in Payload \ {s.payload} : StageMap'[p] = StageMap[p]
  <1>1. s.payload \in Payload /\ Queued(s.payload)
    BY DEF IInv, AgentTypeOK, CacheTypeOK, Row, Queued
  <1>2. StageMap[s.payload] = "queued" /\ s.payload \in collected /\ ~Held(s.payload)
    BY <1>1, StageIs DEF StageMap, IInv, SinglePlace
  <1>3. ~(Queued(s.payload)') /\ ~(Held(s.payload)')
    <2>1. ~(Queued(s.payload)')
      BY DEF IInv, SinglePlace, Queued
    <2>2. QED
      BY <1>2, <2>1 DEF Held
  <1>4. \A p \in Payload \ {s.payload} : (Queued(p)' <=> Queued(p)) /\ (Held(p)' <=> Held(p))
    BY DEF Queued, Held
  <1>5. \A p \in Payload \ {s.payload} : StageMap'[p] = StageMap[p]
    BY <1>4 DEF StageMap, StageOf
  <1>6. QED
    BY <1>1, <1>2, <1>3, <1>5

LEMMA ContractAck ==
  ASSUME IInv, IInv', NEW f \in FlushJob, FlushAck(f)
  PROVE  Contract!Next \/ (StageMap' = StageMap /\ answered' = answered)
  <1>1. PICK r \in batch[f] :
          /\ IsNextRow(f, r)
          /\ IF StoreOpen THEN Ack(r.id) ELSE UNCHANGED cacheVars
          /\ NextRow(f, r)
    BY DEF FlushAck
  <1>2. /\ UNCHANGED <<dead, held, collected, settled, denied>> /\ answered' = answered
        /\ flushPc[f] = "ack"
    BY <1>1 DEF FlushAck, Ack, NextRow, cacheVars, answerVars, answered
  <1>3. CASE pending' = pending
    BY <1>2, <1>3, ContractStutter
  <1>4. CASE pending' # pending
    <2>1. Ack(r.id)
      BY <1>1, <1>4 DEF cacheVars
    <2>2. PICK s \in pending : s.id = r.id
      BY <1>4, <2>1 DEF Ack
    <2>3. pending' = pending \ {s}
      BY <2>1, <2>2 DEF Ack, IInv, CacheInv, OneFate
    <2>4. s.payload = r.payload
      BY <2>2 DEF IInv, BatchKnown
    <2>5. s.payload \in answered
      BY <1>1, <1>2, <2>4 DEF IInv, AckAnswered
    <2>6. \A p \in Payload : Parked(p)' <=> Parked(p)
      BY <1>2 DEF Parked
    <2>7. /\ s.payload \in Payload /\ StageMap[s.payload] = "queued"
          /\ ~(Queued(s.payload)') /\ ~(Held(s.payload)') /\ s.payload \in collected'
          /\ \A p \in Payload \ {s.payload} : StageMap'[p] = StageMap[p]
      BY <1>2, <2>3, <2>6, RowLeaves
    <2>8. ~Parked(s.payload)
      BY <2>7 DEF IInv, SinglePlace, Queued
    <2>9. StageMap'[s.payload] = "gone"
      BY <2>6, <2>7, <2>8 DEF StageMap, StageOf
    <2>10. StageMap' = [p \in Payload |-> IF p \in {s.payload} THEN "gone" ELSE StageMap[p]]
      BY <2>7, <2>9 DEF StageMap
    <2>11. Contract!Settle(s.payload)
      BY <1>2, <2>5, <2>7, <2>10 DEF Contract!Settle, Contract!Move, StageMap
    <2>12. QED
      BY <2>7, <2>11 DEF Contract!Next
  <1>5. QED
    BY <1>3, <1>4

LEMMA ContractNack ==
  ASSUME IInv, IInv', NEW f \in FlushJob, FlushNack(f)
  PROVE  Contract!Next \/ (StageMap' = StageMap /\ answered' = answered)
  <1>1. PICK r \in batch[f] :
          /\ IF StoreOpen THEN Nack(r.id) ELSE UNCHANGED cacheVars
          /\ NextRow(f, r)
    BY DEF FlushNack
  <1>2. UNCHANGED <<held, collected, settled, denied>> /\ answered' = answered
    BY <1>1 DEF FlushNack, NextRow, answerVars, answered
  <1>3. CASE UNCHANGED cacheVars
    BY <1>2, <1>3, ContractStutter DEF cacheVars
  <1>4. CASE Nack(r.id)
    <2>1. r.id \in Nat
      BY DEF IInv, AgentTypeOK, Row
    <2>2. /\ \A q \in pending' : \E s \in pending : s.payload = q.payload
          /\ \/ dead' = dead /\ \A s \in pending : \E q \in pending' : q.payload = s.payload
             \/ \E s \in pending :
                  /\ dead' = dead \cup {[original |-> s.id, payload |-> s.payload, key |-> s.key]}
                  /\ pending' = pending \ {s}
      BY <1>4, <2>1, NackMoves DEF IInv
    <2>3. CASE dead' = dead /\ \A s \in pending : \E q \in pending' : q.payload = s.payload
      <3>1. \A p \in Payload : (Queued(p)' <=> Queued(p)) /\ (Held(p)' <=> Held(p)) /\ (Parked(p)' <=> Parked(p))
        BY <1>2, <2>2, <2>3 DEF Queued, Held, Parked
      <3>2. StageMap' = StageMap
        BY <1>2, <3>1 DEF StageMap, StageOf
      <3>3. QED
        BY <1>2, <3>2
    <2>4. ASSUME NEW s \in pending,
                 dead' = dead \cup {[original |-> s.id, payload |-> s.payload, key |-> s.key]},
                 pending' = pending \ {s}
          PROVE  Contract!Next
      <3> DEFINE d0 == [original |-> s.id, payload |-> s.payload, key |-> s.key]
      <3>a. d0.payload = s.payload /\ dead' = dead \cup {d0}
        BY <2>4
      <3> HIDE DEF d0
      <3>1. (\A p \in Payload \ {s.payload} : Parked(p)' <=> Parked(p)) /\ Parked(s.payload)'
        BY <3>a DEF Parked
      <3>2. /\ s.payload \in Payload /\ StageMap[s.payload] = "queued"
            /\ ~(Queued(s.payload)') /\ ~(Held(s.payload)') /\ s.payload \in collected'
            /\ \A p \in Payload \ {s.payload} : StageMap'[p] = StageMap[p]
        BY <1>2, <2>4, <3>1, RowLeaves
      <3>3. StageMap'[s.payload] = "parked"
        BY <3>1, <3>2 DEF StageMap, StageOf
      <3>4. StageMap' = [p \in Payload |-> IF p \in {s.payload} THEN "parked" ELSE StageMap[p]]
        BY <3>2, <3>3 DEF StageMap
      <3>5. Contract!Park(s.payload)
        BY <1>2, <3>2, <3>4 DEF Contract!Park, Contract!Move, StageMap
      <3>6. QED
        BY <3>2, <3>5 DEF Contract!Next
    <2>5. QED
      BY <2>2, <2>3, <2>4
  <1>5. QED
    BY <1>1, <1>3, <1>4

\* Every step of the agent is a step of the contract, or leaves it where it is.
LEMMA ContractStep ==
  IInv /\ IInv' /\ [Next]_vars => [Contract!Next]_<<StageMap, answered>>
  <1> SUFFICES ASSUME IInv, IInv', [Next]_vars
               PROVE  Contract!Next \/ (StageMap' = StageMap /\ answered' = answered)
    OBVIOUS
  <1>1. ASSUME NEW j \in ScanJob, Collect(j) \/ Deliver(j) \/ StorePayload(j) \/ StoreFails(j)
        PROVE  Contract!Next \/ (StageMap' = StageMap /\ answered' = answered)
    BY <1>1, ContractCollect, ContractDeliver, ContractStore, ContractStoreFails
  <1>2. ASSUME NEW f \in FlushJob, FlushPost(f)
        PROVE  Contract!Next \/ (StageMap' = StageMap /\ answered' = answered)
    <2>1. PICK r \in batch[f], o \in Outcome : Exchange(r.payload, o)
      BY <1>2 DEF FlushPost
    <2>2. r.payload \in collected /\ UNCHANGED <<pending, dead, held, collected>>
      BY <1>2 DEF FlushPost, cacheVars, IInv, BatchKnown
    <2>3. QED
      BY <2>1, <2>2, ContractAnswer
  <1>3. ASSUME NEW f \in FlushJob, FlushAck(f) \/ FlushNack(f)
        PROVE  Contract!Next \/ (StageMap' = StageMap /\ answered' = answered)
    BY <1>3, ContractAck, ContractNack
  <1>4. CASE Exit
    BY <1>4, ContractExit
  <1>5. CASE UNCHANGED <<pending, dead, held, collected, settled, denied>>
    BY <1>5, ContractStutter
  <1>6. [Next]_vars => \/ UNCHANGED <<pending, dead, held, collected, settled, denied>>
                       \/ \E j \in ScanJob : Collect(j) \/ Deliver(j) \/ StorePayload(j) \/ StoreFails(j)
                       \/ \E f \in FlushJob : FlushPost(f) \/ FlushAck(f) \/ FlushNack(f)
                       \/ Exit
    BY DEF Next, vars, cacheVars, jobVars, answerVars, ScanTimeout, FlushStart, FlushTimeout,
           Refresh, Expire, Stop, CloseStore, Start, Reopen
  <1>7. QED
    BY <1>1, <1>2, <1>3, <1>4, <1>5, <1>6

\* The agent keeps the contract.
THEOREM AgentKeepsContract == Spec => KeepsContract
  <1>1. Spec => Init /\ [][Next]_vars /\ []IInv
    BY Inductive, PTL DEF Spec
  <1>2. QED
    BY <1>1, ContractInit, ContractStep, PTL
    DEF KeepsContract, Contract!Spec, Contract!contractVars, StageMap
=============================================================================
