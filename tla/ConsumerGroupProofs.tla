------------------------ MODULE ConsumerGroupProofs -------------------------
(***************************************************************************)
(* What a consumer group promises about the records of a topic, for any    *)
(* number of members, partitions and records, and whatever fails.          *)
(*                                                                         *)
(* A commit covers a member's whole position, so that nothing is lost only *)
(* because a member commits with nothing in hand, and what is before its   *)
(* position has been seen or is in hand (PositionCovered).  The order of   *)
(* first calls needs that of every hand, an old owner's included           *)
(* (HandInOrder).                                                          *)
(***************************************************************************)
EXTENDS ConsumerGroup, WellFoundedInduction, TLAPS

-----------------------------------------------------------------------------
(* What settling a set of offsets does to the fates of one partition.      *)

LEMMA SettleIs ==
  ASSUME TypeOK, NEW p \in Partition, NEW os \in SUBSET Offset, NEW f \in Fate \ {"new"}
  PROVE  /\ Settle(p, os, f) \in [Offset -> Fate]
         /\ \A o \in Offset : Settle(p, os, f)[o] # "new" <=> o \in Seen(p) \/ o \in os
  BY DEF Settle, Seen, TypeOK, Fate

\* What lies between two positions, and the records of one partition in a set.
LEMMA BetweenIs ==
  ASSUME NEW from, NEW to, NEW p \in Partition, NEW o \in Offset
  PROVE  o \in Of(Between(from, to), p) <=> from[p] <= o /\ o < to[p]
<1>1. <<p, o>> \in Between(from, to) <=> from[p] <= o /\ o < to[p]
  BY DEF Between
<1>2. o \in Of(Between(from, to), p) <=> <<p, o>> \in Between(from, to)
  <2>1. \A r \in Between(from, to) : r = <<r[1], r[2]>>
    BY DEF Between
  <2> QED  BY <2>1 DEF Of
<1> QED  BY <1>1, <1>2

LEMMA OfIs ==
  ASSUME NEW S \in SUBSET (Partition \X Offset), NEW p
  PROVE  Of(S, p) = {o \in Offset : <<p, o>> \in S}
<1>1. \A r \in S : r = <<r[1], r[2]>> /\ r[2] \in Offset
  OBVIOUS
<1> QED  BY <1>1 DEF Of

-----------------------------------------------------------------------------
(* The steps                                                               *)

LEMMA InitIInv == ASSUME Init PROVE IInv
<1> USE ConsumerAssumption
<1>1. TypeOK
  BY DEF Init, TypeOK, Fate, Offset, Running
<1>2. CommittedWasSeen /\ SeenInOrder /\ PositionCovered
  BY DEF Init, CommittedWasSeen, SeenInOrder, PositionCovered, Seen, Offset
<1>3. HandInOrder
  BY DEF Init, HandInOrder, Of
<1> QED  BY <1>1, <1>2, <1>3 DEF IInv

LEMMA ProduceKeeps == ASSUME IInv, NEW p \in Partition, Produce(p) PROVE IInv'
<1>1. /\ end' = [end EXCEPT ![p] = @ + 1] /\ end[p] < MaxRecords
      /\ UNCHANGED <<committed, owner, position, proc, pc, hand, commitErr, fate>>
  BY DEF Produce, memberVars
<1>2. TypeOK'
  BY <1>1, ConsumerAssumption DEF IInv, TypeOK, Running
<1> QED  BY <1>1, <1>2 DEF IInv, CommittedWasSeen, SeenInOrder, PositionCovered, HandInOrder, Seen

\* A new owner starts at the committed offset, all before which has been seen.
LEMMA AssignKeeps == ASSUME IInv, NEW p \in Partition, NEW m \in Member, Assign(p, m) PROVE IInv'
<1>1. /\ owner' = [owner EXCEPT ![p] = m] /\ position' = [position EXCEPT ![p] = committed[p]]
      /\ UNCHANGED <<end, committed, proc, pc, hand, commitErr, fate>>
  BY DEF Assign, logVars, memberVars
<1>2. TypeOK'
  BY <1>1, ConsumerAssumption DEF IInv, TypeOK, Running
<1>3. CommittedWasSeen' /\ SeenInOrder' /\ HandInOrder'
  BY <1>1 DEF IInv, CommittedWasSeen, SeenInOrder, HandInOrder, Seen
<1>4. PositionCovered'
  BY <1>1 DEF IInv, TypeOK, CommittedWasSeen, PositionCovered, Seen
<1> QED  BY <1>2, <1>3, <1>4 DEF IInv

\* What a fetch returns begins where the position was, and a member that polls has
\* nothing in hand.
LEMMA PollKeeps == ASSUME IInv, NEW m \in Member, Poll(m) PROVE IInv'
<1>1. /\ proc[m] = "up" /\ pc[m] = "poll" /\ hand[m] = {}
      /\ pc' = [pc EXCEPT ![m] = "handle"] /\ commitErr' = [commitErr EXCEPT ![m] = FALSE]
      /\ UNCHANGED <<end, committed, owner, proc, fate>>
  BY DEF Poll, Polling, logVars, IInv, TypeOK
<1>2. PICK to \in [Partition -> 0..MaxRecords] :
        /\ Fetched(m, to) /\ position' = to
        /\ hand' = [hand EXCEPT ![m] = Between(position, to)]
  BY DEF Poll
<1> DEFINE new == Between(position, to)
<1>3. new \subseteq Partition \X Offset
  BY DEF Between
<1>4. \A p \in Partition : /\ position[p] <= to[p] /\ to[p] <= end[p]
                           /\ owner[p] # m => to[p] = position[p]
  BY <1>2, ConsumerAssumption DEF Fetched, IInv, TypeOK
<1>5. TypeOK'
  <2>1. hand' \in [Member -> SUBSET (Partition \X Offset)] /\ hand'[m] = new
        /\ \A l \in Member \ {m} : hand'[l] = hand[l]
    BY <1>2, <1>3 DEF IInv, TypeOK
  <2>2. \A p \in Partition : committed[p] <= to[p] /\ to[p] <= end[p]
    BY <1>2, <1>4, ConsumerAssumption DEF IInv, TypeOK
  <2>3. pc' \in [Member -> {"poll", "handle"}] /\ commitErr' \in [Member -> BOOLEAN]
    BY <1>1 DEF IInv, TypeOK
  <2>4. \A l \in Member : hand'[l] # {} => Running(l)' /\ pc'[l] = "handle"
    BY <1>1, <2>1 DEF IInv, TypeOK, Running
  <2> HIDE DEF new
  <2> QED  BY <1>1, <1>2, <2>1, <2>2, <2>3, <2>4 DEF IInv, TypeOK
<1>6. CommittedWasSeen' /\ SeenInOrder'
  BY <1>1 DEF IInv, CommittedWasSeen, SeenInOrder, Seen
<1>7. PositionCovered'
  <2> SUFFICES ASSUME NEW p \in Partition, owner[p] # Nobody, NEW o \in Offset, o < to[p]
               PROVE  o \in Seen(p) \/ <<p, o>> \in hand'[owner[p]]
    BY <1>1, <1>2 DEF PositionCovered, Seen
  <2>1. CASE owner[p] # m
    BY <1>2, <1>4, <2>1 DEF IInv, TypeOK, PositionCovered
  <2>2. CASE owner[p] = m /\ o < position[p]
    BY <1>1, <2>2 DEF IInv, PositionCovered
  <2>3. CASE owner[p] = m /\ ~(o < position[p])
    <3>1. position[p] <= o
      BY <2>3 DEF IInv, TypeOK, Offset
    <3>2. <<p, o>> \in new
      BY <3>1 DEF Between
    <3> QED  BY <1>2, <2>3, <3>2 DEF IInv, TypeOK
  <2> QED  BY <2>1, <2>2, <2>3
<1>8. HandInOrder'
  <2> SUFFICES ASSUME NEW l \in Member, NEW p \in Partition, NEW o \in Of(hand'[l], p), NEW q \in 0..o
               PROVE  q \in Seen(p) \/ <<p, q>> \in hand'[l]
    BY <1>1 DEF HandInOrder, Seen
  <2>1. CASE l # m
    BY <1>2, <2>1 DEF IInv, TypeOK, HandInOrder
  <2>2. CASE l = m
    <3>1. hand'[m] = new
      BY <1>2 DEF IInv, TypeOK
    <3>2. o \in Offset
      <4>1. Of(new, p) = {x \in Offset : <<p, x>> \in new}
        BY <1>3, OfIs
      <4> QED  BY <2>2, <3>1, <4>1
    <3>3. position[p] <= o /\ o < to[p]
      BY <2>2, <3>1, <3>2, BetweenIs
    <3>4. q \in Offset /\ q < to[p]
      BY <3>2, <3>3, ConsumerAssumption DEF Offset
    <3>5. owner[p] = m
      BY <1>4, <3>2, <3>3 DEF IInv, TypeOK, Offset
    <3> QED  BY <1>1, <1>2, <1>7, <2>2, <3>4, <3>5, ConsumerAssumption DEF PositionCovered, Seen
  <2> QED  BY <2>1, <2>2
<1> QED  BY <1>5, <1>6, <1>7, <1>8 DEF IInv

\* What is dropped with an error counts as seen; nothing else changes.
LEMMA PollErrorKeeps == ASSUME IInv, NEW m \in Member, PollError(m) PROVE IInv'
<1>1. /\ proc[m] = "up" /\ pc[m] = "poll" /\ hand[m] = {}
      /\ commitErr' = [commitErr EXCEPT ![m] = TRUE]
      /\ UNCHANGED <<end, committed, owner, proc, pc, hand>>
  BY DEF PollError, Polling, logVars, IInv, TypeOK
<1>2. PICK to \in [Partition -> 0..MaxRecords] :
        /\ Fetched(m, to) /\ position' = to
        /\ fate' = [p \in Partition |-> Settle(p, Of(Between(position, to), p), "skipped")]
  BY DEF PollError
<1>3. \A p \in Partition : /\ position[p] <= to[p] /\ to[p] <= end[p]
                           /\ owner[p] # m => to[p] = position[p]
  BY <1>2, ConsumerAssumption DEF Fetched, IInv, TypeOK
<1>4. ASSUME NEW p \in Partition
      PROVE  /\ fate'[p] \in [Offset -> Fate]
             /\ \A o \in Offset : o \in Seen(p)' <=> o \in Seen(p) \/ (position[p] <= o /\ o < to[p])
  <2> DEFINE os == Of(Between(position, to), p)
  <2>1. os = {o \in Offset : <<p, o>> \in Between(position, to)}
    <3>1. Between(position, to) \subseteq Partition \X Offset
      BY DEF Between
    <3> QED  BY <3>1, OfIs
  <2>2. fate'[p] = Settle(p, os, "skipped")
    BY <1>2
  <2>3. \A o \in Offset : o \in os <=> position[p] <= o /\ o < to[p]
    BY BetweenIs
  <2>4. os \in SUBSET Offset /\ "skipped" \in Fate \ {"new"}
    BY <2>1 DEF Fate
  <2> HIDE DEF os
  <2>5. /\ fate'[p] \in [Offset -> Fate]
        /\ \A o \in Offset : fate'[p][o] # "new" <=> o \in Seen(p) \/ o \in os
    BY <2>2, <2>4, SettleIs DEF IInv
  <2> QED  BY <2>3, <2>5 DEF Seen
<1>5. TypeOK'
  <2>1. fate' \in [Partition -> [Offset -> Fate]]
    BY <1>2, <1>4
  <2>2. \A p \in Partition : committed[p] <= to[p] /\ to[p] <= end[p]
    BY <1>3, ConsumerAssumption DEF IInv, TypeOK
  <2> QED  BY <1>1, <1>2, <2>1, <2>2 DEF IInv, TypeOK, Running
<1>6. CommittedWasSeen' /\ HandInOrder'
  <2>1. \A p \in Partition : Seen(p) \subseteq Seen(p)'
    BY <1>4 DEF Seen
  <2> QED  BY <1>1, <2>1 DEF IInv, CommittedWasSeen, HandInOrder
<1>7. PositionCovered'
  <2> SUFFICES ASSUME NEW p \in Partition, owner[p] # Nobody, NEW o \in Offset, o < to[p]
               PROVE  o \in Seen(p)' \/ <<p, o>> \in hand[owner[p]]
    BY <1>1, <1>2 DEF PositionCovered
  <2>1. CASE o < position[p]
    BY <1>4, <2>1 DEF IInv, PositionCovered
  <2>2. CASE ~(o < position[p])
    BY <1>4, <2>2 DEF IInv, TypeOK, Offset
  <2> QED  BY <2>1, <2>2
<1>8. SeenInOrder'
  <2> SUFFICES ASSUME NEW p \in Partition, NEW o \in Seen(p)', NEW q \in 0..o
               PROVE  q \in Seen(p)'
    BY DEF SeenInOrder
  <2>1. o \in Offset /\ q \in Offset
    BY ConsumerAssumption DEF Seen, Offset
  <2>2. CASE o \in Seen(p)
    BY <1>4, <2>1, <2>2 DEF IInv, SeenInOrder
  <2>3. CASE position[p] <= o /\ o < to[p]
    <3>1. owner[p] = m /\ q < to[p]
      BY <1>3, <2>1, <2>3 DEF IInv, TypeOK, Offset
    <3>2. m # Nobody
      BY ConsumerAssumption
    <3> QED  BY <1>1, <1>2, <1>7, <2>1, <3>1, <3>2 DEF PositionCovered
  <2> QED  BY <1>4, <2>1, <2>2, <2>3
<1> QED  BY <1>5, <1>6, <1>7, <1>8 DEF IInv

\* One record goes from the hand to what has been seen, the first of its partition.
LEMMA HandleKeeps == ASSUME IInv, NEW m \in Member, Handle(m) PROVE IInv'
<1>1. /\ Running(m) /\ pc[m] = "handle" /\ UNCHANGED <<end, committed, owner, position, proc, pc>>
  BY DEF Handle, logVars
<1>2. PICK p \in Partition, o \in Offset :
        /\ IsNext(m, p, o)
        /\ hand' = [hand EXCEPT ![m] = @ \ {<<p, o>>}]
        /\ \/ fate' = [fate EXCEPT ![p] = Settle(p, {o}, "handled")]
           \/ fate' = [fate EXCEPT ![p] = Settle(p, {o}, "failed")]
        /\ commitErr' \in {commitErr, [commitErr EXCEPT ![m] = TRUE]}
  BY DEF Handle
<1>3. PICK settled \in [Offset -> Fate] :
        /\ fate' = [fate EXCEPT ![p] = settled]
        /\ \A x \in Offset : settled[x] # "new" <=> x \in Seen(p) \/ x = o
  <2>1. ASSUME NEW f \in {"handled", "failed"}
        PROVE  /\ Settle(p, {o}, f) \in [Offset -> Fate]
               /\ \A x \in Offset : Settle(p, {o}, f)[x] # "new" <=> x \in Seen(p) \/ x = o
    <3>1. {o} \in SUBSET Offset /\ f \in Fate \ {"new"}
      BY DEF Fate
    <3> QED  BY <3>1, SettleIs DEF IInv
  <2> QED  BY <1>2, <2>1
<1>4. \A r \in Partition : Seen(r)' = IF r = p THEN Seen(r) \cup {o} ELSE Seen(r)
  BY <1>3 DEF IInv, TypeOK, Seen
<1>5. /\ hand'[m] = hand[m] \ {<<p, o>>} /\ \A l \in Member \ {m} : hand'[l] = hand[l]
      /\ hand' \in [Member -> SUBSET (Partition \X Offset)]
  BY <1>2 DEF IInv, TypeOK
<1>6. TypeOK'
  <2>1. commitErr' \in [Member -> BOOLEAN]
    BY <1>2 DEF IInv, TypeOK
  <2>2. fate' \in [Partition -> [Offset -> Fate]]
    BY <1>3 DEF IInv, TypeOK
  <2> QED  BY <1>1, <1>5, <2>1, <2>2 DEF IInv, TypeOK, Running
<1>7. CommittedWasSeen' /\ PositionCovered'
  <2>1. CommittedWasSeen'
    BY <1>1, <1>4 DEF IInv, CommittedWasSeen
  <2>2. ASSUME NEW r \in Partition, owner[r] # Nobody, NEW x \in Offset, x < position[r]
        PROVE  x \in Seen(r)' \/ <<r, x>> \in hand'[owner[r]]
    <3>1. owner[r] \in Member
      BY <2>2 DEF IInv, TypeOK
    <3>2. x \in Seen(r) \/ <<r, x>> \in hand[owner[r]]
      BY <2>2 DEF IInv, PositionCovered
    <3> QED  BY <1>4, <1>5, <3>1, <3>2
  <2> QED  BY <1>1, <2>1, <2>2 DEF PositionCovered
<1>8. SeenInOrder'
  <2> SUFFICES ASSUME NEW q \in 0..o, q # o PROVE q \in Seen(p)
    BY <1>4 DEF IInv, SeenInOrder
  <2>1. Of(hand[m], p) = {x \in Offset : <<p, x>> \in hand[m]}
    BY OfIs DEF IInv, TypeOK
  <2>2. q \in Offset /\ q < o
    BY ConsumerAssumption DEF Offset
  <2>3. <<p, q>> \notin hand[m]
    BY <1>2, <2>1, <2>2 DEF IsNext, Offset
  <2>4. o \in Of(hand[m], p)
    BY <1>2, <2>1 DEF IsNext
  <2> QED  BY <2>3, <2>4 DEF IInv, HandInOrder
<1>9. HandInOrder'
  <2> SUFFICES ASSUME NEW l \in Member, NEW r \in Partition, NEW x \in Of(hand'[l], r), NEW q \in 0..x
               PROVE  q \in Seen(r)' \/ <<r, q>> \in hand'[l]
    BY DEF HandInOrder
  <2>1. x \in Of(hand[l], r)
    BY <1>5 DEF Of
  <2>2. q \in Seen(r) \/ <<r, q>> \in hand[l]
    BY <2>1 DEF IInv, HandInOrder
  <2> QED  BY <1>4, <1>5, <2>2
<1> QED  BY <1>6, <1>7, <1>8, <1>9 DEF IInv

\* A member that has nothing in hand commits what it has seen.
LEMMA CommitKeeps == ASSUME IInv, NEW m \in Member, Commit(m) PROVE IInv'
<1>1. /\ RoundDone(m) /\ pc' = [pc EXCEPT ![m] = "poll"]
      /\ committed' = [p \in Partition |-> IF p \in Owned(m) THEN position[p] ELSE committed[p]]
      /\ UNCHANGED <<end, owner, position, proc, hand, commitErr, fate>>
  BY DEF Commit
<1>2. TypeOK'
  BY <1>1, ConsumerAssumption DEF IInv, TypeOK, Running, RoundDone
<1>3. CommittedWasSeen'
  <2>1. \A p \in Owned(m), o \in Offset : o < position[p] => o \in Seen(p)
    BY <1>1, ConsumerAssumption DEF IInv, PositionCovered, Owned, RoundDone
  <2> QED  BY <1>1, <2>1 DEF IInv, CommittedWasSeen, Seen
<1>4. SeenInOrder' /\ PositionCovered' /\ HandInOrder'
  BY <1>1 DEF IInv, SeenInOrder, PositionCovered, HandInOrder, Seen
<1> QED  BY <1>2, <1>3, <1>4 DEF IInv

\* The end of a round, the signal and the start of a process touch no record.
LEMMA QuietKeeps ==
  ASSUME IInv, NEW m \in Member, EndRound(m) \/ Cancel(m) \/ Start(m) PROVE IInv'
<1>1. UNCHANGED <<end, committed, owner, position, hand, fate>>
  BY DEF EndRound, Cancel, Start, logVars
<1>2. TypeOK'
  <2>1. CASE EndRound(m)
    BY <2>1 DEF IInv, TypeOK, EndRound, RoundDone, Running, logVars
  <2>2. CASE Cancel(m)
    BY <2>2 DEF IInv, TypeOK, Cancel, Running, logVars
  <2>3. CASE Start(m)
    BY <2>3 DEF IInv, TypeOK, Start, Running, logVars
  <2> QED  BY <2>1, <2>2, <2>3
<1>3. CommittedWasSeen' /\ SeenInOrder' /\ PositionCovered' /\ HandInOrder'
  BY <1>1 DEF IInv, CommittedWasSeen, SeenInOrder, PositionCovered, HandInOrder, Seen
<1> QED  BY <1>2, <1>3 DEF IInv

\* A member that goes takes its hand with it, and its partitions have no owner then.
LEMMA GoneKeeps == ASSUME IInv, NEW m \in Member, Leave(m) \/ Crash(m) PROVE IInv'
<1>1. /\ proc' = [proc EXCEPT ![m] = "down"] /\ pc' = [pc EXCEPT ![m] = "poll"]
      /\ hand' = [hand EXCEPT ![m] = {}]
      /\ owner' = [p \in Partition |-> IF owner[p] = m THEN Nobody ELSE owner[p]]
      /\ UNCHANGED <<end, committed, position, commitErr, fate>>
  BY DEF Leave, Crash, Gone, logVars
<1>2. TypeOK'
  BY <1>1 DEF IInv, TypeOK, Running
<1>3. CommittedWasSeen' /\ SeenInOrder'
  BY <1>1 DEF IInv, CommittedWasSeen, SeenInOrder, Seen
<1>4. PositionCovered'
  BY <1>1 DEF IInv, TypeOK, PositionCovered, Seen
<1>5. HandInOrder'
  <2>1. \A l \in Member : hand'[l] = hand[l] \/ hand'[l] = {}
    BY <1>1 DEF IInv, TypeOK
  <2> QED  BY <1>1, <2>1 DEF IInv, HandInOrder, Seen, Of
<1> QED  BY <1>2, <1>3, <1>4, <1>5 DEF IInv

LEMMA NextKeeps == IInv /\ [Next]_vars => IInv'
<1> SUFFICES ASSUME IInv, [Next]_vars PROVE IInv'
  OBVIOUS
<1>1. CASE UNCHANGED vars
  BY <1>1 DEF vars, logVars, memberVars, IInv, TypeOK, Running, CommittedWasSeen, SeenInOrder,
              PositionCovered, HandInOrder, Seen
<1> QED  BY <1>1, ProduceKeeps, AssignKeeps, PollKeeps, PollErrorKeeps, HandleKeeps, CommitKeeps,
            QuietKeeps, GoneKeeps DEF Next

LEMMA Inductive == Spec => []IInv
  BY InitIInv, NextKeeps, PTL DEF Spec

-----------------------------------------------------------------------------

\* Every variable keeps its type; no offset is committed that was not fetched, and
\* none fetched that was not produced.
THEOREM TypeCorrect == Spec => []TypeOK
<1>1. IInv => TypeOK
  BY DEF IInv
<1> QED  BY <1>1, Inductive, PTL

\* No crash, shutdown, rebalance or failed call makes the group commit past a record
\* that no handler was given, other than one dropped with an error.
THEOREM NoRecordLost == Spec => []CommittedWasSeen
<1>1. IInv => CommittedWasSeen
  BY DEF IInv
<1> QED  BY <1>1, Inductive, PTL

\* Records of a partition come to the handlers for the first time in the log's order.
THEOREM FirstCallsInOrder == Spec => []SeenInOrder
<1>1. IInv => SeenInOrder
  BY DEF IInv
<1> QED  BY <1>1, Inductive, PTL
-----------------------------------------------------------------------------
(* ConsumerGroup implements LogContract.                                   *)

LEMMA LeastOf ==
  ASSUME NEW T \in SUBSET Nat, T # {}
  PROVE  \E n \in T : \A m \in T : n <= m
<1> DEFINE R == OpToRel(<, Nat)
<1>1. IsWellFoundedOn(R, Nat)
  BY NatLessThanWellFounded
<1>2. \A m, n \in Nat : m < n => <<m, n>> \in R
  BY DEF OpToRel
<1> HIDE DEF R
<1>3. PICK n \in T : \A m \in T : ~(<<m, n>> \in R)
  BY <1>1, WFMin
<1>4. \A m \in T : ~(m < n)
  BY <1>2, <1>3, Zenon
<1> QED  BY <1>4

\* A set of offsets without gaps is the one up to its UpTo.
LEMMA UpToIs ==
  ASSUME NEW S \in SUBSET Offset, \A o \in S : \A q \in 0..o : q \in S
  PROVE  UpTo(S) \in 0..MaxRecords /\ \A o \in Offset : o \in S <=> o < UpTo(S)
<1> USE ConsumerAssumption DEF Offset
<1> DEFINE T == {n \in 0..MaxRecords : n = MaxRecords \/ n \notin S}
<1>1. T \in SUBSET Nat /\ MaxRecords \in T
  OBVIOUS
<1>2. PICK n \in T : \A m \in T : n <= m
  BY <1>1, LeastOf
<1>3. (\A o \in Offset : o < n => o \in S) /\ (n < MaxRecords => n \notin S)
  BY <1>2
<1>4. \E k \in 0..MaxRecords : (\A o \in Offset : o < k => o \in S) /\ (k < MaxRecords => k \notin S)
  BY <1>2, <1>3
<1> DEFINE u == UpTo(S)
<1>5. u \in 0..MaxRecords /\ (\A o \in Offset : o < u => o \in S) /\ (u < MaxRecords => u \notin S)
  BY <1>4 DEF UpTo
<1> HIDE DEF u
<1>6. ASSUME NEW o \in Offset, o \in S PROVE o < u
  <2> SUFFICES ASSUME u <= o PROVE FALSE
    BY <1>5
  <2>1. u \in 0..o /\ u < MaxRecords
    BY <1>5
  <2> QED  BY <1>5, <1>6, <2>1
<1> QED  BY <1>5, <1>6 DEF u

LEMMA UpToOf ==
  ASSUME NEW n \in 0..MaxRecords, NEW S \in SUBSET Offset, \A o \in Offset : o \in S <=> o < n
  PROVE  UpTo(S) = n
<1> USE ConsumerAssumption DEF Offset
<1>1. \A o \in S : \A q \in 0..o : q \in S
  OBVIOUS
<1>2. UpTo(S) \in 0..MaxRecords /\ \A o \in Offset : o \in S <=> o < UpTo(S)
  BY <1>1, UpToIs
<1> HIDE DEF Offset
<1>3. CASE UpTo(S) < n
  BY <1>2, <1>3 DEF Offset
<1>4. CASE n < UpTo(S)
  BY <1>2, <1>4 DEF Offset
<1> QED  BY <1>2, <1>3, <1>4

\* In a state of the invariant, the records of a partition that have been seen.
LEMMA SeenIs ==
  ASSUME IInv, NEW p \in Partition
  PROVE  /\ UpTo(Seen(p)) \in 0..MaxRecords
         /\ \A o \in Offset : o \in Seen(p) <=> o < UpTo(Seen(p))
         /\ committed[p] <= UpTo(Seen(p))
         /\ OnlyProduced => UpTo(Seen(p)) <= end[p]
<1>1. Seen(p) \in SUBSET Offset
  BY DEF Seen
<1>2. UpTo(Seen(p)) \in 0..MaxRecords /\ \A o \in Offset : o \in Seen(p) <=> o < UpTo(Seen(p))
  BY <1>1, UpToIs DEF IInv, SeenInOrder
<1> DEFINE u == UpTo(Seen(p))
<1> HIDE DEF u
<1>3. committed[p] \in 0..MaxRecords /\ end[p] \in 0..MaxRecords
  BY DEF IInv, TypeOK
<1>4. ASSUME u < committed[p] PROVE FALSE
  <2>1. u \in Offset /\ u \notin Seen(p)
    BY <1>2, <1>3, <1>4, ConsumerAssumption DEF u, Offset
  <2> QED  BY <1>4, <2>1 DEF IInv, CommittedWasSeen
<1>5. ASSUME OnlyProduced, end[p] < u PROVE FALSE
  <2>1. end[p] \in Offset /\ end[p] \in Seen(p)
    BY <1>2, <1>3, <1>5, ConsumerAssumption DEF u, Offset
  <2> QED  BY <1>3, <1>5, <2>1 DEF OnlyProduced
<1> QED  BY <1>2, <1>3, <1>4, <1>5, ConsumerAssumption DEF u

\* A step changes what is seen of some partitions, to what UpTo says of them.
LEMMA SeenGrows ==
  ASSUME IInv, IInv', UNCHANGED end, OnlyProduced',
         \A p \in Partition : Seen(p) \subseteq Seen(p)'
  PROVE  /\ [p \in Partition |-> UpTo(Seen(p)')] \in [Partition -> Nat]
         /\ \A p \in Partition : UpTo(Seen(p)) <= UpTo(Seen(p)') /\ UpTo(Seen(p)') <= end[p]
<1> SUFFICES ASSUME NEW p \in Partition
             PROVE  /\ UpTo(Seen(p)') \in 0..MaxRecords
                    /\ UpTo(Seen(p)) <= UpTo(Seen(p)') /\ UpTo(Seen(p)') <= end[p]
  BY ConsumerAssumption
<1> DEFINE S == Seen(p)
           T == Seen(p)'
           u == UpTo(S)
           v == UpTo(T)
<1>1. S \in SUBSET Offset /\ T \in SUBSET Offset /\ S \subseteq T
  BY DEF Seen
<1>2. u \in 0..MaxRecords /\ \A o \in Offset : o \in S <=> o < u
  BY SeenIs
<1>3. \A o \in T : o < end[p]
  BY DEF OnlyProduced
<1>4. \A o \in T : \A q \in 0..o : q \in T
  BY DEF IInv, SeenInOrder
<1> HIDE DEF S, T, u, v
<1>5. v \in 0..MaxRecords /\ \A o \in Offset : o \in T <=> o < v
  BY <1>1, <1>4, UpToIs DEF v
<1>6. ASSUME v < u PROVE FALSE
  <2>1. v \in Offset /\ v \in S
    BY <1>2, <1>5, <1>6, ConsumerAssumption DEF Offset
  <2> QED  BY <1>1, <1>5, <2>1
<1>7. end[p] \in 0..MaxRecords
  BY DEF IInv, TypeOK
<1>8. ASSUME end[p] < v PROVE FALSE
  <2>1. end[p] \in Offset /\ end[p] \in T
    BY <1>5, <1>7, <1>8, ConsumerAssumption DEF Offset
  <2> QED  BY <1>3, <1>7, <2>1
<1> QED  BY <1>2, <1>5, <1>6, <1>7, <1>8, ConsumerAssumption DEF S, T, u, v

-----------------------------------------------------------------------------
(* Nothing is seen or in hand that was not produced.                       *)

LEMMA OfOffsets ==
  ASSUME NEW S \in SUBSET (Partition \X Offset), NEW p
  PROVE  Of(S, p) \subseteq Offset
BY DEF Of

LEMMA InitProduced == ASSUME Init PROVE OnlyProduced
BY DEF Init, OnlyProduced, Seen, Of

LEMMA PollErrorSees ==
  ASSUME IInv, NEW m \in Member, PollError(m), NEW p \in Partition
  PROVE  /\ Seen(p) \subseteq Seen(p)' /\ \A o \in Seen(p)' : o \in Seen(p) \/ o < end[p]
         /\ \A o \in Offset : fate'[p][o] = "handled" <=> fate[p][o] = "handled"
<1>1. PICK to \in [Partition -> 0..MaxRecords] :
        /\ Fetched(m, to) /\ position' = to
        /\ fate' = [x \in Partition |-> Settle(x, Of(Between(position, to), x), "skipped")]
  BY DEF PollError
<1> DEFINE os == Of(Between(position, to), p)
<1>2. to[p] <= end[p]
  BY <1>1, ConsumerAssumption DEF Fetched, IInv, TypeOK
<1>3. \A o \in Offset : o \in os => o < end[p]
  BY <1>1, <1>2, BetweenIs, ConsumerAssumption DEF Offset, IInv, TypeOK
<1>4. fate'[p] = Settle(p, os, "skipped")
  BY <1>1
<1> HIDE DEF os
<1> QED  BY <1>3, <1>4 DEF Settle, Seen

\* The record that Handle takes, and what becomes of it.
LEMMA HandleSees ==
  ASSUME IInv, NEW m \in Member, Handle(m)
  PROVE  \E p \in Partition, o \in Offset :
           /\ <<p, o>> \in hand[m] /\ \A q \in 0..o : q # o => q \in Seen(p)
           /\ \A r \in Partition : Seen(r)' = IF r = p THEN Seen(r) \cup {o} ELSE Seen(r)
           /\ \A r \in Partition, x \in Offset : r # p \/ x # o =>
                (fate'[r][x] = "handled" <=> fate[r][x] = "handled")
           /\ fate[p][o] = "handled" => fate'[p][o] = "handled"
           /\ hand' = [hand EXCEPT ![m] = @ \ {<<p, o>>}]
<1>1. PICK p \in Partition, o \in Offset :
        /\ IsNext(m, p, o)
        /\ hand' = [hand EXCEPT ![m] = @ \ {<<p, o>>}]
        /\ \/ fate' = [fate EXCEPT ![p] = Settle(p, {o}, "handled")]
           \/ fate' = [fate EXCEPT ![p] = Settle(p, {o}, "failed")]
  BY DEF Handle
<1>2. PICK f \in {"handled", "failed"} : fate' = [fate EXCEPT ![p] = Settle(p, {o}, f)]
  BY <1>1
<1>3. \A x \in Offset : Settle(p, {o}, f)[x] = IF x = o /\ fate[p][x] # "handled" THEN f ELSE fate[p][x]
  BY DEF Settle
<1>4. \A r \in Partition : fate'[r] = IF r = p THEN Settle(p, {o}, f) ELSE fate[r]
  BY <1>2 DEF IInv, TypeOK
<1>5. \A r \in Partition : Seen(r)' = IF r = p THEN Seen(r) \cup {o} ELSE Seen(r)
  BY <1>3, <1>4 DEF Seen
<1>6. \A q \in 0..o : q # o => q \in Seen(p)
  <2> SUFFICES ASSUME NEW q \in 0..o, q # o PROVE q \in Seen(p)
    OBVIOUS
  <2>1. Of(hand[m], p) = {x \in Offset : <<p, x>> \in hand[m]}
    BY OfIs DEF IInv, TypeOK
  <2>2. q \in Offset /\ q < o
    BY ConsumerAssumption DEF Offset
  <2>3. <<p, q>> \notin hand[m]
    BY <1>1, <2>1, <2>2 DEF IsNext, Offset
  <2>4. o \in Of(hand[m], p)
    BY <1>1, <2>1 DEF IsNext
  <2> QED  BY <2>3, <2>4 DEF IInv, HandInOrder
<1>7. \A r \in Partition, x \in Offset : r # p \/ x # o =>
        (fate'[r][x] = "handled" <=> fate[r][x] = "handled")
  BY <1>3, <1>4
<1>8. fate[p][o] = "handled" => fate'[p][o] = "handled"
  BY <1>3, <1>4
<1> QED  BY <1>1, <1>5, <1>6, <1>7, <1>8 DEF IsNext

LEMMA ProducedKept ==
  ASSUME IInv, IInv', OnlyProduced, [Next]_vars
  PROVE  OnlyProduced'
<1>1. ASSUME NEW p \in Partition, Produce(p) PROVE OnlyProduced'
  <2>1. UNCHANGED <<hand, fate>> /\ end' = [end EXCEPT ![p] = @ + 1]
    BY <1>1 DEF Produce, memberVars
  <2>2. \A r \in Partition : end[r] \in Nat /\ end'[r] \in Nat /\ end[r] <= end'[r]
    BY <2>1, ConsumerAssumption DEF IInv, TypeOK
  <2>3. \A r \in Partition : Seen(r)' = Seen(r) /\ Seen(r) \subseteq Nat
    BY <2>1, ConsumerAssumption DEF Seen, Offset
  <2>4. \A r \in Partition, l \in Member : Of(hand'[l], r) = Of(hand[l], r) /\ Of(hand[l], r) \subseteq Nat
    <3>1. \A r \in Partition, l \in Member : Of(hand[l], r) \subseteq Offset
      BY OfOffsets DEF IInv, TypeOK
    <3> QED  BY <2>1, <3>1, ConsumerAssumption DEF Offset
  <2> QED  BY <2>2, <2>3, <2>4 DEF OnlyProduced
<1>2. ASSUME NEW m \in Member, Poll(m) PROVE OnlyProduced'
  <2>1. UNCHANGED <<end, fate>>
    BY <1>2 DEF Poll, logVars
  <2>2. PICK to \in [Partition -> 0..MaxRecords] :
          Fetched(m, to) /\ hand' = [hand EXCEPT ![m] = Between(position, to)]
    BY <1>2 DEF Poll
  <2>3. \A p \in Partition : to[p] <= end[p] /\ end[p] \in Nat /\ to[p] \in Nat
    BY <2>2, ConsumerAssumption DEF Fetched, IInv, TypeOK
  <2>4. \A p \in Partition : \A o \in Of(Between(position, to), p) : o < end[p]
    <3>1. Between(position, to) \subseteq Partition \X Offset
      BY DEF Between
    <3>2. \A p \in Partition : Of(Between(position, to), p) \subseteq Offset
      BY <3>1, OfOffsets
    <3> QED  BY <2>3, <3>2, BetweenIs, ConsumerAssumption DEF Offset
  <2>5. \A l \in Member : hand'[l] = IF l = m THEN Between(position, to) ELSE hand[l]
    BY <2>2 DEF IInv, TypeOK
  <2> QED  BY <2>1, <2>4, <2>5 DEF OnlyProduced, Seen
<1>3. ASSUME NEW m \in Member, PollError(m) PROVE OnlyProduced'
  <2>1. UNCHANGED <<end, hand>>
    BY <1>3 DEF PollError, logVars
  <2> QED  BY <1>3, <2>1, PollErrorSees DEF OnlyProduced
<1>4. ASSUME NEW m \in Member, Handle(m) PROVE OnlyProduced'
  <2>1. UNCHANGED end
    BY <1>4 DEF Handle, logVars
  <2>2. PICK p \in Partition, o \in Offset :
          /\ <<p, o>> \in hand[m]
          /\ \A r \in Partition : Seen(r)' = IF r = p THEN Seen(r) \cup {o} ELSE Seen(r)
          /\ hand' = [hand EXCEPT ![m] = @ \ {<<p, o>>}]
    BY <1>4, HandleSees
  <2>3. o < end[p]
    <3>1. o \in Of(hand[m], p)
      BY <2>2, OfIs DEF IInv, TypeOK
    <3> QED  BY <3>1 DEF OnlyProduced
  <2>4. \A l \in Member : hand'[l] \subseteq hand[l]
    BY <2>2 DEF IInv, TypeOK
  <2>5. \A r \in Partition, l \in Member : Of(hand'[l], r) \subseteq Of(hand[l], r)
    BY <2>4 DEF Of
  <2> QED  BY <2>1, <2>2, <2>3, <2>5 DEF OnlyProduced
<1>5. ASSUME NEW m \in Member, Leave(m) \/ Crash(m) PROVE OnlyProduced'
  <2>1. UNCHANGED <<end, fate>> /\ hand' = [hand EXCEPT ![m] = {}]
    BY <1>5 DEF Leave, Crash, Gone, logVars
  <2>2. \A l \in Member : hand'[l] = hand[l] \/ hand'[l] = {}
    BY <2>1 DEF IInv, TypeOK
  <2> QED  BY <2>1, <2>2 DEF OnlyProduced, Seen, Of
<1>6. ASSUME UNCHANGED <<end, hand, fate>> PROVE OnlyProduced'
  BY <1>6 DEF OnlyProduced, Seen
<1>7. ASSUME NEW m \in Member, EndRound(m) \/ Cancel(m) \/ Start(m) \/ Commit(m) \/ \E p \in Partition : Assign(p, m)
      PROVE  UNCHANGED <<end, hand, fate>>
  BY <1>7 DEF EndRound, Cancel, Start, Commit, Assign, logVars, memberVars
<1>8. UNCHANGED vars => UNCHANGED <<end, hand, fate>>
  BY DEF vars, logVars, memberVars
<1> QED  BY <1>1, <1>2, <1>3, <1>4, <1>5, <1>6, <1>7, <1>8 DEF Next

-----------------------------------------------------------------------------
(* Each step is one of the contract                                        *)

LEMMA InitLog == ASSUME Init, IInv PROVE Log!Init
<1>1. \A p \in Partition : UpTo(Seen(p)) = 0
  <2> SUFFICES ASSUME NEW p \in Partition PROVE UpTo(Seen(p)) = 0
    OBVIOUS
  <2>1. Seen(p) = {}
    BY DEF Init, Seen
  <2>2. 0 \in 0..MaxRecords /\ {} \in SUBSET Offset /\ \A o \in Offset : o \in {} <=> o < 0
    BY ConsumerAssumption DEF Offset
  <2> QED  BY <2>1, <2>2, UpToOf
<1>2. Handled = {}
  BY DEF Init, Handled
<1> QED  BY <1>1, <1>2 DEF Init, Log!Init

\* What the contract speaks of depends on three variables only.
LEMMA Unseen ==
  ASSUME UNCHANGED <<end, committed, fate>>
  PROVE  UNCHANGED Log!logContractVars
BY DEF Log!logContractVars, Seen, Handled

\* Every step of the group is one of the contract's, or none.
LEMMA StepOfLog ==
  ASSUME IInv, IInv', OnlyProduced, OnlyProduced', [Next]_vars
  PROVE  [Log!Next]_(Log!logContractVars)
<1> USE DEF Log!Next
<1>1. ASSUME NEW p \in Partition, Produce(p) PROVE Log!Produce(p)
  <2>1. UNCHANGED <<committed, fate>> /\ end' = [end EXCEPT ![p] = @ + 1]
    BY <1>1 DEF Produce, memberVars
  <2> QED  BY <2>1 DEF Log!Produce, Seen, Handled
<1>2. ASSUME NEW m \in Member, PollError(m) PROVE Log!Drop
  <2>1. UNCHANGED <<end, committed>>
    BY <1>2 DEF PollError, logVars
  <2>2. \A p \in Partition : Seen(p) \subseteq Seen(p)'
    BY <1>2, PollErrorSees
  <2>3. Handled' = Handled
    <3>1. \A r \in Partition \X Offset : fate'[r[1]][r[2]] = "handled" <=> fate[r[1]][r[2]] = "handled"
      BY <1>2, PollErrorSees
    <3> QED  BY <3>1 DEF Handled
  <2>4. /\ [p \in Partition |-> UpTo(Seen(p)')] \in [Partition -> Nat]
        /\ \A p \in Partition : UpTo(Seen(p)) <= UpTo(Seen(p)') /\ UpTo(Seen(p)') <= end[p]
    BY <2>1, <2>2, SeenGrows
  <2> QED  BY <2>1, <2>3, <2>4 DEF Log!Drop
<1>3. ASSUME NEW m \in Member, Handle(m)
      PROVE  \E p \in Partition : \E o \in 0..end[p] : Log!Call(p, o)
  <2>1. UNCHANGED <<end, committed>>
    BY <1>3 DEF Handle, logVars
  <2>2. PICK p \in Partition, o \in Offset :
          /\ <<p, o>> \in hand[m] /\ \A q \in 0..o : q # o => q \in Seen(p)
          /\ \A r \in Partition : Seen(r)' = IF r = p THEN Seen(r) \cup {o} ELSE Seen(r)
          /\ \A r \in Partition, x \in Offset : r # p \/ x # o =>
               (fate'[r][x] = "handled" <=> fate[r][x] = "handled")
          /\ fate[p][o] = "handled" => fate'[p][o] = "handled"
    BY <1>3, HandleSees
  <2>3. o < end[p] /\ end[p] \in Nat /\ o \in 0..end[p]
    <3>1. o \in Of(hand[m], p)
      BY <2>2, OfIs DEF IInv, TypeOK
    <3>2. o < end[p]
      BY <3>1 DEF OnlyProduced
    <3> QED  BY <3>2, ConsumerAssumption DEF IInv, TypeOK, Offset
  <2> DEFINE u == UpTo(Seen(p))
  <2>4. u \in 0..MaxRecords /\ \A x \in Offset : x \in Seen(p) <=> x < u
    BY SeenIs
  <2> HIDE DEF u
  <2>5. o <= u
    <3> SUFFICES ASSUME u < o PROVE FALSE
      BY <2>4, ConsumerAssumption DEF Offset
    <3>1. u \in 0..o /\ u # o /\ u \in Offset
      BY <2>4, ConsumerAssumption DEF Offset
    <3> QED  BY <2>2, <2>4, <3>1
  <2>6. UpTo(Seen(p)') = IF o = u THEN o + 1 ELSE u
    <3>1. CASE o = u
      <4>1. o + 1 \in 0..MaxRecords /\ Seen(p)' \in SUBSET Offset
        BY ConsumerAssumption DEF Offset, Seen
      <4>2. \A x \in Offset : x \in Seen(p)' <=> x < o + 1
        <5>1. \A x \in Offset : x \in Seen(p)' <=> x < u \/ x = o
          BY <2>2, <2>4
        <5> QED  BY <3>1, <5>1, ConsumerAssumption DEF Offset
      <4> QED  BY <3>1, <4>1, <4>2, UpToOf
    <3>2. CASE o # u
      <4>1. o < u
        BY <2>4, <2>5, <3>2, ConsumerAssumption DEF Offset
      <4>2. Seen(p)' = Seen(p)
        BY <2>2, <2>4, <4>1
      <4> QED  BY <3>2, <4>2 DEF u
    <3> QED  BY <3>1, <3>2
  <2> DEFINE seen == [r \in Partition |-> UpTo(Seen(r))]
             after == [r \in Partition |-> UpTo(Seen(r)')]
  <2>7. after = IF o = seen[p] THEN [seen EXCEPT ![p] = o + 1] ELSE seen
    <3>1. \A r \in Partition : r # p => UpTo(Seen(r)') = UpTo(Seen(r))
      BY <2>2
    <3>2. seen[p] = u
      BY DEF u
    <3> QED  BY <2>6, <3>1, <3>2
  <2>8. Handled' \in {Handled, Handled \cup {<<p, o>>}}
    <3>1. \A r \in Partition \X Offset : r = <<r[1], r[2]>>
      OBVIOUS
    <3>2. \A r \in Partition \X Offset : r # <<p, o>> => (r \in Handled' <=> r \in Handled)
      BY <2>2, <3>1 DEF Handled
    <3>3. <<p, o>> \in Handled => <<p, o>> \in Handled'
      BY <2>2 DEF Handled
    <3>4. Handled \subseteq Partition \X Offset /\ Handled' \subseteq Partition \X Offset
      BY DEF Handled
    <3> QED  BY <3>2, <3>3, <3>4
  <2>9. o <= seen[p]
    BY <2>5 DEF u
  <2> HIDE DEF seen, after
  <2>10. Log!Call(p, o)
    BY <2>1, <2>3, <2>7, <2>8, <2>9 DEF Log!Call, seen, after
  <2> QED  BY <2>3, <2>10
<1>4. ASSUME NEW m \in Member, Commit(m) PROVE Log!Commit
  <2>1. /\ committed' = [p \in Partition |-> IF p \in Owned(m) THEN position[p] ELSE committed[p]]
        /\ UNCHANGED <<end, fate>>
    BY <1>4 DEF Commit
  <2>2. committed' \in [Partition -> Nat]
    BY ConsumerAssumption DEF IInv, TypeOK
  <2>3. \A p \in Partition : committed[p] <= committed'[p]
    BY <2>1, ConsumerAssumption DEF IInv, TypeOK
  <2>4. \A p \in Partition : UpTo(Seen(p)') = UpTo(Seen(p))
    BY <2>1 DEF Seen
  <2>5. \A p \in Partition : committed'[p] <= UpTo(Seen(p)')
    <3> SUFFICES ASSUME NEW p \in Partition, UpTo(Seen(p)) < committed'[p] PROVE FALSE
      <4>1. \A p \in Partition : UpTo(Seen(p)) \in Nat /\ committed'[p] \in Nat
        BY <2>2, SeenIs, ConsumerAssumption
      <4> QED  BY <2>4, <4>1
    <3> DEFINE u == UpTo(Seen(p))
    <3>1. u \in 0..MaxRecords /\ \A x \in Offset : x \in Seen(p) <=> x < u
      BY SeenIs
    <3>2. Seen(p)' = Seen(p) /\ committed'[p] \in 0..MaxRecords /\ u < committed'[p]
      BY <2>1 DEF Seen, IInv, TypeOK
    <3> HIDE DEF u
    <3>3. u \in Offset
      BY <3>1, <3>2, ConsumerAssumption DEF Offset
    <3> QED  BY <3>1, <3>2, <3>3 DEF IInv, CommittedWasSeen
  <2> QED  BY <2>1, <2>2, <2>3, <2>4, <2>5 DEF Log!Commit, Handled
<1>5. ASSUME NEW m \in Member,
             \/ Poll(m) \/ EndRound(m) \/ Cancel(m) \/ Leave(m) \/ Crash(m) \/ Start(m)
             \/ \E p \in Partition : Assign(p, m)
      PROVE  UNCHANGED <<end, committed, fate>>
  BY <1>5 DEF Poll, EndRound, Cancel, Leave, Crash, Gone, Start, Assign, logVars, memberVars
<1>6. UNCHANGED vars => UNCHANGED <<end, committed, fate>>
  BY DEF vars, logVars, memberVars
<1> QED  BY <1>1, <1>2, <1>3, <1>4, <1>5, <1>6, Unseen DEF Next

LEMMA AlwaysProduced == Spec => []OnlyProduced
<1>1. Init => OnlyProduced
  BY InitProduced
<1>2. IInv /\ IInv' /\ OnlyProduced /\ [Next]_vars => OnlyProduced'
  BY ProducedKept
<1> QED  BY <1>1, <1>2, Inductive, PTL DEF Spec

\* Any number of members, however they fail, keep the contract of LogContract.
THEOREM GroupKeepsLog == Spec => KeepsLog
<1>1. Init => IInv
  BY InitIInv
<1>2. Init /\ IInv => Log!Init
  BY InitLog
<1>3. IInv /\ IInv' /\ OnlyProduced /\ OnlyProduced' /\ [Next]_vars => [Log!Next]_(Log!logContractVars)
  BY StepOfLog
<1> QED  BY <1>1, <1>2, <1>3, Inductive, AlwaysProduced, PTL DEF Spec, KeepsLog, Log!Spec

=============================================================================
