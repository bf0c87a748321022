--------------------------- MODULE ConsumerGroup ----------------------------
(***************************************************************************)
(* The poll loop that every worker of the server runs over a Kafka topic,  *)
(* itam-server/internal/kafka/consumer.go: poll, hand each record to the   *)
(* handler, commit what was polled when no handler of this poll failed.    *)
(* The members of a group are the worker goroutines of the server          *)
(* processes that share the group id; a process may crash, restart or be   *)
(* shut down, and the broker may move a partition to another member while  *)
(* records of it are still being handled.                                  *)
(*                                                                         *)
(* The broker and the client library franz-go are external.  Of them the   *)
(* model has what the loop relies on: a member polls from the position of  *)
(* the partitions assigned to it, an assignment starts at the committed    *)
(* offset, and CommitUncommittedOffsets commits the position of every      *)
(* partition the member has been polling and still owns.                   *)
(***************************************************************************)
EXTENDS Naturals, FiniteSets

CONSTANTS
  Member,      \* the worker of this group in each server process
  Nobody,
  Partition,
  MaxRecords,  \* bound: records ever produced to one partition
  MaxPoll      \* most records of a partition in one fetch (FetchMaxBytes)

ASSUME ConsumerAssumption ==
  /\ Nobody \notin Member
  /\ MaxRecords \in Nat /\ MaxPoll \in Nat \ {0}

VARIABLES
  end,        \* records in the log of each partition: offsets 0..end-1
  committed,  \* the group's committed offset of each partition
  owner,      \* the member each partition is assigned to
  position,   \* the owner's next offset to fetch
  proc,       \* the process of each member: up, stopping (ctx cancelled), down
  pc,         \* Run: waiting in PollFetches, or working through a fetch
  hand,       \* the records of that fetch it has not handled yet
  commitErr,  \* a handler failed in this round; TRUE as well, until the next
              \* round, when its commit or its fetch did (the code only logs these)
  fate        \* what became of each record so far: see Fate

logVars == <<end, committed>>
memberVars == <<proc, pc, hand, commitErr>>
vars == <<logVars, owner, position, memberVars, fate>>

Offset == 0..(MaxRecords - 1)

\* "skipped": it was in a fetch that was dropped for an error in it; "failed":
\* its handler returned an error; "handled": a handler returned nil for it, which
\* no later delivery of the same record changes.
Fate == {"new", "skipped", "failed", "handled"}
Settle(p, os, f) ==
  [o \in Offset |-> IF o \in os /\ fate[p][o] # "handled" THEN f ELSE fate[p][o]]

Running(m) == proc[m] # "down"
Owned(m) == {p \in Partition : owner[p] = m}

\* The records between two positions, and those of partition p in a set of them.
Between(from, to) == {r \in Partition \X Offset : from[r[1]] <= r[2] /\ r[2] < to[r[1]]}
Of(S, p) == {r[2] : r \in {s \in S : s[1] = p}}

-----------------------------------------------------------------------------
\* Publish, of this or of any other process; one key is always one partition.
Produce(p) ==
  /\ end[p] < MaxRecords
  /\ end' = [end EXCEPT ![p] = @ + 1]
  /\ UNCHANGED <<committed, owner, position, memberVars, fate>>

\* Mutant of Assign: the new owner goes on from the position of the old one.
AssignAtPosition(p, m) ==
  /\ owner[p] # m /\ proc[m] = "up"
  /\ owner' = [owner EXCEPT ![p] = m]
  /\ UNCHANGED <<logVars, position, memberVars, fate>>

\* Mutant of Assign: the committed offset is taken for the last record's.
AssignAfterCommitted(p, m) ==
  /\ owner[p] # m /\ proc[m] = "up"
  /\ owner' = [owner EXCEPT ![p] = m]
  /\ position' = [position EXCEPT ![p] = committed[p] + 1]
  /\ UNCHANGED <<logVars, memberVars, fate>>

\* The broker gives p to m: at the start, after a crash, or in a rebalance, of
\* which the loop takes no notice (no OnPartitionsRevoked, no BlockRebalanceOnPoll).
Assign(p, m) ==
  /\ owner[p] # m /\ proc[m] = "up"
  /\ owner' = [owner EXCEPT ![p] = m]
  /\ position' = [position EXCEPT ![p] = committed[p]]
  /\ UNCHANGED <<logVars, memberVars, fate>>

\* Where the position may be after m's next fetch, which is not empty.
Fetched(m, to) ==
  /\ to # position
  /\ \A p \in Partition : IF owner[p] = m
                          THEN to[p] \in position[p]..end[p] /\ to[p] <= position[p] + MaxPoll
                          ELSE to[p] = position[p]

Polling(m) == proc[m] = "up" /\ pc[m] = "poll"

\* PollFetches returns records and no error.
Poll(m) ==
  /\ Polling(m)
  /\ \E to \in [Partition -> 0..MaxRecords] :
       /\ Fetched(m, to)
       /\ position' = to
       /\ hand' = [hand EXCEPT ![m] = Between(position, to)]
  /\ pc' = [pc EXCEPT ![m] = "handle"]
  /\ commitErr' = [commitErr EXCEPT ![m] = FALSE]
  /\ UNCHANGED <<logVars, owner, proc, fate>>

\* PollFetches returns an error for one partition together with records of
\* others: "continue" drops the records, and the position is past them.
PollError(m) ==
  /\ Polling(m)
  /\ \E to \in [Partition -> 0..MaxRecords] :
       /\ Fetched(m, to)
       /\ position' = to
       /\ fate' = [p \in Partition |-> Settle(p, Of(Between(position, to), p), "skipped")]
  /\ commitErr' = [commitErr EXCEPT ![m] = TRUE]
  /\ UNCHANGED <<logVars, owner, proc, pc, hand>>

\* Mutant of IsNext: the records of a fetch are handled in any order.
IsAny(m, p, o) == <<p, o>> \in hand[m]

\* EachRecord: within a partition, in the order of the log.
IsNext(m, p, o) == <<p, o>> \in hand[m] /\ \A q \in Of(hand[m], p) : o <= q

\* One call of the handler; an error does not stop the loop over the fetch.
Handle(m) ==
  /\ Running(m) /\ pc[m] = "handle"
  /\ \E p \in Partition, o \in Offset :
       /\ IsNext(m, p, o)
       /\ hand' = [hand EXCEPT ![m] = @ \ {<<p, o>>}]
       /\ \/ /\ fate' = [fate EXCEPT ![p] = Settle(p, {o}, "handled")]
             /\ UNCHANGED commitErr
          \/ /\ fate' = [fate EXCEPT ![p] = Settle(p, {o}, "failed")]
             /\ commitErr' = [commitErr EXCEPT ![m] = TRUE]
  /\ UNCHANGED <<logVars, owner, position, proc, pc>>

RoundDone(m) == Running(m) /\ pc[m] = "handle" /\ hand[m] = {}

\* Mutant of Commit: the offset of the last record is committed, not the one after it.
CommitLastOffset(m) ==
  /\ RoundDone(m) /\ proc[m] = "up" /\ ~commitErr[m]
  /\ committed' = [p \in Partition |-> IF p \in Owned(m) /\ position[p] > committed[p]
                                       THEN position[p] - 1 ELSE committed[p]]
  /\ pc' = [pc EXCEPT ![m] = "poll"]
  /\ UNCHANGED <<end, owner, position, proc, hand, commitErr, fate>>

\* CommitUncommittedOffsets, when no handler of the round failed.
Commit(m) ==
  /\ RoundDone(m) /\ proc[m] = "up" /\ ~commitErr[m]
  /\ committed' = [p \in Partition |-> IF p \in Owned(m) THEN position[p] ELSE committed[p]]
  /\ pc' = [pc EXCEPT ![m] = "poll"]
  /\ UNCHANGED <<end, owner, position, proc, hand, commitErr, fate>>

\* The round ends without a commit: a handler failed, or the commit did (always,
\* once ctx is cancelled).  Both are logged, and the loop goes on.
EndRound(m) ==
  /\ RoundDone(m)
  /\ pc' = [pc EXCEPT ![m] = "poll"]
  /\ commitErr' = [commitErr EXCEPT ![m] = TRUE]
  /\ UNCHANGED <<logVars, owner, position, proc, hand, fate>>

\* main cancels the context its workers run under.
Cancel(m) ==
  /\ proc[m] = "up" /\ proc' = [proc EXCEPT ![m] = "stopping"]
  /\ UNCHANGED <<logVars, owner, position, pc, hand, commitErr, fate>>

Gone(m) ==
  /\ proc' = [proc EXCEPT ![m] = "down"]
  /\ pc' = [pc EXCEPT ![m] = "poll"]
  /\ hand' = [hand EXCEPT ![m] = {}]
  /\ owner' = [p \in Partition |-> IF owner[p] = m THEN Nobody ELSE owner[p]]
  /\ UNCHANGED <<logVars, position, commitErr, fate>>

\* Run sees the cancelled context after its next poll, returns, and the client
\* is closed.
Leave(m) == proc[m] = "stopping" /\ pc[m] = "poll" /\ Gone(m)

\* The process dies, or main returns before its workers have (nothing waits for them).
Crash(m) == Running(m) /\ Gone(m)

\* NewConsumer in a new process.
Start(m) ==
  /\ proc[m] = "down" /\ proc' = [proc EXCEPT ![m] = "up"]
  /\ UNCHANGED <<logVars, owner, position, pc, hand, commitErr, fate>>

Init ==
  /\ end = [p \in Partition |-> 0] /\ committed = [p \in Partition |-> 0]
  /\ owner = [p \in Partition |-> Nobody] /\ position = [p \in Partition |-> 0]
  /\ proc = [m \in Member |-> "up"] /\ pc = [m \in Member |-> "poll"]
  /\ hand = [m \in Member |-> {}] /\ commitErr = [m \in Member |-> FALSE]
  /\ fate = [p \in Partition |-> [o \in Offset |-> "new"]]

Next ==
  \/ \E p \in Partition : Produce(p) \/ \E m \in Member : Assign(p, m)
  \/ \E m \in Member : \/ Poll(m) \/ PollError(m) \/ Handle(m) \/ Commit(m) \/ EndRound(m)
                       \/ Cancel(m) \/ Leave(m) \/ Crash(m) \/ Start(m)

Spec == Init /\ [][Next]_vars

\* A running loop goes on, and the broker assigns a partition nobody has.  No
\* record need be produced, and no call is assumed to succeed.
Fairness ==
  /\ \A m \in Member : /\ WF_vars(Poll(m) \/ PollError(m)) /\ WF_vars(Handle(m))
                       /\ WF_vars(Commit(m) \/ EndRound(m))
  /\ \A p \in Partition : WF_vars(owner[p] = Nobody /\ \E m \in Member : Assign(p, m))

FairSpec == Spec /\ Fairness

-----------------------------------------------------------------------------
\* The offsets the handler has been called with, or that were dropped before it.
Seen(p) == {o \in Offset : fate[p][o] # "new"}

\* Every variable has its type, and only a running member has records in hand.
TypeOK ==
  /\ end \in [Partition -> 0..MaxRecords]
  /\ committed \in [Partition -> 0..MaxRecords]
  /\ position \in [Partition -> 0..MaxRecords]
  /\ owner \in [Partition -> Member \cup {Nobody}]
  /\ proc \in [Member -> {"up", "stopping", "down"}]
  /\ pc \in [Member -> {"poll", "handle"}]
  /\ hand \in [Member -> SUBSET (Partition \X Offset)]
  /\ commitErr \in [Member -> BOOLEAN]
  /\ fate \in [Partition -> [Offset -> Fate]]
  /\ \A p \in Partition : committed[p] <= position[p] /\ position[p] <= end[p]
  /\ \A m \in Member : hand[m] # {} => Running(m) /\ pc[m] = "handle"

\* A crash, a shutdown or a rebalance loses no record: whatever the group has
\* committed past was given to the handler, or was in a fetch dropped for an
\* error.  (Run: "commits offsets only after the handler returns".)
CommittedWasSeen == \A p \in Partition, o \in Offset : o < committed[p] => o \in Seen(p)

\* The records of a partition, and so of a host, come to the handlers for the
\* first time in the order of the log, with two members at work on the same
\* partition as well.  (producer.go: "preserving ordering within a host".)
SeenInOrder == \A p \in Partition : \A o \in Seen(p) : \A q \in 0..o : q \in Seen(p)

\* How many offsets from 0 on are in S without a gap, and the records handled.
UpTo(S) ==
  CHOOSE n \in 0..MaxRecords :
    /\ \A o \in Offset : o < n => o \in S
    /\ n < MaxRecords => n \notin S
Handled == {r \in Partition \X Offset : fate[r[1]][r[2]] = "handled"}

\* Members, fetches, rounds, crashes and rebalances together keep LogContract: a
\* handler is given a record only after all before it have been seen, what was
\* handled stays so, and no commit, a late one of an old owner included, takes the
\* offset back or past a record nobody has seen.
Log == INSTANCE LogContract WITH
  seen <- [p \in Partition |-> UpTo(Seen(p))], handled <- Handled
KeepsLog == Log!Spec

\* Once every process stays up, assignments stop moving, and neither handlers nor
\* commits nor fetches fail, the group fetches and commits everything produced;
\* a partition stays behind only if the last thing its owner saw was a failure.
Settling ==
  /\ <>[](\A m \in Member : proc[m] = "up")
  /\ <>[][/\ \A m \in Member : ~PollError(m) /\ (commitErr'[m] => commitErr[m])
          /\ \A p \in Partition : owner'[p] # owner[p] => owner[p] = Nobody]_vars
CatchesUp ==
  Settling => <>[](\A p \in Partition :
    /\ owner[p] # Nobody /\ position[p] = end[p]
    /\ committed[p] = end[p] \/ commitErr[owner[p]])

-----------------------------------------------------------------------------
(* What these properties rest on (ConsumerGroupProofs).                    *)

\* The owner of a partition has handled, dropped or in hand all that is before its
\* position: a commit when its hands are empty commits nothing unseen.
PositionCovered ==
  \A p \in Partition : owner[p] # Nobody =>
    \A o \in Offset : o < position[p] => o \in Seen(p) \/ <<p, o>> \in hand[owner[p]]

\* Whatever comes before a record in hand, with an old owner as well, has been
\* seen or is in the same hand.
HandInOrder ==
  \A m \in Member, p \in Partition : \A o \in Of(hand[m], p) :
    \A q \in 0..o : q \in Seen(p) \/ <<p, q>> \in hand[m]

IInv == TypeOK /\ CommittedWasSeen /\ SeenInOrder /\ PositionCovered /\ HandInOrder

\* Nothing is seen or in hand that is not in the log (for KeepsLog).
OnlyProduced ==
  \A p \in Partition :
    /\ \A o \in Seen(p) : o < end[p]
    /\ \A m \in Member : \A o \in Of(hand[m], p) : o < end[p]

-----------------------------------------------------------------------------
\* "Returning an error causes the record to be nacked (offset not committed)"
\* (consumer.go, Handler): what is committed was handled, unless it was dropped.
FailedNotCommitted ==
  \A p \in Partition, o \in Offset : o < committed[p] => fate[p][o] # "failed"
=============================================================================
