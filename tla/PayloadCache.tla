---------------------------- MODULE PayloadCache ----------------------------
(***************************************************************************)
(* The agent's offline cache, internal/cache/sqlite.go: a bounded queue of *)
(* encrypted scan payloads in one SQLite table, and a dead-letter table.   *)
(* The store holds a single connection (SetMaxOpenConns(1)) and every      *)
(* operation is one statement or one transaction, so each is one step      *)
(* here, whichever goroutine calls it.  A statement that fails ends its    *)
(* operation, and nothing has changed; but Nack ignores the errors of its  *)
(* last two, which NackUnchecked has.                                      *)
(*                                                                         *)
(* A payload is an uninterpreted value; a blob is the payload together     *)
(* with the key it was sealed with.  SQL NULLs, checksums, reasons and     *)
(* timestamps other than collected_at are left out.                        *)
(***************************************************************************)
EXTENDS Naturals, FiniteSets

CONSTANTS
  Payload,    \* what Push may be given
  Key,        \* AES keys: the SHA-256 of a refresh token (DeriveKey)
  Second,     \* readings of the wall clock, in whole seconds
  MaxRows,    \* cache.max_pending_rows
  MaxTries,   \* cache.max_attempts
  BatchSize   \* cache.flush_batch_size

ASSUME CacheAssumption ==
  /\ Second \subseteq Nat
  /\ MaxRows \in Nat \ {0}
  /\ MaxTries \in Nat \ {0}
  /\ BatchSize \in Nat \ {0}

VARIABLES
  pending,    \* the rows of pending_payloads
  dead,       \* the rows of dead_letter
  lastId,     \* the largest AUTOINCREMENT id given out, never reused
  gcmKey      \* Store.gcmKey, fixed while the store is open

cacheVars == <<pending, dead, lastId, gcmKey>>

Row == [id : Nat, at : Second, payload : Payload, attempts : Nat, key : Key]

DeadRow == [original : Nat, payload : Payload, key : Key]

\* The queue's order: collected_at, whole seconds, and within a second the
\* rowid, which idx_pending_fifo keeps ascending.
Before(r, s) == r.at < s.at \/ (r.at = s.at /\ r.id < s.id)

\* W is what "ORDER BY collected_at ASC LIMIT k" selects from the table.
IsOldest(W, k) ==
  /\ W \subseteq pending
  /\ Cardinality(W) = IF k < Cardinality(pending) THEN k ELSE Cardinality(pending)
  /\ \A w \in W, r \in pending \ W : Before(w, r)

\* Mutant of EvictCount: room for the row about to be inserted is forgotten.
EvictCountLate ==
  IF Cardinality(pending) > MaxRows THEN Cardinality(pending) - MaxRows ELSE 0

\* MAX(0, COUNT(*) - (maxRows - 1) + 1): the rows Push deletes first.
EvictCount ==
  IF Cardinality(pending) + 2 > MaxRows THEN Cardinality(pending) + 2 - MaxRows ELSE 0

\* Push: evict, then insert the sealed payload, in one transaction.
Push(p, now) ==
  \E old \in SUBSET pending :
    /\ IsOldest(old, EvictCount)
    /\ pending' = (pending \ old) \cup
         {[id |-> lastId + 1, at |-> now, payload |-> p, attempts |-> 0, key |-> gcmKey]}
    /\ lastId' = lastId + 1
    /\ UNCHANGED <<dead, gcmKey>>

\* A row sealed under another key fails GCM authentication.
Readable(r) == r.key = gcmKey

\* Peek: the oldest BatchSize rows, those it cannot decrypt skipped without a
\* trace.  They still count towards the limit.
Peek(batch) ==
  \E window \in SUBSET pending :
    /\ IsOldest(window, BatchSize)
    /\ batch = {r \in window : Readable(r)}

\* Ack: DELETE ... WHERE id = ?; no error when the row is gone.
Ack(id) ==
  /\ pending' = {r \in pending : r.id # id}
  /\ UNCHANGED <<dead, lastId, gcmKey>>

\* Mutant of Nack: the row is copied to the dead letters but not deleted.
NackKeepsRow(id) ==
  LET hit == {r \in pending : r.id = id}
      exhausted == {r \in hit : r.attempts + 1 >= MaxTries}
  IN  /\ pending' = (pending \ hit) \cup {[r EXCEPT !.attempts = @ + 1] : r \in hit}
      /\ dead' = dead \cup
            {[original |-> r.id, payload |-> r.payload, key |-> r.key] : r \in exhausted}
      /\ UNCHANGED <<lastId, gcmKey>>

\* Mutant of Nack: a row is given up one attempt early.
NackEarly(id) ==
  LET hit == {r \in pending : r.id = id}
      exhausted == {r \in hit : r.attempts + 2 >= MaxTries}
  IN  /\ pending' = (pending \ hit) \cup
            {[r EXCEPT !.attempts = @ + 1] : r \in hit \ exhausted}
      /\ dead' = dead \cup
            {[original |-> r.id, payload |-> r.payload, key |-> r.key] : r \in exhausted}
      /\ UNCHANGED <<lastId, gcmKey>>

\* Mutant of Nack: the attempt is not counted, so that no row is ever given up.
NackUncounted(id) == UNCHANGED cacheVars

\* Nack: count one more attempt; a row that has used them all moves to the
\* dead letters in the same transaction.  No effect when the row is gone.  (The INSERT
\* and the DELETE of the move succeed: see NackUnchecked.)
Nack(id) ==
  LET hit == {r \in pending : r.id = id}
      exhausted == {r \in hit : r.attempts + 1 >= MaxTries}
  IN  /\ pending' = (pending \ hit) \cup
            {[r EXCEPT !.attempts = @ + 1] : r \in hit \ exhausted}
      /\ dead' = dead \cup
            {[original |-> r.id, payload |-> r.payload, key |-> r.key] : r \in exhausted}
      /\ UNCHANGED <<lastId, gcmKey>>

\* Nack when either statement of the move may fail, on a full disk say: the code does
\* not look at their errors and commits what there is.
NackUnchecked(id) ==
  LET hit == {r \in pending : r.id = id}
      exhausted == {r \in hit : r.attempts + 1 >= MaxTries}
      letters == {[original |-> r.id, payload |-> r.payload, key |-> r.key] : r \in exhausted}
  IN  /\ \E deleted \in {{}, exhausted} :
            pending' = (pending \ hit) \cup {[r EXCEPT !.attempts = @ + 1] : r \in hit \ deleted}
      /\ dead' \in {dead, dead \cup letters}
      /\ UNCHANGED <<lastId, gcmKey>>

\* Open on the same file after a restart, with the key of the token now on disk.
Reopen(k) ==
  /\ gcmKey' = k
  /\ UNCHANGED <<pending, dead, lastId>>

CacheInit ==
  /\ pending = {} /\ dead = {} /\ lastId = 0
  /\ gcmKey \in Key

CacheNext ==
  \/ \E p \in Payload, now \in Second : Push(p, now)
  \/ \E id \in 1..lastId : Ack(id) \/ Nack(id)
  \/ \E k \in Key : Reopen(k)

CacheSpec == CacheInit /\ [][CacheNext]_cacheVars

-----------------------------------------------------------------------------
\* Every variable has its type.
CacheTypeOK ==
  /\ pending \in SUBSET Row /\ IsFiniteSet(pending)
  /\ dead \in SUBSET DeadRow
  /\ lastId \in Nat
  /\ gcmKey \in Key

\* However the calls interleave, and whatever the clock does, the table never
\* holds more than max_pending_rows rows: the eviction in Push and its
\* insertion add up (sqlite.go, "to maintain the maxRows bound").
Bounded == Cardinality(pending) <= MaxRows

\* An id names one row at most, in the queue or among the dead letters, never
\* in both: an Ack or a Nack that arrives late cannot hit another payload.
OneFate ==
  /\ \A r, s \in pending : r.id = s.id => r = s
  /\ \A r \in pending : r.id <= lastId
  /\ \A d \in dead : d.original <= lastId /\ \A r \in pending : r.id # d.original

\* A queued row always has an attempt left.
AttemptsLeft == \A r \in pending : r.attempts < MaxTries

-----------------------------------------------------------------------------
(* A claim that is not kept.                                               *)

\* No row is acknowledged here, so that a Nack is whatever takes one but a Push.
UncheckedSpec ==
  CacheInit /\ [][\/ \E p \in Payload, now \in Second : Push(p, now)
                 \/ \E id \in 1..lastId : NackUnchecked(id)]_cacheVars

\* sqlite.go:165: Nack "increments the attempt counter and, when maxTries is reached,
\* moves the row to the dead_letter table": a row that is still queued has an attempt
\* left, and one that is not is among the dead letters.
MovesRow ==
  [][lastId' = lastId => /\ AttemptsLeft'
                         /\ \A r \in pending : \/ \E q \in pending' : q.id = r.id
                                               \/ \E d \in dead' : d.original = r.id]_cacheVars
=============================================================================
