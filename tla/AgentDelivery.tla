--------------------------- MODULE AgentDelivery ----------------------------
(***************************************************************************)
(* The agent process around its cache: the scan jobs and flush jobs that   *)
(* the cron scheduler starts, each in a goroutine of its own and free to   *)
(* overlap (cmd/agent/main.go, internal/scheduler), the token refresh that *)
(* every POST may run into (internal/transport/client.go), and the         *)
(* process' shutdown, crash and restart.  The server and the network are   *)
(* free: every request may succeed, be turned down, fail, or lose its      *)
(* answer on the way back.                                                 *)
(***************************************************************************)
EXTENDS PayloadCache

CONSTANTS
  ScanJob,    \* goroutines running scanFn: the startup scan and cron's
  FlushJob,   \* goroutines running flushFn
  NoPayload

ASSUME AgentAssumption == NoPayload \notin Payload

VARIABLES
  proc,       \* the process: up, stopping (after sched.Stop), closed, down
  fresh,      \* the access token has more than two minutes left
  diskToken,  \* the refresh token in the config file, named by its cache key
  issued,     \* refresh tokens the server has issued so far
  scanPc,     \* where each scan job is
  held,       \* the payload a scan job holds in memory
  flushPc,    \* where each flush job is
  batch,      \* the rows its Peek returned and it has not dealt with yet
  collected,  \* payloads ever scanned
  settled,    \* payloads the server took (202) or found malformed (422)
  denied,     \* payloads it answered 401, 403 or another 4xx for
  failures    \* failed POSTs of a queued payload, counted up to MaxTries

jobVars == <<scanPc, held, flushPc, batch>>
answerVars == <<settled, denied>>
tokenVars == <<fresh, diskToken, issued>>
vars == <<cacheVars, proc, tokenVars, jobVars, collected, answerVars, failures>>

Proc == {"up", "stopping", "closed", "down"}
ScanPc == {"idle", "deliver", "cache", "expired"}
FlushPc == {"idle", "post", "ack", "nack"}
Outcome == {"settled", "denied", "failed", "lost"}

Running == proc # "down"
StoreOpen == proc \in {"up", "stopping"}
answered == settled \cup denied

-----------------------------------------------------------------------------
(* The client: Post, validToken, refresh.                                  *)

\* One POST of p and what the job sees of it.  "lost": the server took the
\* payload and the answer did not arrive, or was a 5xx all the same.  With a
\* stale token validToken has to refresh first, and its error is the POST's.
Exchange(p, o) ==
  /\ fresh \/ o = "failed"
  /\ settled' = IF o \in {"settled", "lost"} THEN settled \cup {p} ELSE settled
  /\ denied' = IF o = "denied" THEN denied \cup {p} ELSE denied

Posting == (\E j \in ScanJob : scanPc[j] = "deliver") \/ (\E f \in FlushJob : flushPc[f] = "post")

\* refresh: under the client's mutex; the new pair is used from memory, and
\* written to the config file when Save succeeds (its error is ignored).  Key
\* bounds the refreshes of a behaviour that succeed.
Refresh ==
  /\ Running /\ Posting /\ ~fresh
  /\ \E k \in Key \ issued :
       /\ issued' = issued \cup {k}
       /\ diskToken' \in {k, diskToken}
  /\ fresh' = TRUE
  /\ UNCHANGED <<cacheVars, proc, jobVars, collected, answerVars, failures>>

\* Fifteen minutes pass.
Expire ==
  /\ fresh /\ fresh' = FALSE
  /\ UNCHANGED <<cacheVars, proc, diskToken, issued, jobVars, collected,
                 answerVars, failures>>

-----------------------------------------------------------------------------
(* scanFn and deliverOrCache.                                              *)

\* Scan, then IsReachable: when the probe fails the payload goes to the cache.
Collect(j) ==
  /\ proc = "up" /\ scanPc[j] = "idle"
  /\ \E p \in Payload \ collected :
       /\ collected' = collected \cup {p}
       /\ held' = [held EXCEPT ![j] = p]
  /\ \E pc \in {"deliver", "cache"} : scanPc' = [scanPc EXCEPT ![j] = pc]
  /\ UNCHANGED <<cacheVars, proc, tokenVars, flushPc, batch, answerVars, failures>>

\* Mutant of EndScan: the goroutine ends and its payload is not let go.
EndScanKeepsPayload(j) ==
  /\ scanPc' = [scanPc EXCEPT ![j] = "idle"]
  /\ UNCHANGED <<held, flushPc, batch>>

\* The scan job's goroutine returns.
EndScan(j) ==
  /\ scanPc' = [scanPc EXCEPT ![j] = "idle"]
  /\ held' = [held EXCEPT ![j] = NoPayload]
  /\ UNCHANGED <<flushPc, batch>>

\* deliverOrCache: only an error or a 5xx leads to the cache; a 422 is
\* discarded, and every other answer counts as success.
Deliver(j) ==
  /\ Running /\ scanPc[j] = "deliver"
  /\ \E o \in Outcome :
       /\ Exchange(held[j], o)
       /\ IF o \in {"failed", "lost"}
          THEN scanPc' = [scanPc EXCEPT ![j] = "cache"] /\ UNCHANGED <<held, flushPc, batch>>
          ELSE EndScan(j)
  /\ UNCHANGED <<cacheVars, proc, tokenVars, collected, failures>>

\* Mutant of StorePayload: the job does not return after the Push.
StorePayloadAndRepeat(j) ==
  /\ StoreOpen /\ scanPc[j] = "cache"
  /\ \E now \in Second : Push(held[j], now)
  /\ UNCHANGED <<proc, tokenVars, jobVars, collected, answerVars, failures>>

\* store.Push, while the store is open.
StorePayload(j) ==
  /\ StoreOpen /\ scanPc[j] = "cache"
  /\ \E now \in Second : Push(held[j], now)
  /\ EndScan(j)
  /\ UNCHANGED <<proc, tokenVars, collected, answerVars, failures>>

\* The job's ten minutes are over: its context fails the POST and the Push.
ScanTimeout(j) ==
  /\ Running /\ scanPc[j] \in {"deliver", "cache"}
  /\ scanPc' = [scanPc EXCEPT ![j] = "expired"]
  /\ UNCHANGED <<cacheVars, proc, tokenVars, held, flushPc, batch, collected,
                 answerVars, failures>>

\* Push returns an error (context over, or database closed): the payload is gone.
StoreFails(j) ==
  /\ Running
  /\ scanPc[j] = "expired" \/ (scanPc[j] = "cache" /\ ~StoreOpen)
  /\ EndScan(j)
  /\ UNCHANGED <<cacheVars, proc, tokenVars, collected, answerVars, failures>>

-----------------------------------------------------------------------------
(* flushFn: flushCache, one row at a time in the queue's order.            *)

\* IsReachable, then Peek; no answer, or a batch without rows, ends the job at once.
FlushStart(f) ==
  /\ StoreOpen /\ flushPc[f] = "idle"
  /\ \E rows \in SUBSET pending :
       /\ rows # {} /\ Peek(rows)
       /\ batch' = [batch EXCEPT ![f] = rows]
  /\ flushPc' = [flushPc EXCEPT ![f] = "post"]
  /\ UNCHANGED <<cacheVars, proc, tokenVars, scanPc, held, collected,
                 answerVars, failures>>

\* "for _, row := range rows": the batch is worked off in the queue's order.
IsNextRow(f, r) == r \in batch[f] /\ \A s \in batch[f] \ {r} : Before(r, s)

\* Mutant of FlushPost: an error is followed by the Ack as well.
FlushPostAlwaysAck(f) ==
  /\ Running /\ flushPc[f] = "post"
  /\ \E r \in batch[f], o \in Outcome : IsNextRow(f, r) /\ Exchange(r.payload, o)
  /\ flushPc' = [flushPc EXCEPT ![f] = "ack"]
  /\ UNCHANGED <<cacheVars, proc, tokenVars, scanPc, held, batch, collected, failures>>

\* Post the oldest row left.  The answer alone decides between Ack and Nack.
FlushPost(f) ==
  /\ Running /\ flushPc[f] = "post"
  /\ \E r \in batch[f], o \in Outcome :
       /\ IsNextRow(f, r) /\ Exchange(r.payload, o)
       /\ IF o \in {"failed", "lost"}
          THEN /\ flushPc' = [flushPc EXCEPT ![f] = "nack"]
               /\ failures' = [failures EXCEPT ![r.payload] = IF @ < MaxTries THEN @ + 1 ELSE @]
          ELSE /\ flushPc' = [flushPc EXCEPT ![f] = "ack"]
               /\ UNCHANGED failures
  /\ UNCHANGED <<cacheVars, proc, tokenVars, scanPc, held, batch, collected>>

\* The loop goes on to the next row, or the job ends.
NextRow(f, r) ==
  /\ batch' = [batch EXCEPT ![f] = @ \ {r}]
  /\ flushPc' = [flushPc EXCEPT ![f] = IF batch[f] = {r} THEN "idle" ELSE "post"]
  /\ UNCHANGED <<scanPc, held>>

\* Ack after any answer below 500.  Its error (the database is closed) is ignored.
FlushAck(f) ==
  /\ Running /\ flushPc[f] = "ack"
  /\ \E r \in batch[f] :
       /\ IsNextRow(f, r)
       /\ IF StoreOpen THEN Ack(r.id) ELSE UNCHANGED cacheVars
       /\ NextRow(f, r)
  /\ UNCHANGED <<proc, tokenVars, collected, answerVars, failures>>

\* Nack after an error or a 5xx, when backoff has slept.
FlushNack(f) ==
  /\ Running /\ flushPc[f] = "nack"
  /\ \E r \in batch[f] :
       /\ IsNextRow(f, r)
       /\ IF StoreOpen THEN Nack(r.id) ELSE UNCHANGED cacheVars
       /\ NextRow(f, r)
  /\ UNCHANGED <<proc, tokenVars, collected, answerVars, failures>>

\* The job's two minutes are over: the Ack or Nack under way and every later
\* POST and Nack fail on the context, and the rows stay as they are.
FlushTimeout(f) ==
  /\ Running /\ flushPc[f] # "idle"
  /\ flushPc' = [flushPc EXCEPT ![f] = "idle"]
  /\ batch' = [batch EXCEPT ![f] = {}]
  /\ UNCHANGED <<cacheVars, proc, tokenVars, scanPc, held, collected,
                 answerVars, failures>>

-----------------------------------------------------------------------------
(* The process and its surroundings.                                       *)

\* sched.Stop() starts no further job and waits for none; main then returns,
\* the deferred store.Close() runs, and the process exits.
Stop ==
  /\ proc = "up" /\ proc' = "stopping"
  /\ UNCHANGED <<cacheVars, tokenVars, jobVars, collected, answerVars, failures>>

CloseStore ==
  /\ proc = "stopping" /\ proc' = "closed"
  /\ UNCHANGED <<cacheVars, tokenVars, jobVars, collected, answerVars, failures>>

\* The process ends, by returning from main or by a crash; its goroutines with it.
Exit ==
  /\ Running /\ proc' = "down"
  /\ fresh' = FALSE
  /\ scanPc' = [j \in ScanJob |-> "idle"] /\ held' = [j \in ScanJob |-> NoPayload]
  /\ flushPc' = [f \in FlushJob |-> "idle"] /\ batch' = [f \in FlushJob |-> {}]
  /\ UNCHANGED <<cacheVars, diskToken, issued, collected, answerVars, failures>>

\* main: the cache is opened with the key of the refresh token read from the
\* config; tokenExpiry is zero, so that the first POST refreshes.
Start ==
  /\ proc = "down" /\ proc' = "up"
  /\ Reopen(diskToken)
  /\ UNCHANGED <<tokenVars, jobVars, collected, answerVars, failures>>

Init ==
  /\ CacheInit
  /\ proc = "up"
  /\ fresh = FALSE /\ diskToken = gcmKey /\ issued = {gcmKey}
  /\ scanPc = [j \in ScanJob |-> "idle"] /\ held = [j \in ScanJob |-> NoPayload]
  /\ flushPc = [f \in FlushJob |-> "idle"] /\ batch = [f \in FlushJob |-> {}]
  /\ collected = {} /\ settled = {} /\ denied = {}
  /\ failures = [p \in Payload |-> 0]

Next ==
  \/ \E j \in ScanJob : \/ Collect(j) \/ Deliver(j) \/ StorePayload(j)
                        \/ ScanTimeout(j) \/ StoreFails(j)
  \/ \E f \in FlushJob : \/ FlushStart(f) \/ FlushPost(f) \/ FlushAck(f)
                         \/ FlushNack(f) \/ FlushTimeout(f)
  \/ Refresh \/ Expire
  \/ Stop \/ CloseStore \/ Exit \/ Start

Spec == Init /\ [][Next]_vars

\* cron fires the flush job every five minutes and some tick finds the server
\* reachable; a started goroutine runs on.  Nothing is assumed of the server's
\* answers, of the token, of deadlines, of shutdown or of the scan jobs.
Fairness ==
  \A f \in FlushJob : /\ WF_vars(FlushStart(f)) /\ WF_vars(FlushPost(f))
                      /\ WF_vars(FlushAck(f)) /\ WF_vars(FlushNack(f))

FairSpec == Spec /\ Fairness

-----------------------------------------------------------------------------
Queued(p) == \E r \in pending : r.payload = p
Held(p) == \E j \in ScanJob : held[j] = p
Parked(p) == \E d \in dead : d.payload = p

\* Every variable has its type; a scan job holds a payload exactly while it is
\* busy, a flush job has rows left exactly while it is busy, and no job is busy
\* in a process that is down.
AgentTypeOK ==
  /\ CacheTypeOK
  /\ proc \in Proc /\ fresh \in BOOLEAN
  /\ issued \subseteq Key /\ diskToken \in issued /\ gcmKey \in issued
  /\ scanPc \in [ScanJob -> ScanPc] /\ held \in [ScanJob -> Payload \cup {NoPayload}]
  /\ flushPc \in [FlushJob -> FlushPc] /\ batch \in [FlushJob -> SUBSET Row]
  /\ collected \subseteq Payload
  /\ settled \subseteq collected /\ denied \subseteq collected
  /\ failures \in [Payload -> 0..MaxTries]
  /\ \A j \in ScanJob : scanPc[j] = "idle" <=> held[j] = NoPayload
  /\ \A f \in FlushJob : flushPc[f] = "idle" <=> batch[f] = {}
  /\ proc = "down" => /\ \A j \in ScanJob : scanPc[j] = "idle"
                      /\ \A f \in FlushJob : flushPc[f] = "idle"

\* A payload is in one place at a time: in the memory of one scan job, in one row
\* of the queue or in one dead letter, however jobs, shutdowns and crashes
\* interleave.  (deliverOrCache and Push hand it over, Nack moves it.)
SinglePlace ==
  /\ \A i, j \in ScanJob : held[i] = held[j] /\ held[i] # NoPayload => i = j
  /\ \A r, s \in pending : r.payload = s.payload => r = s
  /\ \A d, e \in dead : d.payload = e.payload => d = e
  /\ \A p \in Payload : /\ ~(Held(p) /\ (Queued(p) \/ Parked(p)))
                        /\ ~(Queued(p) /\ Parked(p))

\* A dead letter is the payload of at least MaxTries failed deliveries out of the
\* queue, even when overlapping flush jobs count the same row's failures and
\* when the row outlives several processes.
DeadMeansExhausted == \A d \in dead : failures[d.payload] >= MaxTries

\* A row sealed under a key that is not this process' is out of reach of the flush
\* jobs: it is not acknowledged, not counted and not parked; only an eviction
\* removes it.  A job never carries a row over from an earlier process.
UnreadableUntouched ==
  [][\A r \in pending : ~Readable(r) => r \in pending' \/ lastId' # lastId]_vars

\* The agent keeps what DeliveryContract promises: each step moves payloads as the
\* contract allows, or moves none.
StageOf(p) ==
  CASE p \notin collected -> "unborn"
    [] p \in collected /\ Queued(p) -> "queued"
    [] p \in collected /\ ~Queued(p) /\ Held(p) -> "inFlight"
    [] p \in collected /\ ~Queued(p) /\ ~Held(p) /\ Parked(p) -> "parked"
    [] OTHER -> "gone"

Contract == INSTANCE DeliveryContract WITH
  stage <- [p \in Payload |-> StageOf(p)], answered <- answered

KeepsContract == Contract!Spec

\* While the process runs, no flush runs out of time, and the rows it cannot decrypt
\* leave room in the window of Peek, the others drain again and again, whatever the
\* server answers, however flushes overlap and tokens come and go: each row is
\* delivered, turned down or parked.  (An Ack of a last row that is gone looks like a
\* FlushTimeout.)
Sealed == {r \in pending : ~Readable(r)}
Draining ==
  /\ <>[](proc = "up" /\ Cardinality(Sealed) < BatchSize)
  /\ <>[][\A f \in FlushJob : FlushTimeout(f) => FlushAck(f) \/ FlushNack(f)]_vars
Drains == Draining => []<>(pending = Sealed)

-----------------------------------------------------------------------------
(* What the properties above rest on: with the cache's own invariant, an   *)
(* inductive invariant (AgentDeliveryProofs).                              *)

\* Only collected payloads are anywhere.
Accounted ==
  /\ \A j \in ScanJob : held[j] # NoPayload => held[j] \in collected
  /\ \A r \in pending : r.payload \in collected
  /\ \A d \in dead : d.payload \in collected

\* A row in a job's batch was readable to this process, and if its id is still
\* queued, it is the same payload under the same key.
BatchKnown ==
  \A f \in FlushJob : \A r \in batch[f] :
    /\ r.id <= lastId /\ r.key = gcmKey /\ r.payload \in collected
    /\ \A q \in pending : q.id = r.id => q.payload = r.payload /\ q.key = r.key

\* A job about to Ack has the server's answer for that row.
AckAnswered ==
  \A f \in FlushJob : flushPc[f] = "ack" =>
    \A r \in batch[f] : IsNextRow(f, r) => r.payload \in answered

\* The jobs that are about to Nack the row with this id.
AboutToNack(id) ==
  {f \in FlushJob : flushPc[f] = "nack" /\ \E r \in batch[f] : IsNextRow(f, r) /\ r.id = id}

\* A row has counted no more attempts than deliveries of its payload have failed,
\* those included that overlapping jobs are about to count.  Finitely many jobs run.
FailuresCounted ==
  /\ IsFiniteSet({f \in FlushJob : flushPc[f] # "idle"})
  /\ \A r \in pending :
       \/ failures[r.payload] = MaxTries
       \/ failures[r.payload] >= r.attempts + Cardinality(AboutToNack(r.id))

-----------------------------------------------------------------------------
(* Claims of the source's comments that the code does not keep.            *)

\* "On failure it falls back to the local cache so no data is lost"
\* (main.go, deliverOrCache; a 422 is discarded on purpose): a scan job that
\* tried to deliver ends with the payload taken, answered 422, or queued.
FallsBackToCache ==
  [][\A j \in ScanJob :
       scanPc[j] = "deliver" /\ scanPc'[j] = "idle" /\ proc' # "down" =>
         held[j] \in settled']_vars
=============================================================================
