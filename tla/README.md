# A TLA+ model of ITAM

ITAM collects an inventory of every host of an organisation and reports what deviates from an
approved baseline. An agent on each host scans it, keeps scans it cannot deliver in an encrypted
local queue, and posts them to a server; the server passes them through Kafka to workers that write
PostgreSQL and a graph database, evaluate rules against the baseline, send alerts, and push anomalies
to browsers over WebSockets.

This directory models the parts in which several goroutines, processes or machines share state, and what
is computed from a scan on its way; checks them with TLC; and proves most of the safety properties with
TLAPS for instances of every size.

## 1. Inventory

| Part (code) | State it keeps | Operations | Hard about it | Correct when |
|---|---|---|---|---|
| Agent cache (`internal/cache/sqlite.go`) | tables `pending_payloads`, `dead_letter`; the AES key | Push (evicts), Peek, Ack, Nack | callers overlap; batches read before others change the rows; key changes over restarts | bounded; an id has one fate; nothing is parked early |
| Agent delivery (`cmd/agent/main.go`) | payload in a scan job's hands, batch in a flush job's hands | scanFn, deliverOrCache, flushCache, shutdown | lost answers, deadlines, Stop that does not wait, crash | a payload is in one place; leaves only when answered, used up, evicted or abandoned; the queue drains |
| Scheduler (`internal/scheduler`) | cron entries | New, Start, Stop, UpdateScanCron | jobs overlap each other and themselves | at most what the cache tolerates |
| Agent client (`internal/transport/client.go`) | access and refresh token, expiry; tokens in the config file | Post, IsReachable, refresh | refresh under a mutex, best-effort save, two clocks | no token expires in flight; saved tokens keep the agent in, but for a torn file |
| Enrollment (`internal/transport/enrollment.go`, `itam-server/internal/enrollment`, `api/enroll.go`, `api/auth.go`) | enrollment tokens, hosts, credentials, CA files, agent's files | enroll, refresh, generate and revoke a token | one-time token consumed in a transaction of its own; files written one by one ; servers that create a CA at once or die over it | one host per token; an agent that has a certificate has its key; one CA |
| Ingest and admin API (`itam-server/internal/api`) | none of its own | one statement or one publish per request | partial failure between publish and update | what is answered 202 is in the log |
| Kafka loop (`itam-server/internal/kafka`) | position, committed offset, records in hand | Publish, poll, handle, commit | rebalance during handling, crash before commit, errors inside a fetch | nothing is committed unseen; order per host; catches up |
| pg-writer (`workers/pg_writer.go`, `db/postgres`) | snapshots, diffs, baselines | handle, SetBaseline, approve, a reset by hand | overlapping transactions under READ COMMITTED, redelivery, late scans | no record without its snapshots; an approved baseline stands until it is cleared; diffs lead to the latest snapshot |
| Graph writer (`workers/graph_writer.go`, `db/graph`) | the host's subgraph | UpsertScan in one transaction | late and repeated scans | graph of one scan, not of two, and the same as the history says |
| Anomaly engine (`anomaly/`) | dedup keys in Redis, anomalies | handle, dispatch, rules | SETNX, insert and publish can fail one by one; engines overlap; baseline and scan taken while the host changed | one alert per window; alerts refer to stored rows; no false alarm and none missed |
| Alert dispatcher (`alert/`) | alert_deliveries | handle, send | several channels, redelivery | each channel is tried for each alert |
| WebSocket hub (`hub/hub.go`) | sessions by organisation, a bounded channel each | register, unregister, subscribe, broadcast, pumps | unregister during broadcast, slow sessions, lock | no panic; order; nothing outlives its connection |
| Server start (`cmd/server/main.go`, `db/postgres/db.go`) | schema, advisory lock, workers | connect, migrate, start workers, shut down | two servers of two versions at once, death at any step | migrations in order and none that is recorded; nobody works without its schema; everybody gets up |
| Browser UI (`itam-ui/src`) | graph store, WebSocket store | applyAnomaly, resolveAnomaly, reconnect | timers after unmount, events during loads | - |
| Collector, SIEM (`internal/collector`, `internal/siem`) | none | Scan | lists, links, files and fields are read one by one, and may fail, while the host changes | what the rules make of it is right |

How they interact: cron starts scan and flush jobs as goroutines; both use one cache and one client; the
client posts to the ingest API, which publishes to Kafka keyed by host; three consumer groups
(`pg-writer`, `graph-writer`, `anomaly-engine`) read the same topic independently; the engine reads the
baseline pg-writer and administrators write, publishes alerts to Kafka, from which the dispatcher takes
them, and events to Redis, from which each server's hub takes them. `Itam-bitam-master/` is a
byte-identical copy of the agent, `itam-ui/node_modules` and `dist` are third-party or generated, and the
`.js` files beside the UI's `.ts` files are older compiled twins. The repository has no tests; its
documentation is comments and the manual `ITAM_ИНСТРУКЦИЯ.md`.

`PROJECT.json` lists the components with what is modelled of each, and under `hazards` each place in the
code where something hard to test can go wrong, with the property that would notice.

## 2. Modules

    PayloadCache          the Store: tables, key, Push, Peek, Ack, Nack, Reopen
      MCPayloadCache      its constants for TLC, and a bound on the calls of Push
      AgentDelivery       EXTENDS it: jobs, deadlines, tokens, shutdown, crash, restart
        MCAgentDelivery   its constants for TLC (clock readings, symmetry)
    DeliveryContract      abstract specification of what AgentDelivery promises per payload
    AgentDeliveryProofs   of the three
    AgentTokens           access and refresh tokens over time, both sides
    AgentTokensProofs
    ConsumerGroup         the poll loop and its environment
    LogContract           abstract specification of what a group promises of its topic
    ConsumerGroupProofs   of the two
    HostRecords           snapshots, diffs and baselines of one host: writers, requests, operators
    HostRecordsProofs
    ScanAlgebra           operators: Scan, computeDiffs, the rules, the subgraph
      ScanHistory         EXTENDS it: scans on their way into both databases
        MCScanHistory     its constants for TLC: moments of a machine, readings of it
    ScanHistoryProofs     of the two
    AnomalyEngine         dispatch of one finding
      AlertDispatcher     EXTENDS it: the alert topic and the dispatchers
    WsHub                 the hub for one organisation
    AlertAndHubProofs     of the three
    Enrollment            an agent's first start, handleEnroll, and the files in between
      MCEnrollment        its constants for TLC
    EnrollmentProofs
    ServerStart           migrations, the CA's files, start and end of the servers
      MCServerStart       its constants for TLC
    ServerStartProofs

Operators named "Mutant of X" are plausible defects of X; no specification uses them. Each shows, put in
X's place, that a property can fail (`mutants` in PROJECT.json).

### PayloadCache and AgentDelivery

`pending` and `dead` are the two tables as sets of records, `lastId` the AUTOINCREMENT counter, `gcmKey`
the key of the open store. Each Store method is one action because the store has one connection and each
method is one statement or one transaction. The order is `collected_at` in whole seconds (`Second`: any
reading of the wall clock, so it may step back), then the row id. `EvictCount` keeps the code's
arithmetic, which evicts as soon as the table holds `maxRows - 1` rows. A blob is the payload with the
key it was sealed with; decryption fails exactly under another key. A statement that fails ends its
method, and nothing has changed. Nack alone looks at no error of the two statements that park a row:
`Nack` has them succeed, as the ones before them in the same transaction did, and `NackUnchecked` has them
fail (section 6).

A scan job is `idle`, about to `deliver`, about to `cache`, or `expired` (its context is over). A flush
job is `idle`, about to `post` its next row, about to `ack` or `nack` it; `batch` is what is left of
the rows Peek returned. `Exchange` is one POST: `settled` (202 or 422), `denied` (any other answer below
500), `failed` (not taken), `lost` (taken, but the answer was lost or was a 5xx). The process is `up`,
`stopping` after `sched.Stop()` (which does not wait for running jobs), `closed` after the deferred
`store.Close()`, and `down`. A restart opens the table with the key of the refresh token that is on disk
then; `Refresh` rotates the token in memory and may fail to save it. `IsReachable` is the choice between
delivering and caching in `Collect`, and a flush that is not started in `FlushStart`.

`DeliveryContract` knows only a stage per payload (unborn, in flight, queued, parked, gone) and the set
of payloads the server has answered. `Contract` instantiates it with `StageOf`, the refinement mapping.

### ConsumerGroup

One action per branch of `Consumer.Run`. The broker and franz-go are external: `Assign` moves a
partition at any time, `Fetched` delimits what one `PollFetches` may return. `PollError` is the
`continue` at consumer.go:53, which drops the records that came with the error. A commit covers the
partitions the member still owns; whether a commit of a partition that was lost reaches the broker is
decided by the broker's generation check, which rejects it.

`LogContract` has no members: per partition a log, how much of it has been seen, what was handled, and
the committed offset. `Log` instantiates it with the records that were seen without a gap (`UpTo`).

### HostRecords

A step per database statement; those of SetBaseline's transaction show at the commit. `seen` is the
snapshot its UPDATE works from and `locked` the rows it has changed: what READ COMMITTED gives two
overlapping UPDATEs. A redelivered or late scan is one that `Take` picks again or out of order. `Reset` to
`CommitReset` is the manual's UPDATE (10.3), which an operator types: afterwards a host may have no
baseline ("manually cleared", baselines.go:12), and the next scan sets one. A row of `baselines` knows
whether it is automatic. `stands` is not in the code: it is true from the commit of an approval that
replaced all there was, with no writer in a transaction of its own, until a reset takes a row.
`ApprovalStands` says that then there is a baseline and none is automatic.

### ScanAlgebra and ScanHistory

`ScanAlgebra` has no state. A machine is what its systemd, /proc and interfaces say at one moment. A
reading is what the calls of one Scan meet while the machine changes: the listing of services and the one of
interfaces, each link in the fd directories, each of the four files below /proc/net, the list of pids,
and each field of each process have a moment of their own, or have failed. The operators follow the
collector: `BuildInodeToPIDMap` comes before `ParseProcNetFile`, which skips a file that fails, and
`CollectProcess` puts together fields that were read apart and leaves blank what could not be read.
`ScanOf` is the scan that comes of it,
`ComputeDiffs` its difference to another, `Findings` what the rules make of it against a baseline,
`GraphOf` what UpsertScan creates. Lists with unique keys are functions; processes stay a sequence since
several may share a key, of which Go's maps keep the last (`ByKey`). The fields no comparison looks at
are left out, `ports` have no address because the collector never sets one.

`ScanHistory` moves scans through pg-writer (`Take`, `InsertSnapshot`, `StoreDiffs`, `Break`) and
graph-writer (`UpsertScan`), late, repeatedly or not at all. `replayed` is not in the code: it is what a
reader gets who applies the entries of config_diffs, as they come, to the first snapshot. `complete` says
that no scan was late and no handler broke off between its snapshot and its diffs so far. `GraphAgrees`
and `HistoryReplays` speak of such histories. `FindingsReal` and `DeviationsFound` compare what a rule
says of two scans with what was so on the machine during either. `Glimpsed` is what a scan may show: a
service of some moment; a port with a socket of one moment and an open descriptor of another; a program
whose name, path and user each were those of one pid at some moment, or could not be read. `InSight` is what a
scan must show: what was so at all its moments, while the calls that would show it succeeded (the list;
the port's file and one link to its socket). A process whose exe cannot be read is in sight under a
blank one. What is found was glimpsed in the newest scan and not in sight in the baseline; what was in
sight in the newest and not glimpsed in the baseline is found. Between the two lies what a scan may or may
not show, and there the rules owe nothing.

### AnomalyEngine and AlertDispatcher

One finding. `dispatch` is a step per external call, `Break` its early return or the death of the
process, `Expire` the end of the Redis key's 15 minutes; `alerts` counts within the current
window only. `AlertDispatcher` joins the topic to it: `PublishAlert` is the engine's `Alert` with the
record it leaves, `Deliver` to `Done` are handle with a step per channel and per INSERT (whose error is
ignored), `Abandon` a process that dies or loses its partition, after which the alert comes again.
`tried` and `reached` record what was done. The run has one dispatcher: a second process is an `Abandon`
and a `Deliver`; the proofs have any number.

### ServerStart

`Start` to `Unlock` are Connect and migrate, a step per statement; `Stat` to `LoadKey` LoadOrCreateCA,
a step per file; then the workers, `Listen`, and `Stop` and `Shutdown`, the end of main. `Die` is a
`log.Fatalf` or a kill at any step, after which `Start` is docker's restart; a file in hand may be left
empty. Servers have different numbers of migration files (`FilesOf`), as during an upgrade. `raced`
records that two servers were generating a CA at once.

### AgentTokens

Time is a number of units of the server's clock; the agent's may differ by `Skew`. A token is its expiry.
`ValidToken` is the test under the mutex, `HandleRefresh` the server's answer, `Refreshed` the rest of
refresh with the save, which may leave the file as it was or, since os.WriteFile truncates first, `Torn`,
`End` every other end of a call, `Restart` transport.New with what is on disk. `Tick` lets no request
last longer than `Timeout`, the http.Client's. The unit stands for half a minute in what the code fixes:
the margin of 2 minutes (`Margin`) must cover the 30 seconds of a request and the clocks' difference
(`TimeAssumption`). The run's numbers are smaller but as tight.

### WsHub

One organisation. `Register`, `CheckOrg` and `Subscribe` are Upgrade; `Broadcast` and `Offer` one
iteration each of the subscriber's loop and of the loop under the read lock; the rest are the two pumps.
Lock acquisition is a guard (`LockFree`).

### Enrollment

Agents (`pc`, one per machine) and requests (`step`, one per call of Enroll) interleave; the number of
a call stands for the key pair it generated and the certificate the server signs for it. `StartUp` and
`StartEnroll` are main's two ways past its enrollment block, `Loadable` what `transport.New` needs of
the three files, `WriteCert`, `WriteKey`, `WriteCA` and `Save` one file each. `Crash` covers the death
of the process and a failed write, which is fatal too: the file in hand stays as it was or is left
empty. On the server `Lookup` and `Consume` are the transaction of ValidateToken with its row lock,
`UpsertHost` the statement with its two unique constraints, `Answer` the rest of handleEnroll when its
answer still finds the waiting call, `Break` each of its other ends. The refusal of a token that has
expired or was revoked is a choice in `Lookup`. `Configure` is the operator, who may write any token,
also a used one or that of another machine, into the config of an agent that is not enrolled.

## 3. Runs

| Run | Bounds | What it shows |
|---|---|---|
| payload_cache | 2 payloads, 2 keys, queue of 3, batch of 2, 2 attempts, 5 calls of Push | `Bounded`, `OneFate` whatever the callers do, the clock stepping back |
| agent_delivery | 3 payloads, 2 keys, queue of 3, batch of 2, 1 attempt, 2 scan jobs, 1 flush job | types; `SinglePlace`; each step is one of `DeliveryContract` |
| agent_drains | 2 payloads, 2 keys, queue of 3, batch of 2, 2 attempts, 1 scan and 2 flush jobs | `DeadMeansExhausted` with flush jobs on the same rows; `Drains` under fairness, with refreshes, restarts and rows that cannot be decrypted |
| agent_tokens | 3 callers, lives of 5 and 10 units, margin 2, limit 1, skew 1, 24 units of time | `SentValid`, `KeepsAccess` |
| consumer_group | 2 members, 1 partition, 3 records, fetches of up to 2 | `CommittedWasSeen`, `SeenInOrder`, `CatchesUp`; each step is one of `LogContract` |
| host_records | 2 scans, 1 writer, 1 administrator, 1 operator | records rest on snapshots (`TypeOK`), `ApprovalStands`, `AloneLeavesOne`, `Approved` |
| scan_history | 8 readings of a machine with 4 states, over one or two moments, 3 scans | `HistoryReplays`, `GraphAgrees`, `FindingsReal`, `DeviationsFound` |
| alert_path | 2 engines, 1 dispatcher, 2 channels, 1 alert at a time | `OneAlertPerWindow`, `EveryChannelTried`, `ReachesEachChannel` |
| ws_hub | 2 sessions at a time, 3 in all, 2 subscribers, 2 events, channels of 1 | `NoPanic`, `InOrder`, `SessionEnds` |
| enrollment | 2 machines of one name, 3 tokens of 2 organisations, 3 requests | `TokenOnce`, `StartsAgain`, `HostKnown` |
| server_start | 2 servers with 1 and 2 migrations, 3 deaths or shutdowns | `MigratesInOrder`, `WorksOnSchema`, `OneCA`, `Starts` |
| hub_subscriber | smaller | a comment the code does not keep (section 6) |

Why the bounds are enough:

* The queue of three is the smallest in which an eviction leaves a row, so that the choice of the evicted
  row matters, and in which a batch is smaller than the queue; the third payload is the one that evicts.
  Five calls of Push fill the store's queue and evict twice, which an eviction that starts one row late
  needs to overfill it.
* Two flush jobs are what it takes for one to settle a row under the other. Two keys give one rotation
  and so one generation of unreadable rows. One clock reading is enough for the agent's runs since ids
  order the rows within it; `payload_cache` has two, and the proofs cover every clock.
* One partition is enough for the loop because partitions share nothing but the round's `commitErr`, and
  the comments' claims are per record; three records and fetches of two give a round that fails between
  two that succeed.
* A writer, an administrator and an operator in `host_records` make a pair of overlapping SetBaseline
  transactions, which leaves two active rows, and the next one that cleans up; two writers with one scan,
  or two administrators, are two transactions of one kind and left to the proofs, which have any number.
* Three WebSocket sessions are needed for an organisation that becomes empty while a handler is between
  `register` and its check, after which a subscriber runs.
* In `enrollment` the second request of a machine is the first that meets what a broken-off one left in
  its files, the third leaves room for the other machine; one name for both machines and two
  organisations make every case of UpsertHost's conflict happen.
* `agent_drains` has a second key for one refresh that succeeds, with everything the server may then
  answer, and for a row that stays sealed under the first. TLC's symmetry is unsound for liveness; the
  constraint `FirstComesFirst` keeps the behaviours that start with one of the keys and collect one of
  the payloads first, of which the others are copies.
* In `scan_history` three scans are a baseline or first snapshot, a newer one and one that comes between
  or again; the readings are a machine at work, a service that crashed, two processes of one program of
  which only the first is root's, a port number in use over tcp and udp, changes between the links and
  the files and between the fields of one process, links, files, fields and lists that cannot be read,
  and events for a known, for an unknown and for no process.
* One alert at a time is enough in `alert_path` because handle keeps nothing from one to the next; two
  channels are the fewest of which one can fail.
* In `server_start` the server with more migrations may come first or second, and three deaths reach two
  servers once each and one of them again.
* The clock of `agent_tokens` runs past two lives of the refresh token, so that an agent can lose its
  access and every pair of refreshes happens.
* Symmetry is used only in runs without liveness properties.

`ws_hub` and `hub_subscriber` set CHECK_DEADLOCK FALSE: when the bounded sessions and events are used up
the hub is idle, as a server nobody is connected to. Every other run checks deadlock.

## 4. Fairness

Fairness is weak and per goroutine: a goroutine that can take its next step does. Nothing is assumed
of answers, tokens, commits, statements or the broker's assignments.

* `AgentDelivery`: cron starts a flush job every five minutes (`scheduler.go:42`), and the server
  is reachable at some of those times; a started job runs on. `Drains` assumes besides that eventually
  the process stays up, that rows it cannot decrypt do not fill the window of Peek (see 6), and that in
  the end every flush job gets through its rows before its deadline. It concludes that again and again
  nothing but such rows is queued.
* `ConsumerGroup`: a running loop goes on and the broker assigns orphaned partitions. `CatchesUp`
  assumes that failures, restarts and rebalances stop, and concludes that everything is fetched, and is
  committed unless the last round of the owner failed.
* `HostRecords`: scans keep coming (cron), and handlers and transactions run on; no approval and no reset
  need ever come. `Approved` assumes that failures stop, and concludes that after every reset there is a
  baseline again.
* `AlertDispatcher`: scans with the finding keep coming, the key expires (a TTL), an alert is delivered
  until it is handled, its round is committed, and handlers run on. `ReachesEachChannel` assumes
  besides that failures stop.
* `ServerStart`: each server's next step is taken, whichever it is: a process runs on, and docker starts
  one that has ended (`restart: unless-stopped`, docker-compose.yml). `Starts` excuses broken CA files.
* `WsHub`: goroutines run on; `Unregister` is strongly fair because `sync.RWMutex` admits no new reader
  while a writer waits; a pump on a closed connection notices (a read error, the next ping).

## 5. Proofs

Every invariant and every action property that a run checks is a theorem, and so are both refinements;
what is left to TLC is liveness. All hold for arbitrary constants under the assumptions named in the
modules: sizes are positive, life times fit together (`TimeAssumption`), what names nothing
(NoPayload, Nobody) is no member of the set it is not in, a reading is what calls of the operating system
may return (`ReadingAssumption`). Sets of payloads, keys, jobs, members, sessions and clock readings may be
infinite; that tables and sets of transactions stay finite is proved where it is needed.

* `AgentDeliveryProofs`, of the store: `CacheCorrect`: any sequence of Store calls keeps `CacheTypeOK`,
  `Bounded`, `OneFate` and `AttemptsLeft`. The arithmetic is in lemmas on `IsOldest`: evicting `EvictCount`
  rows and adding one never exceeds MaxRows.
* Of the agent: `TypeCorrect`, `CacheStaysBounded`, `IdsHaveOneFate`, `PayloadInOnePlace` and
  `UnreadableRowsUntouched`. The inductive invariant `IInv` joins to the cache's invariant: the types;
  `SinglePlace`; `Accounted` (whatever is held, queued or dead was collected, so a fresh payload is
  nowhere else); `BatchKnown` (a row in a batch carries this process' key, and if its id is still queued
  it is the same payload: without it a late Nack could park another payload, and an Ack could remove an
  unreadable row); `AckAnswered` (a job about to Ack has the server's answer for that row: without it the
  contract's `Settle` cannot be shown).
* `ParkedAfterMaxTries`: a row's attempts alone do not bound the failed deliveries from below, since
  overlapping jobs have failed on a row and not yet counted it. `FailuresCounted` adds them: attempts plus
  the jobs that are about to Nack the row (`AboutToNack`) never exceed its payload's failures. It needs
  that finitely many jobs run, which each step keeps.
* `AgentKeepsContract`: `Spec => KeepsContract`. Under `IInv` each action moves stages as the contract
  allows or moves none; one lemma per kind of move (collect, answer, deliver, enqueue, settle, park,
  abandon) says what an action does to `StageOf`.
* `ConsumerGroupProofs`: `TypeCorrect`, `NoRecordLost`, `FirstCallsInOrder`. A commit covers a member's whole
  position, so `PositionCovered` is needed (what is before the owner's position was seen or is in its
  hand), and for the order the same of every hand, an old owner's included (`HandInOrder`).
  `GroupKeepsLog`: the group implements LogContract. A first call is the contract's `Call` at the end of
  what was seen, a repeated one before it, a fetch with an error its `Drop`; rounds, assignments and
  crashes are stutters. It needs besides that only produced records are seen (`OnlyProduced`).
* `HostRecordsProofs`: `TypeCorrect`, `ApprovalNotLost` and `ApprovalLeavesOne`, for any number of scans,
  writers, administrators and operators. `Working` says whose scan is stored at which point of handle, `Locks`
  that a transaction past its UPDATE has locked every row it found that is still active, and no row is
  locked twice; `LatestExists` and `IdsFinite` that a latest snapshot and a fresh id exist. `ApprovalNotLost`
  needs besides `NoneAutomatic` (while an approval stands no writer has got as far as SetBaseline: each looks
  for an active baseline first and finds one) and, from `Locks`, that a later approval takes rows away only
  in the step that adds its own.
* `AlertAndHubProofs`, of the hub: `HubTypeCorrect`, `HubNeverPanics` and `EventsInOrder`, for any number of
  sessions, subscribers and events. In `HubInv`, `Sessions` ties the lock to the channels (a broadcast in
  progress offers only to registered sessions, whose channels are open: unregister closes a channel after
  it has taken the session out, and needs the lock for it). For the order, `Ascending` and `Past` say that a
  session's channel is sorted and later than what it has shown, and `InLine` that what a single subscriber
  still has in its inbox is later than what is in any channel.

* `EnrollmentProofs`: `TypeCorrect`, `TokensAcceptedOnce`, `EnrolledAgentsStart` and `EnrolledHostsKnown`,
  for any machines, names, tokens and organisations, under `EnrollAssumption`. The inductive invariant
  adds `LockHeld` (a request that is about to spend a token holds its row, alone, and found it unspent:
  without it two requests could both pass the check), `Spent` (an accepted request's token is used and
  its request is past that), `AnswerKnown` (an answer on its way names a row of hosts) and `AgentsSound`
  (what an enrolling agent has written so far is from the call it is in, its config is not yet an
  enrolled one, and every enrolled config, on disk or in memory, has its files and its row).

* `ScanHistoryProofs`: `DiffsReplay` is about the operators alone: for any two scans, the entries of
  `ComputeDiffs` applied to what is tracked of the first give what is tracked of the second. One lemma
  shows it for `GenericDiff` under any comparison that tells apart what is tracked, four apply it to the
  code's. `TypeCorrect`, `HistoryCorrect` and `DatabasesAgree` follow with `Ordered` (the snapshot that
  pg-writer compares with is still the latest when it stores the diffs: nobody else inserts one), `History`
  (between a snapshot and its diffs the history is exactly one scan behind) and `Pictured` (the graph is
  that of one scan). Any set of readings, any number of scans. `DiffsExact`: an entry exists exactly if
  something tracked differs.
* `NoFalseAlarm` and `NoDeviationMissed` are about two readings, whatever they are under
  `ReadingAssumption` (a directory lists what is in it all the while). `ShownWasSo` says that what a scan
  shows was glimpsed, `InSightIsShown` that what was in sight is shown, each from lemmas on the services,
  the ports and the processes; each rule follows from the two. That the merge of SIEM events loses no
  program of the baseline is an induction over their number; the library's induction theorems take an
  operator, so `InductionSet` states it for a set, from the well-foundedness of < on Nat.
  `BindChangeNeverFires` is item 15 of the next section.
* `AlertAndHubProofs`, of the alert path: `EnginesOnTheirOwn` (the alert path implements AnomalyEngine), so
  that `OneAlert` and `NothingUnstored` are proved of the engines alone, from `OneHolder` (the key exists as
  long as an engine is on its way to an alert or has sent one; only one is, and there was no alert
  before); `TypeCorrect`, and `AlertsReachAllChannels` from `TriedSoFar` (a handler has tried every channel
  before the one it is at).
* `ServerStartProofs`: `TypeCorrect`, `MigrationsInOrder`, `NobodyWorksWithoutSchema` and `OneCAForAll`, for
  any number of servers, files and deaths. `Migrated` says how far each server must be for the program
  point it is at, `Files` what is on disk and in memory as long as nobody raced: a server that generates a
  CA is the only one, and a key on disk is the certificate's.
* `AgentTokensProofs`: `TypeCorrect`, `NoTokenExpiresInFlight` and `SavedTokensKeepAccess`, for any life times
  and clocks under `TimeAssumption`. `Outlives` carries the first from the test to the end of the request,
  `Fresh` says of the second that whole tokens, on disk or in memory, are hardly older than the last save,
  and that the client's are torn only if those on disk are: a torn file needs a restart to take access
  away, and the next save mends it.

Only model-checked: `Drains`, `CatchesUp`, `Approved`, `SessionEnds`, `ReachesEachChannel` and `Starts`.
They are liveness properties under fairness, for which the prover has neither ENABLED nor well-founded
orders over steps. `OncePerOrg` and the other claims of section 6 are refuted.

## 6. Where the code and its comments differ

Found while modelling. The third is among the runs (`hub_subscriber`). Of five more the modules state what
the comment says, and TLC finds the counterexample with a configuration of its own: `agent_fallback`
(item 1, `FallsBackToCache`), `group_commits` (2, `FailedNotCommitted`), `enroll_shared` (4, `OwnRow`),
`auto_baseline` (5, `AutoOnlyFirst`) and `nack_errors` (22, `MovesRow`); section 8 has the commands. The
others are recorded from reading.

1. `main.go:133` "On failure it falls back to the local cache so no data is lost": a 401, 403 or 429 is
   treated like success, and the scan is gone. So is one whose job runs out of time between the POST and the
   Push, which shares its expired context; the contract counts both, as answered and as Abandon.
2. `consumer.go:12` "Returning an error causes the record to be nacked (offset not committed)": the
   position stays past it, and the next successful round commits past it.
3. `hub.go:55` "call once per org on first client connect": the session registers before the check, finds
   its organisation in the map, and no subscriber is started (`hub_subscriber`).
4. `001_schema.sql:30` "one row per enrolled endpoint": a second machine with the name of an enrolled one
   of the same organisation gets the first one's row and id, and both send scans under it.
5. `baselines.go:72` "when a host has no existing baseline": the check is outside the transaction, so
   the writer replaces a baseline an administrator approved in between. `ApprovalStands` shows that no
   later scan does: `stands` leaves out approvals that overlap a writer's transaction. It also ends with
   a reset by hand, after which "the baseline is created again with the next scan" (manual 10.3).
6. `scheduler.go:60` "waiting for any running job to finish": the context cron's Stop returns is dropped.
   In the model the store closes under running jobs (`CloseStore`), which the contract counts as Abandon.
7. `sqlite.go:87` "If the queue is at capacity": a row is evicted when one place is still free.
8. `baselines.go:35` "deactivates all previous baselines": two overlapping SetBaseline transactions leave
   two active rows. `AloneLeavesOne` shows that the next one that runs alone cleans up.
9. After a token rotation and a restart, rows sealed before are unreadable; a batch of them at the head of
   the queue keeps every later row from being flushed. `Drains` therefore assumes that they leave room in
   the window of Peek.
10. A crash between a snapshot and its diffs loses the diffs: the redelivered scan finds itself as the
    latest snapshot. A scan that arrives late is compared with a newer one, and its entries lead the history
    back to it; in the graph it replaces the newer one. `complete` marks where this begins.
11. `consumer.go:53`: an error for one partition drops the fetched records of the others.
12. `engine.go:93` "Suppress duplicate alert dispatch": the key is taken before insert and publish, so for
    15 minutes a finding nobody was alerted of is suppressed too. `ReachesEachChannel` shows that a later
    window makes up for it.
13. `enroll.go:39`: a token is spent before anything else is done; after a failure behind it the host
    needs a new one (`Configure`).
14. `client.go:151`, `config.go:98`: a refresh overwrites the config file in place and ignores errors. A
    crash in the middle, or a disk that is full, can leave it empty, and the agent then starts as one that
    never enrolled. While it runs it does not notice, and a later save mends the file: `KeepsAccess` says
    that this is the only way in which saved tokens are lost (`Torn`).
15. `rules.go:29` PORT_BIND_CHANGE, of severity CRITICAL, never fires: the collector sets no BindAddr
    (`process.go:72`). It also calls every port tcp, and keys ports by their number alone, so that of a
    number in use over both protocols only one owner is reported.
16. `rules.go:84` SERVICE_CRASHED needs the service in both scans; one that has disappeared from systemd is
    not reported. A baseline with a missing section makes everything in that section new; so does one with a
    skipped file below /proc/net (`portmap_linux.go:36`) or a process field that could not be read
    (`process.go:33`). As fields are read one by one, a process may be reported with a name, a path and
    a user that it never had at the same time: `FindingsReal` says of each only that it was so.
17. `dispatcher.go:74`: a message that fails is recorded and never sent again, `attempts` stays 1; an error of
    GetHostByUUID counts as a host that does not exist, and the alert is dropped. `main.go:153` passes the
    dispatcher no channels.
18. `ca.go:28` looks for the certificate only. After a crash between the two files, or in one of them, every
    start fails (`BrokenCA`) until somebody removes ca.crt.
19. The manual (14.1) starts three replicas ("Серверы без состояния"): servers that find no certificate at
    the same time keep different CAs in memory, or later load a certificate and a key of different ones;
    SignPublicKey then fails for an agent whose enrollment token is already used up. `raced` marks it, and
    `OneCA` is claimed without it.
20. The manual (14.2) puts PgBouncer with `POOL_MODE: transaction` before PostgreSQL: the session-level
    `pg_advisory_lock` then belongs to whichever connection executed it, and `Lock` no longer holds.
    The model has direct connections, as in docker-compose.yml.
21. `client.go:135`: an agent that is off, or whose saves fail until it restarts, for longer than the refresh
    token lives (`refresh_ttl_hour`) is refused from then on, and does not enroll again because it has a
    certificate. The 2 minutes' margin covers clocks that differ by up to a minute and a half; a clock
    that is further off loses scans to 401 (see 1).
22. `sqlite.go:165` "when maxTries is reached, moves the row to the dead_letter table": the errors of the INSERT
    (188) and of the DELETE (191) are ignored, and the transaction commits. On a full disk a payload may so
    be gone without a dead letter, or stay queued and be parked again. What the runs and theorems say of
    Nack is for statements that succeed.

## 7. Not modelled, and the plan

A listing of systemd's services and a file below /proc/net are taken to be of one moment each, though the
kernel hands a long file over in pieces. Not planned: the formats of /proc and of Wazuh's file, rendering
and the UI's WebSocket hook, JSON, TLS and X.509, cron's syntax, configuration defaults, read-only
queries and requests of a single statement (most of api/admin.go), the hub's fan-out over servers (each
server has its own, fed by one Redis channel), a machine that is suspended in the middle of a request.

Next, in this order:

1. A composition: LogContract delivering to ScanHistory's writers, so that the order and the repetitions
   `Take` allows are those of the log.
2. Several servers' hubs on one Redis channel.
3. Two writers and an operator in one run of HostRecords, as far as TLC can be brought to it; the proofs
   have them.

## 8. Running

    tlc -workers 2 -config agent_delivery.cfg MCAgentDelivery
    tlc -workers 2 -config consumer_group.cfg ConsumerGroup
    tlapm ConsumerGroupProofs.tla

Each cfg belongs to the module PROJECT.json names for its run. Each run takes between a second and
three minutes on two cores. The claims that are not kept, besides `hub_subscriber`:

    tlc -config agent_fallback.cfg MCAgentDelivery
    tlc -config group_commits.cfg ConsumerGroup
    tlc -config enroll_shared.cfg MCEnrollment
    tlc -config auto_baseline.cfg HostRecords
    tlc -config nack_errors.cfg MCPayloadCache
