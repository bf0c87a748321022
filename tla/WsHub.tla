------------------------------- MODULE WsHub --------------------------------
(***************************************************************************)
(* The WebSocket hub for one organisation, itam-server/internal/hub/hub.go *)
(* (byOrg keeps organisations apart): each browser session has a handler   *)
(* that registers it, a readPump and a writePump; each subscriber          *)
(* goroutine takes the organisation's anomaly events from Redis and offers *)
(* them to every registered session, under the hub's read lock.            *)
(*                                                                         *)
(* Redis and the sockets are external: a subscriber gets what is published *)
(* after it subscribed, in order; a read or a write may fail at any time,  *)
(* and fails on a connection that has been closed.  An event is its number.*)
(***************************************************************************)
EXTENDS Naturals, FiniteSets, Sequences

CONSTANTS
  Client,      \* bound: browser sessions at one time
  MaxSessions, \* bound: and one after the other
  Subscriber,  \* bound: goroutines that Subscribe starts
  MaxEvents,   \* bound: events published
  Cap          \* capacity of client.send (256)

ASSUME HubAssumption == MaxSessions \in Nat /\ MaxEvents \in Nat /\ Cap \in Nat \ {0}

VARIABLES
  sessions,    \* sessions so far
  registered,  \* byOrg[orgID]; the map has no entry when it is empty
  send,        \* each session's send channel: what is in it
  closed,      \* and whether it has been closed
  conn,        \* the connection is open
  upgrade,     \* where the handler is: new, check, subscribe, done
  reader,      \* the readPump: off, reading, leaving, closing, done
  writer,      \* the writePump: off, running, done
  shown,       \* the last event written to the browser
  running,     \* subscriber goroutines that have been started
  inbox,       \* events that have arrived at each of them
  offering,    \* the sessions its broadcast has still to offer its event to
  published,   \* events published so far
  panicked     \* a send on, or a close of, a closed channel

channelVars == <<send, closed>>
pumpVars == <<conn, reader, writer, shown>>
subVars == <<running, inbox, offering>>
hubVars == <<sessions, registered, channelVars, upgrade, pumpVars, subVars, published, panicked>>

Broadcasting(i) == offering[i] # {}

\* h.mu.Lock() is granted while no broadcast holds the read lock.
LockFree == \A i \in Subscriber : ~Broadcasting(i)

-----------------------------------------------------------------------------
(* Upgrade                                                                 *)

\* The handshake, register, and the two pumps of a new session, in the place of
\* none or of one that is over.
Register(c) ==
  /\ upgrade[c] \in {"new", "done"} /\ writer[c] \in {"off", "done"}
  /\ reader[c] \in {"off", "done"} /\ LockFree
  /\ sessions < MaxSessions /\ sessions' = sessions + 1
  /\ registered' = registered \cup {c}
  /\ send' = [send EXCEPT ![c] = <<>>] /\ closed' = [closed EXCEPT ![c] = FALSE]
  /\ shown' = [shown EXCEPT ![c] = 0]
  /\ conn' = [conn EXCEPT ![c] = TRUE]
  /\ reader' = [reader EXCEPT ![c] = "reading"]
  /\ writer' = [writer EXCEPT ![c] = "running"]
  /\ upgrade' = [upgrade EXCEPT ![c] = "check"]
  /\ UNCHANGED <<subVars, published, panicked>>

\* "Start org subscriber if not already running": is there an entry for the org?
CheckOrg(c) ==
  /\ upgrade[c] = "check"
  /\ upgrade' = [upgrade EXCEPT ![c] = IF registered = {} THEN "subscribe" ELSE "done"]
  /\ UNCHANGED <<sessions, registered, channelVars, pumpVars, subVars, published, panicked>>

Subscribe(c) ==
  /\ upgrade[c] = "subscribe"
  /\ \E i \in Subscriber \ running : running' = running \cup {i}
  /\ upgrade' = [upgrade EXCEPT ![c] = "done"]
  /\ UNCHANGED <<sessions, registered, channelVars, pumpVars, inbox, offering, published, panicked>>

-----------------------------------------------------------------------------
(* Subscriber goroutines                                                   *)

\* The anomaly engine publishes an event; Redis keeps it for nobody.
Publish ==
  /\ published < MaxEvents
  /\ published' = published + 1
  /\ inbox' = [i \in Subscriber |-> IF i \in running THEN Append(inbox[i], published') ELSE inbox[i]]
  /\ UNCHANGED <<sessions, registered, channelVars, upgrade, pumpVars, running, offering, panicked>>

\* Mutant of Broadcast: each event is broadcast by a goroutine of its own.
BroadcastConcurrently(i) ==
  /\ inbox[i] # <<>> /\ ~Broadcasting(i)
  /\ \E k \in 1..Len(inbox[i]) :
       LET rest == SubSeq(inbox[i], 1, k - 1) \o SubSeq(inbox[i], k + 1, Len(inbox[i]))
       IN  IF registered = {}
           THEN inbox' = [inbox EXCEPT ![i] = rest] /\ UNCHANGED offering
           ELSE /\ inbox' = [inbox EXCEPT ![i] = <<inbox[i][k]>> \o rest]
                /\ offering' = [offering EXCEPT ![i] = registered]
  /\ UNCHANGED <<sessions, registered, channelVars, upgrade, pumpVars, running, published, panicked>>

\* broadcast takes the read lock; with no session to serve it is over at once.
Broadcast(i) ==
  /\ inbox[i] # <<>> /\ ~Broadcasting(i)
  /\ IF registered = {}
     THEN inbox' = [inbox EXCEPT ![i] = Tail(@)] /\ UNCHANGED offering
     ELSE offering' = [offering EXCEPT ![i] = registered] /\ UNCHANGED inbox
  /\ UNCHANGED <<sessions, registered, channelVars, upgrade, pumpVars, running, published, panicked>>

\* After the last session the read lock is given back and the event is done with.
Offered(i, c) ==
  /\ offering' = [offering EXCEPT ![i] = @ \ {c}]
  /\ inbox' = [inbox EXCEPT ![i] = IF offering[i] = {c} THEN Tail(@) ELSE @]
  /\ UNCHANGED <<sessions, registered, closed, upgrade, pumpVars, running, published>>

\* Mutant of Offer: the send has no default case, and waits for room.
OfferBlocking(i, c) ==
  /\ c \in offering[i] /\ Len(send[c]) < Cap
  /\ send' = [send EXCEPT ![c] = Append(@, Head(inbox[i]))]
  /\ panicked' = (panicked \/ closed[c])
  /\ Offered(i, c)

\* Mutant of Offer: the queue of a slow session grows.
OfferUnbounded(i, c) ==
  /\ c \in offering[i]
  /\ send' = [send EXCEPT ![c] = Append(@, Head(inbox[i]))]
  /\ panicked' = (panicked \/ closed[c])
  /\ Offered(i, c)

\* One iteration of the loop: put the event in the channel, or drop it for a
\* slow session.  A send on a closed channel panics, full or not.
Offer(i, c) ==
  /\ c \in offering[i]
  /\ send' = [send EXCEPT ![c] = IF Len(@) < Cap /\ ~closed[c]
                                 THEN Append(@, Head(inbox[i])) ELSE @]
  /\ panicked' = (panicked \/ closed[c])
  /\ Offered(i, c)

-----------------------------------------------------------------------------
(* The pumps                                                               *)

\* ReadMessage returns an error.
ReadFails(c) ==
  /\ reader[c] = "reading"
  /\ reader' = [reader EXCEPT ![c] = "leaving"]
  /\ UNCHANGED <<sessions, registered, channelVars, upgrade, conn, writer, shown, subVars, published, panicked>>

\* Mutant of Unregister: it does not take the lock.
UnregisterUnlocked(c) ==
  /\ reader[c] = "leaving"
  /\ registered' = registered \ {c}
  /\ closed' = [closed EXCEPT ![c] = TRUE] /\ panicked' = (panicked \/ closed[c])
  /\ reader' = [reader EXCEPT ![c] = "closing"]
  /\ UNCHANGED <<sessions, send, upgrade, conn, writer, shown, subVars, published>>

\* The readPump's deferred unregister, under the lock.
Unregister(c) ==
  /\ reader[c] = "leaving" /\ LockFree
  /\ registered' = registered \ {c}
  /\ closed' = [closed EXCEPT ![c] = TRUE] /\ panicked' = (panicked \/ closed[c])
  /\ reader' = [reader EXCEPT ![c] = "closing"]
  /\ UNCHANGED <<sessions, send, upgrade, conn, writer, shown, subVars, published>>

\* And its conn.Close.
ReaderEnds(c) ==
  /\ reader[c] = "closing"
  /\ reader' = [reader EXCEPT ![c] = "done"] /\ conn' = [conn EXCEPT ![c] = FALSE]
  /\ UNCHANGED <<sessions, registered, channelVars, upgrade, writer, shown, subVars, published, panicked>>

\* The writePump takes an event and writes it; a failed write ends it.
Write(c) ==
  /\ writer[c] = "running" /\ send[c] # <<>>
  /\ send' = [send EXCEPT ![c] = Tail(@)]
  /\ \/ /\ conn[c] /\ shown' = [shown EXCEPT ![c] = Head(send[c])]
        /\ UNCHANGED <<conn, writer>>
     \/ /\ writer' = [writer EXCEPT ![c] = "done"] /\ conn' = [conn EXCEPT ![c] = FALSE]
        /\ UNCHANGED shown
  /\ UNCHANGED <<sessions, registered, closed, upgrade, reader, subVars, published, panicked>>

\* A ping fails, or the channel is closed and drained: the writePump ends.
WriterEnds(c) ==
  /\ writer[c] = "running"
  /\ writer' = [writer EXCEPT ![c] = "done"] /\ conn' = [conn EXCEPT ![c] = FALSE]
  /\ UNCHANGED <<sessions, registered, channelVars, upgrade, reader, shown, subVars, published, panicked>>

HubInit ==
  /\ sessions = 0 /\ registered = {} /\ published = 0 /\ panicked = FALSE
  /\ send = [c \in Client |-> <<>>] /\ closed = [c \in Client |-> FALSE]
  /\ conn = [c \in Client |-> FALSE] /\ shown = [c \in Client |-> 0]
  /\ upgrade = [c \in Client |-> "new"]
  /\ reader = [c \in Client |-> "off"] /\ writer = [c \in Client |-> "off"]
  /\ running = {} /\ inbox = [i \in Subscriber |-> <<>>]
  /\ offering = [i \in Subscriber |-> {}]

HubNext ==
  \/ \E c \in Client : \/ Register(c) \/ CheckOrg(c) \/ Subscribe(c)
                       \/ ReadFails(c) \/ Unregister(c) \/ ReaderEnds(c)
                       \/ Write(c) \/ WriterEnds(c)
  \/ \E i \in Subscriber : Broadcast(i) \/ \E c \in Client : Offer(i, c)
  \/ Publish

HubSpec == HubInit /\ [][HubNext]_hubVars

\* Goroutines run on, and the lock is granted in the end (sync.RWMutex keeps new
\* readers out while a writer waits).  A pump whose connection is closed finds out
\* (a read error; the next ping).  Nothing else need fail, come or be published.
HubFairness ==
  /\ \A c \in Client : /\ WF_hubVars(ReadFails(c) /\ ~conn[c])
                       /\ SF_hubVars(Unregister(c)) /\ WF_hubVars(ReaderEnds(c))
                       /\ WF_hubVars(Write(c)) /\ WF_hubVars(WriterEnds(c) /\ (~conn[c] \/ closed[c]))
  /\ \A i \in Subscriber : WF_hubVars(Broadcast(i)) /\ WF_hubVars(\E c \in Client : Offer(i, c))

HubFairSpec == HubSpec /\ HubFairness

-----------------------------------------------------------------------------
\* Every variable has its type; a broadcast in progress has an event to offer and
\* a slow session's channel never grows past its capacity.
HubTypeOK ==
  /\ sessions \in 0..MaxSessions /\ registered \subseteq Client /\ running \subseteq Subscriber
  /\ send \in [Client -> Seq(1..MaxEvents)] /\ \A c \in Client : Len(send[c]) <= Cap
  /\ closed \in [Client -> BOOLEAN] /\ conn \in [Client -> BOOLEAN]
  /\ upgrade \in [Client -> {"new", "check", "subscribe", "done"}]
  /\ reader \in [Client -> {"off", "reading", "leaving", "closing", "done"}]
  /\ writer \in [Client -> {"off", "running", "done"}]
  /\ shown \in [Client -> 0..MaxEvents]
  /\ inbox \in [Subscriber -> Seq(1..MaxEvents)]
  /\ offering \in [Subscriber -> SUBSET Client]
  /\ \A i \in Subscriber : Broadcasting(i) => inbox[i] # <<>>
  /\ published \in 0..MaxEvents /\ panicked \in BOOLEAN

\* However sessions come and go during broadcasts, nothing is sent on a closed
\* channel and no channel is closed twice: the server does not panic.
NoPanic == ~panicked

\* With one subscriber, a session sees events in the order of their publication
\* and none of them twice, whatever is dropped.
InOrder ==
  [][\A c \in Client :
       Cardinality(running) <= 1 /\ Write(c) /\ writer'[c] = "running" => shown'[c] > shown[c]]_hubVars

\* When either pump of a session ends, the other one ends too and the session is
\* taken out of the hub: no goroutine, channel or map entry outlives the
\* connection, and no slow session keeps the hub's lock from the others.
SessionEnds ==
  \A c \in Client :
    (writer[c] = "done" \/ reader[c] \in {"leaving", "closing", "done"}) ~>
      (writer[c] = "done" /\ reader[c] = "done" /\ c \notin registered)

-----------------------------------------------------------------------------
(* What NoPanic and InOrder rest on (AlertAndHubProofs)                    *)

\* A session is in the hub until its readPump takes it out, its channel is open
\* until then, and a broadcast, which holds the lock, offers to such sessions only.
Sessions ==
  /\ \A c \in Client : c \in registered <=> reader[c] \in {"reading", "leaving"}
  /\ \A c \in registered : ~closed[c]
  /\ \A i \in Subscriber : offering[i] \subseteq registered

\* Finitely many subscribers have been started; to the others nothing comes.
Started ==
  /\ IsFiniteSet(running)
  /\ \A i \in Subscriber \ running : inbox[i] = <<>> /\ offering[i] = {}

Ascending(s) == \A k, l \in 1..Len(s) : k < l => s[k] < s[l]

\* A subscriber gets what is published, in order, and only that reaches a session.
Past ==
  /\ \A i \in Subscriber : /\ Ascending(inbox[i])
                            /\ \A k \in 1..Len(inbox[i]) : inbox[i][k] <= published
  /\ \A c \in Client : /\ shown[c] <= published
                        /\ \A k \in 1..Len(send[c]) : send[c][k] <= published

\* Event k of a subscriber has not been offered to the session.
Ahead(i, c, k) == k > 1 \/ c \in offering[i] \/ offering[i] = {}

\* While there is one subscriber, what a session has been shown comes before what
\* is in its channel, and that before what the subscriber has still to offer it.
InLine ==
  (\A i, j \in running : i = j) =>
    \A c \in Client :
      /\ Ascending(send[c])
      /\ \A k \in 1..Len(send[c]) : shown[c] < send[c][k]
      /\ \A i \in running : \A k \in 1..Len(inbox[i]) : Ahead(i, c, k) =>
           /\ shown[c] < inbox[i][k]
           /\ \A l \in 1..Len(send[c]) : send[c][l] < inbox[i][k]

HubInv == HubTypeOK /\ Sessions /\ NoPanic /\ Started /\ Past /\ InLine

-----------------------------------------------------------------------------
\* "Each org gets its own goroutine; call once per org on first client connect"
\* (hub.go, Subscribe): while a session is connected and its handler has
\* returned, there is one subscriber.
OncePerOrg ==
  \A c \in Client : upgrade[c] = "done" /\ c \in registered => Cardinality(running) = 1
=============================================================================
