-------------------------- MODULE AlertAndHubProofs -------------------------
(***************************************************************************)
(* What becomes of the anomaly engines' findings, by alert and by event.   *)
(*                                                                         *)
(* Alerts, for any number of engines, dispatchers, channels and alerts:    *)
(* the engines know nothing of what becomes of an alert.  Every step of    *)
(* the whole path is a step of AnomalyEngine or leaves it alone            *)
(* (EnginesOnTheirOwn), and what holds of the engines holds of the path.   *)
(* EngineInv and PathInv are inductive.                                    *)
(*                                                                         *)
(* Events, for any number of browser sessions, subscribers, events and any *)
(* channel capacity: HubInv is inductive.  The two parts share nothing.    *)
(***************************************************************************)
EXTENDS AlertDispatcher, WsHub, FiniteSetTheorems, SequenceTheorems, TLAPS

-----------------------------------------------------------------------------
(* The engines                                                             *)

LEMMA EngineInit == ASSUME Init PROVE EngineInv
<1>1. TypeOK
  <2>1. \A e \in Engine : pc[e] = "idle" /\ ~first[e] /\ ~stored[e]
    BY DEF Init
  <2>2. first \in [Engine -> BOOLEAN] /\ stored \in [Engine -> BOOLEAN]
    BY DEF Init
  <2>3. dedup \in BOOLEAN /\ unstored \in BOOLEAN
    BY DEF Init
  <2> QED  BY <2>1, <2>2, <2>3 DEF Init, TypeOK, Pc
<1> QED  BY <1>1 DEF Init, EngineInv, OneHolder, ToAlert, OneAlertPerWindow, OnlyStored

LEMMA EvaluateKeeps == ASSUME EngineInv, NEW e \in Engine, Evaluate(e) PROVE EngineInv'
<1> USE DEF Evaluate, Goto, Return, engineVars
<1>1. TypeOK'
  BY DEF EngineInv, TypeOK, Pc
<1>2. OneHolder' /\ OneAlertPerWindow'
  BY DEF EngineInv, TypeOK, Pc, OneHolder, ToAlert, OneAlertPerWindow
<1>3. OnlyStored'
  BY DEF EngineInv, TypeOK, Pc, OnlyStored
<1> QED  BY <1>1, <1>2, <1>3 DEF EngineInv

LEMMA SetNXKeeps == ASSUME EngineInv, NEW e \in Engine, SetNX(e) PROVE EngineInv'
<1> USE DEF SetNX, Goto, Return, engineVars
<1>1. TypeOK'
  BY DEF EngineInv, TypeOK, Pc
<1>2. OneHolder' /\ OneAlertPerWindow'
  BY DEF EngineInv, TypeOK, Pc, OneHolder, ToAlert, OneAlertPerWindow
<1>3. OnlyStored'
  BY DEF EngineInv, TypeOK, Pc, OnlyStored
<1> QED  BY <1>1, <1>2, <1>3 DEF EngineInv

LEMMA InsertKeeps == ASSUME EngineInv, NEW e \in Engine, Insert(e) PROVE EngineInv'
<1> USE DEF Insert, Goto, Return, engineVars
<1>1. TypeOK'
  BY DEF EngineInv, TypeOK, Pc
<1>2. OneHolder' /\ OneAlertPerWindow'
  BY DEF EngineInv, TypeOK, Pc, OneHolder, ToAlert, OneAlertPerWindow
<1>3. OnlyStored'
  BY DEF EngineInv, TypeOK, Pc, OnlyStored
<1> QED  BY <1>1, <1>2, <1>3 DEF EngineInv

LEMMA AlertKeeps == ASSUME EngineInv, NEW e \in Engine, Alert(e) PROVE EngineInv'
<1> USE DEF Alert, Goto, Return, engineVars
<1>1. TypeOK'
  BY DEF EngineInv, TypeOK, Pc
<1>2. OneHolder' /\ OneAlertPerWindow'
  BY DEF EngineInv, TypeOK, Pc, OneHolder, ToAlert, OneAlertPerWindow
<1>3. OnlyStored'
  BY DEF EngineInv, TypeOK, Pc, OnlyStored
<1> QED  BY <1>1, <1>2, <1>3 DEF EngineInv

LEMMA AlertFailsKeeps == ASSUME EngineInv, NEW e \in Engine, AlertFails(e) PROVE EngineInv'
<1> USE DEF AlertFails, Goto, Return, engineVars
<1>1. TypeOK'
  BY DEF EngineInv, TypeOK, Pc
<1>2. OneHolder' /\ OneAlertPerWindow'
  BY DEF EngineInv, TypeOK, Pc, OneHolder, ToAlert, OneAlertPerWindow
<1>3. OnlyStored'
  BY DEF EngineInv, TypeOK, Pc, OnlyStored
<1> QED  BY <1>1, <1>2, <1>3 DEF EngineInv

LEMMA EventKeeps == ASSUME EngineInv, NEW e \in Engine, Event(e) PROVE EngineInv'
<1> USE DEF Event, Goto, Return, engineVars
<1>1. TypeOK'
  BY DEF EngineInv, TypeOK, Pc
<1>2. OneHolder' /\ OneAlertPerWindow'
  BY DEF EngineInv, TypeOK, Pc, OneHolder, ToAlert, OneAlertPerWindow
<1>3. OnlyStored'
  BY DEF EngineInv, TypeOK, Pc, OnlyStored
<1> QED  BY <1>1, <1>2, <1>3 DEF EngineInv

LEMMA BreakKeeps == ASSUME EngineInv, NEW e \in Engine, Break(e) PROVE EngineInv'
<1> USE DEF Break, Goto, Return, engineVars
<1>1. TypeOK'
  BY DEF EngineInv, TypeOK, Pc
<1>2. OneHolder' /\ OneAlertPerWindow'
  BY DEF EngineInv, TypeOK, Pc, OneHolder, ToAlert, OneAlertPerWindow
<1>3. OnlyStored'
  BY DEF EngineInv, TypeOK, Pc, OnlyStored
<1> QED  BY <1>1, <1>2, <1>3 DEF EngineInv

LEMMA ExpireKeeps == ASSUME EngineInv, Expire PROVE EngineInv'
<1> USE DEF Expire, engineVars
<1>1. dedup' \in BOOLEAN
  OBVIOUS
<1>2. TypeOK'
  BY <1>1 DEF EngineInv, TypeOK
<1>3. \A e \in Engine : ~ToAlert(e)
  BY DEF ToAlert
<1>4. OneHolder' /\ OneAlertPerWindow'
  BY <1>3 DEF EngineInv, OneHolder, ToAlert, OneAlertPerWindow
<1> QED  BY <1>2, <1>4 DEF EngineInv, OnlyStored

LEMMA EngineInductive == Spec => []EngineInv
<1>1. EngineInv /\ [Next]_vars => EngineInv'
  <2> SUFFICES ASSUME EngineInv, [Next]_vars PROVE EngineInv'
    OBVIOUS
  <2>1. CASE UNCHANGED vars
    BY <2>1 DEF vars, engineVars, EngineInv, TypeOK, OneHolder, ToAlert, OneAlertPerWindow, OnlyStored
  <2> QED  BY <2>1, EvaluateKeeps, SetNXKeeps, InsertKeeps, AlertKeeps, AlertFailsKeeps,
              EventKeeps, BreakKeeps, ExpireKeeps DEF Next
<1> QED  BY <1>1, EngineInit, PTL DEF Spec

-----------------------------------------------------------------------------
(* The path                                                                *)

\* Whatever the dispatchers and channels do, the engines behave as if they were alone.
THEOREM EnginesOnTheirOwn == PathSpec => Spec
<1>1. PathInit => Init
  BY DEF PathInit
<1>2. [PathNext]_pathVars => [Next]_vars
  <2> SUFFICES ASSUME [PathNext]_pathVars PROVE [Next]_vars
    OBVIOUS
  <2>1. ASSUME NEW e \in Engine, EngineStep(e) \/ PublishAlert(e) PROVE [Next]_vars
    BY <2>1 DEF EngineStep, PublishAlert, Next
  <2>2. CASE Expire /\ UNCHANGED alertVars
    BY <2>2 DEF Next
  <2>3. ASSUME NEW d \in Dispatcher, NEW r \in Alerts, Deliver(d, r) PROVE UNCHANGED vars
    BY <2>3 DEF Deliver
  <2>4. ASSUME NEW d \in Dispatcher, NEW ok \in BOOLEAN, Send(d, ok) PROVE UNCHANGED vars
    BY <2>4 DEF Send
  <2>5. ASSUME NEW d \in Dispatcher,
               FindHost(d) \/ NoHost(d) \/ Record(d) \/ Done(d) \/ Abandon(d)
        PROVE  UNCHANGED vars
    BY <2>5 DEF FindHost, NoHost, Record, Done, Abandon
  <2>6. ASSUME NEW r \in Alerts, CommitAlert(r) PROVE UNCHANGED vars
    BY <2>6 DEF CommitAlert
  <2>7. CASE UNCHANGED pathVars
    BY <2>7 DEF pathVars
  <2> QED  BY <2>1, <2>2, <2>3, <2>4, <2>5, <2>6, <2>7 DEF PathNext
<1> QED  BY <1>1, <1>2, PTL DEF PathSpec, Spec

\* One alert in a window, however many engines and whatever becomes of the alerts.
THEOREM OneAlert == PathSpec => []OneAlertPerWindow
<1>1. EngineInv => OneAlertPerWindow
  BY DEF EngineInv
<1> QED  BY <1>1, EnginesOnTheirOwn, EngineInductive, PTL

\* Nothing goes out, to channels or to browsers, for an anomaly without a row.
THEOREM NothingUnstored == PathSpec => []OnlyStored
<1>1. EngineInv => OnlyStored
  BY DEF EngineInv
<1> QED  BY <1>1, EnginesOnTheirOwn, EngineInductive, PTL

-----------------------------------------------------------------------------
(* The dispatchers                                                         *)

LEMMA InitPathInv == ASSUME PathInit PROVE PathInv
<1>1. TypeOK
  BY EngineInit DEF PathInit, EngineInv
<1>2. PathTypeOK
  BY <1>1, DispatcherAssumption DEF PathInit, PathTypeOK
<1> QED  BY <1>2 DEF PathInit, PathInv, TriedSoFar, EveryChannelTried

LEMMA PublishAlertKeepsPath == ASSUME PathInv, TypeOK', NEW e \in Engine, PublishAlert(e) PROVE PathInv'
<1> USE DEF PublishAlert, Release, topicVars, handVars
<1>1. PathTypeOK'
  BY DispatcherAssumption DEF PathInv, PathTypeOK, Channel
<1>2. TriedSoFar'
  BY DispatcherAssumption DEF PathInv, PathTypeOK, TriedSoFar, Channel
<1>3. EveryChannelTried'
  BY DispatcherAssumption DEF PathInv, PathTypeOK, TriedSoFar, EveryChannelTried, Channel
<1> QED  BY <1>1, <1>2, <1>3 DEF PathInv

LEMMA DeliverKeepsPath == ASSUME PathInv, TypeOK', NEW d \in Dispatcher, NEW r \in Alerts, Deliver(d, r) PROVE PathInv'
<1> USE DEF Deliver, Release, topicVars, handVars
<1>1. PathTypeOK'
  BY DispatcherAssumption DEF PathInv, PathTypeOK, Channel
<1>2. TriedSoFar'
  BY DispatcherAssumption DEF PathInv, PathTypeOK, TriedSoFar, Channel
<1>3. EveryChannelTried'
  BY DispatcherAssumption DEF PathInv, PathTypeOK, TriedSoFar, EveryChannelTried, Channel
<1> QED  BY <1>1, <1>2, <1>3 DEF PathInv

LEMMA FindHostKeepsPath == ASSUME PathInv, TypeOK', NEW d \in Dispatcher, FindHost(d) PROVE PathInv'
<1> USE DEF FindHost, Release, topicVars, handVars
<1>1. PathTypeOK'
  BY DispatcherAssumption DEF PathInv, PathTypeOK, Channel
<1>2. TriedSoFar'
  BY DispatcherAssumption DEF PathInv, PathTypeOK, TriedSoFar, Channel
<1>3. EveryChannelTried'
  BY DispatcherAssumption DEF PathInv, PathTypeOK, TriedSoFar, EveryChannelTried, Channel
<1> QED  BY <1>1, <1>2, <1>3 DEF PathInv

LEMMA NoHostKeepsPath == ASSUME PathInv, TypeOK', NEW d \in Dispatcher, NoHost(d) PROVE PathInv'
<1> USE DEF NoHost, Release, topicVars, handVars
<1>1. PathTypeOK'
  BY DispatcherAssumption DEF PathInv, PathTypeOK, Channel
<1>2. TriedSoFar'
  BY DispatcherAssumption DEF PathInv, PathTypeOK, TriedSoFar, Channel
<1>3. EveryChannelTried'
  BY DispatcherAssumption DEF PathInv, PathTypeOK, TriedSoFar, EveryChannelTried, Channel
<1> QED  BY <1>1, <1>2, <1>3 DEF PathInv

LEMMA SendKeepsPath == ASSUME PathInv, TypeOK', NEW d \in Dispatcher, NEW ok \in BOOLEAN, Send(d, ok) PROVE PathInv'
<1> USE DEF Send, Release, topicVars, handVars
<1>1. PathTypeOK'
  <2> DEFINE outcome == hand[d] \X {at[d]} \X {ok}
  <2>1. hand[d] \subseteq topic /\ topic \subseteq Alerts /\ at[d] \in Channel
    BY DEF PathInv, PathTypeOK
  <2>2. outcome \in SUBSET (Alerts \X Channel \X BOOLEAN)
    BY <2>1
  <2>3. \A x \in outcome : x[1] \in hand[d] /\ x[2] = at[d]
    OBVIOUS
  <2>4. tried' \subseteq topic \X Channel /\ reached' \subseteq Channel
    BY <2>1 DEF PathInv, PathTypeOK
  <2>5. result' = [result EXCEPT ![d] = outcome]
    OBVIOUS
  <2> HIDE DEF outcome
  <2> QED  BY <2>2, <2>3, <2>4, <2>5 DEF PathInv, PathTypeOK
<1>2. TriedSoFar'
  BY DispatcherAssumption DEF PathInv, PathTypeOK, TriedSoFar, Channel
<1>3. EveryChannelTried'
  BY DispatcherAssumption DEF PathInv, PathTypeOK, TriedSoFar, EveryChannelTried, Channel
<1> QED  BY <1>1, <1>2, <1>3 DEF PathInv

LEMMA RecordKeepsPath == ASSUME PathInv, TypeOK', NEW d \in Dispatcher, Record(d) PROVE PathInv'
<1> USE DEF Record, Release, topicVars, handVars
<1>1. PathTypeOK'
  BY DispatcherAssumption DEF PathInv, PathTypeOK, Channel
<1>2. TriedSoFar'
  BY DispatcherAssumption DEF PathInv, PathTypeOK, TriedSoFar, Channel
<1>3. EveryChannelTried'
  BY DispatcherAssumption DEF PathInv, PathTypeOK, TriedSoFar, EveryChannelTried, Channel
<1> QED  BY <1>1, <1>2, <1>3 DEF PathInv

LEMMA DoneKeepsPath == ASSUME PathInv, TypeOK', NEW d \in Dispatcher, Done(d) PROVE PathInv'
<1> USE DEF Done, Release, topicVars, handVars
<1>1. PathTypeOK'
  BY DispatcherAssumption DEF PathInv, PathTypeOK, Channel
<1>2. TriedSoFar'
  BY DispatcherAssumption DEF PathInv, PathTypeOK, TriedSoFar, Channel
<1>3. EveryChannelTried'
  <2>1. \A c \in Channel : c < at[d]
    BY DispatcherAssumption DEF PathInv, PathTypeOK, Channel
  <2>2. \A r \in hand[d], c \in Channel : <<r, c>> \in tried
    BY <2>1 DEF PathInv, TriedSoFar
  <2> QED  BY <2>2 DEF PathInv, EveryChannelTried
<1> QED  BY <1>1, <1>2, <1>3 DEF PathInv

LEMMA AbandonKeepsPath == ASSUME PathInv, TypeOK', NEW d \in Dispatcher, Abandon(d) PROVE PathInv'
<1> USE DEF Abandon, Release, topicVars, handVars
<1>1. PathTypeOK'
  BY DispatcherAssumption DEF PathInv, PathTypeOK, Channel
<1>2. TriedSoFar'
  BY DispatcherAssumption DEF PathInv, PathTypeOK, TriedSoFar, Channel
<1>3. EveryChannelTried'
  BY DispatcherAssumption DEF PathInv, PathTypeOK, TriedSoFar, EveryChannelTried, Channel
<1> QED  BY <1>1, <1>2, <1>3 DEF PathInv

LEMMA CommitAlertKeepsPath == ASSUME PathInv, TypeOK', NEW r \in Alerts, CommitAlert(r) PROVE PathInv'
<1> USE DEF CommitAlert, Release, topicVars, handVars
<1>1. PathTypeOK'
  BY DispatcherAssumption DEF PathInv, PathTypeOK, Channel
<1>2. TriedSoFar'
  BY DispatcherAssumption DEF PathInv, PathTypeOK, TriedSoFar, Channel
<1>3. EveryChannelTried'
  BY DispatcherAssumption DEF PathInv, PathTypeOK, TriedSoFar, EveryChannelTried, Channel
<1> QED  BY <1>1, <1>2, <1>3 DEF PathInv

LEMMA PathInductive == PathSpec => []PathInv
<1>1. PathInv /\ TypeOK' /\ [PathNext]_pathVars => PathInv'
  <2> SUFFICES ASSUME PathInv, TypeOK', [PathNext]_pathVars PROVE PathInv'
    OBVIOUS
  <2>1. CASE UNCHANGED alertVars
    BY <2>1 DEF alertVars, topicVars, handVars, PathInv, PathTypeOK, TriedSoFar, EveryChannelTried
  <2>2. ASSUME NEW e \in Engine, EngineStep(e) PROVE PathInv'
    BY <2>1, <2>2 DEF EngineStep
  <2> QED  BY <2>1, <2>2, PublishAlertKeepsPath, DeliverKeepsPath, FindHostKeepsPath,
              NoHostKeepsPath, SendKeepsPath, RecordKeepsPath, DoneKeepsPath, AbandonKeepsPath,
              CommitAlertKeepsPath DEF PathNext, pathVars
<1>2. EngineInv => TypeOK
  BY DEF EngineInv
<1> QED  BY <1>1, <1>2, InitPathInv, EnginesOnTheirOwn, EngineInductive, PTL DEF PathSpec

\* Every variable keeps its type, and no dispatcher has an alert that is not in the
\* topic any more.
THEOREM TypeCorrect == PathSpec => []PathTypeOK
<1>1. PathInv => PathTypeOK
  BY DEF PathInv
<1> QED  BY <1>1, PathInductive, PTL

\* A handled alert was tried on every channel, for any number of them and whichever
\* messages failed.
THEOREM AlertsReachAllChannels == PathSpec => []EveryChannelTried
<1>1. PathInv => EveryChannelTried
  BY DEF PathInv
<1> QED  BY <1>1, PathInductive, PTL

-----------------------------------------------------------------------------
(* Sessions and the hub                                                    *)

\* What is taken from a queue, and what is added behind all of it.
LEMMA TailAscends == ASSUME NEW s \in Seq(Nat), s # <<>>, Ascending(s)
  PROVE /\ Tail(s) \in Seq(Nat) /\ Len(Tail(s)) = Len(s) - 1 /\ Head(s) = s[1]
        /\ Ascending(Tail(s))
        /\ \A k \in 1..Len(Tail(s)) : k + 1 \in 1..Len(s) /\ Tail(s)[k] = s[k + 1] /\ Head(s) < Tail(s)[k]
  BY DEF Ascending

LEMMA AppendAscends ==
  ASSUME NEW s \in Seq(Nat), NEW x \in Nat, Ascending(s), \A k \in 1..Len(s) : s[k] < x
  PROVE /\ Append(s, x) \in Seq(Nat) /\ Len(Append(s, x)) = Len(s) + 1 /\ Ascending(Append(s, x))
        /\ \A k \in 1..Len(s) + 1 : Append(s, x)[k] = IF k = Len(s) + 1 THEN x ELSE s[k]
  BY DEF Ascending

\* Queues of events are queues of numbers.
LEMMA EventsAreNumbers ==
  ASSUME HubTypeOK
  PROVE /\ \A c \in Client : send[c] \in Seq(1..MaxEvents) /\ send[c] \in Seq(Nat) /\ shown[c] \in Nat
        /\ \A i \in Subscriber : inbox[i] \in Seq(1..MaxEvents) /\ inbox[i] \in Seq(Nat)
        /\ published \in Nat
<1>1. 1..MaxEvents \subseteq Nat /\ 0..MaxEvents \subseteq Nat
  BY HubAssumption
<1>2. \A s \in Seq(1..MaxEvents) : s \in Seq(Nat)
  BY <1>1, SeqMonotonic
<1> QED  BY <1>1, <1>2 DEF HubTypeOK

\* A step that touches no queue keeps their order.
LEMMA QueuesAlone ==
  ASSUME Past, InLine, UNCHANGED <<send, shown, running, inbox, offering, published>>
  PROVE Past' /\ InLine'
  BY DEF Past, InLine, Ascending, Ahead

LEMMA HubInitInv == ASSUME HubInit PROVE HubInv
<1> USE DEF HubInit
<1>1. HubTypeOK
  <2>1. <<>> \in Seq(1..MaxEvents) /\ Len(<<>>) = 0
    BY EmptySeq
  <2>2. send \in [Client -> Seq(1..MaxEvents)] /\ \A c \in Client : Len(send[c]) <= Cap
    BY <2>1, HubAssumption
  <2>3. inbox \in [Subscriber -> Seq(1..MaxEvents)]
    BY <2>1
  <2>4. shown \in [Client -> 0..MaxEvents] /\ sessions \in 0..MaxSessions /\ published \in 0..MaxEvents
    BY HubAssumption
  <2>5. offering \in [Subscriber -> SUBSET Client] /\ \A i \in Subscriber : ~Broadcasting(i)
    BY DEF Broadcasting
  <2>6. /\ closed \in [Client -> BOOLEAN] /\ conn \in [Client -> BOOLEAN]
        /\ registered \subseteq Client /\ running \subseteq Subscriber /\ panicked \in BOOLEAN
    OBVIOUS
  <2>7. /\ upgrade \in [Client -> {"new", "check", "subscribe", "done"}]
        /\ reader \in [Client -> {"off", "reading", "leaving", "closing", "done"}]
        /\ writer \in [Client -> {"off", "running", "done"}]
    OBVIOUS
  <2> HIDE DEF HubInit
  <2> QED  BY <2>2, <2>3, <2>4, <2>5, <2>6, <2>7 DEF HubTypeOK
<1>2. Sessions /\ NoPanic
  BY DEF Sessions, NoPanic
<1>3. Started
  BY FS_EmptySet DEF Started
<1>4. Past
  BY DEF Past, Ascending
<1>5. InLine
  BY DEF InLine, Ascending
<1> QED  BY <1>1, <1>2, <1>3, <1>4, <1>5 DEF HubInv

LEMMA RegisterKeepsHub == ASSUME HubInv, NEW c \in Client, Register(c) PROVE HubInv'
<1> USE DEF HubInv, Register, subVars
<1>1. HubTypeOK'
  BY HubAssumption DEF HubTypeOK, Broadcasting
<1>2. Sessions' /\ NoPanic'
  BY DEF Sessions, NoPanic, HubTypeOK, LockFree, Broadcasting
<1>3. Started'
  BY DEF Started
<1>4. Past'
  BY EventsAreNumbers DEF Past, Ascending, HubTypeOK
<1>5. InLine'
  <2> SUFFICES ASSUME \A i, j \in running : i = j, NEW d \in Client
               PROVE /\ Ascending(send'[d])
                     /\ \A k \in 1..Len(send'[d]) : shown'[d] < send'[d][k]
                     /\ \A i \in running : \A k \in 1..Len(inbox[i]) : Ahead(i, d, k) =>
                          /\ shown'[d] < inbox[i][k]
                          /\ \A l \in 1..Len(send'[d]) : send'[d][l] < inbox[i][k]
    BY DEF InLine, Ahead, Ascending
  <2>1. CASE d = c
    <3>1. send'[d] = <<>> /\ shown'[d] = 0
      BY <2>1 DEF HubTypeOK
    <3>2. \A i \in running : \A k \in 1..Len(inbox[i]) : 0 < inbox[i][k]
      BY HubAssumption DEF HubTypeOK
    <3> QED  BY <3>1, <3>2 DEF Ascending
  <2>2. CASE d # c
    BY <2>2 DEF InLine, HubTypeOK
  <2> QED  BY <2>1, <2>2
<1> QED  BY <1>1, <1>2, <1>3, <1>4, <1>5

LEMMA CheckOrgKeepsHub == ASSUME HubInv, NEW c \in Client, CheckOrg(c) PROVE HubInv'
<1> USE DEF HubInv, CheckOrg, subVars, pumpVars, channelVars
<1>1. HubTypeOK'
  BY DEF HubTypeOK, Broadcasting
<1>2. Sessions' /\ NoPanic' /\ Started'
  BY DEF Sessions, NoPanic, Started
<1> QED  BY <1>1, <1>2, QueuesAlone

\* A subscriber starts with nothing; if it is the only one, it is the first.
LEMMA SubscribeKeepsHub == ASSUME HubInv, NEW c \in Client, Subscribe(c) PROVE HubInv'
<1> USE DEF HubInv, pumpVars, channelVars
<1>1. PICK i \in Subscriber \ running : running' = running \cup {i}
  BY DEF Subscribe
<1>2. UNCHANGED <<sessions, registered, channelVars, pumpVars, inbox, offering, published, panicked>>
  BY DEF Subscribe
<1>3. HubTypeOK'
  BY <1>1, <1>2 DEF HubTypeOK, Broadcasting, Subscribe
<1>4. Sessions' /\ NoPanic'
  BY <1>2 DEF Sessions, NoPanic
<1>5. Started'
  BY <1>1, <1>2, FS_AddElement DEF Started
<1>6. Past'
  BY <1>2 DEF Past, Ascending
<1>7. InLine'
  <2>1. inbox[i] = <<>>
    BY DEF Started
  <2>2. (\A m, n \in running' : m = n) => running' = {i}
    BY <1>1
  <2>3. (\A m, n \in running' : m = n) => \A m, n \in running : m = n
    BY <1>1
  <2> QED  BY <1>2, <2>1, <2>2, <2>3 DEF InLine, Ascending, Ahead
<1> QED  BY <1>3, <1>4, <1>5, <1>6, <1>7

-----------------------------------------------------------------------------
(* Subscribers                                                             *)

\* The newest event goes behind everything.
LEMMA PublishKeepsHub == ASSUME HubInv, Publish PROVE HubInv'
<1> USE DEF HubInv
<1>1. published' \in 1..MaxEvents /\ published' = published + 1 /\ published \in Nat
  BY HubAssumption DEF HubTypeOK, Publish
<1>2. /\ inbox' = [i \in Subscriber |-> inbox'[i]]
      /\ \A i \in Subscriber : inbox'[i] = IF i \in running THEN Append(inbox[i], published') ELSE inbox[i]
  BY DEF Publish
<1>3a. /\ UNCHANGED <<sessions, registered, send, closed, upgrade, conn, reader, writer, shown>>
      /\ UNCHANGED <<running, offering, panicked>>
  BY DEF Publish, pumpVars, channelVars
<1>3. \A i \in Subscriber : inbox[i] \in Seq(1..MaxEvents) /\ inbox[i] \in Seq(Nat)
  BY EventsAreNumbers
<1>4. \A i \in Subscriber :
        /\ inbox'[i] \in Seq(1..MaxEvents)
        /\ inbox'[i] = <<>> => inbox[i] = <<>>
        /\ Ascending(inbox'[i])
        /\ \A k \in 1..Len(inbox'[i]) :
             inbox'[i][k] <= published' /\ (k \in 1..Len(inbox[i]) => inbox'[i][k] = inbox[i][k])
        /\ \A k \in 1..Len(inbox'[i]) : k \notin 1..Len(inbox[i]) => inbox'[i][k] = published'
  <2> SUFFICES ASSUME NEW i \in Subscriber
               PROVE /\ inbox'[i] \in Seq(1..MaxEvents)
                     /\ inbox'[i] = <<>> => inbox[i] = <<>>
                     /\ Ascending(inbox'[i])
                     /\ \A k \in 1..Len(inbox'[i]) :
                          inbox'[i][k] <= published' /\ (k \in 1..Len(inbox[i]) => inbox'[i][k] = inbox[i][k])
                     /\ \A k \in 1..Len(inbox'[i]) : k \notin 1..Len(inbox[i]) => inbox'[i][k] = published'
    OBVIOUS
  <2>1. Ascending(inbox[i]) /\ \A k \in 1..Len(inbox[i]) : inbox[i][k] <= published /\ inbox[i][k] \in Nat
    BY <1>3 DEF Past
  <2>2. \A k \in 1..Len(inbox[i]) : inbox[i][k] < published' /\ inbox[i][k] <= published'
    BY <1>1, <2>1
  <2>3. CASE i \in running
    <3>1. inbox'[i] = Append(inbox[i], published')
      BY <1>2, <2>3
    <3>2. inbox'[i] \in Seq(1..MaxEvents)
      BY <1>1, <1>3, <3>1
    <3>3. inbox[i] \in Seq(Nat) /\ published' \in Nat
      BY <1>1, <1>3
    <3>4. /\ Len(inbox'[i]) = Len(inbox[i]) + 1 /\ Ascending(inbox'[i])
          /\ \A k \in 1..Len(inbox[i]) + 1 :
               inbox'[i][k] = IF k = Len(inbox[i]) + 1 THEN published' ELSE inbox[i][k]
      <4>1. \A k \in 1..Len(inbox[i]) : inbox[i][k] < published'
        BY <2>2
      <4>2. Ascending(inbox[i])
        BY <2>1
      <4> HIDE DEF HubInv
      <4>3. /\ Len(Append(inbox[i], published')) = Len(inbox[i]) + 1
            /\ Ascending(Append(inbox[i], published'))
            /\ \A k \in 1..Len(inbox[i]) + 1 : Append(inbox[i], published')[k] =
                 IF k = Len(inbox[i]) + 1 THEN published' ELSE inbox[i][k]
        BY ONLY <3>3, <4>1, <4>2, AppendAscends
      <4> QED  BY <3>1, <4>3
    <3>5. Len(inbox[i]) \in Nat /\ inbox'[i] # <<>>
      BY <3>3, <3>4
    <3> QED  BY <1>1, <2>2, <3>2, <3>4, <3>5
  <2>4. CASE i \notin running
    BY <1>2, <1>3, <2>1, <2>2, <2>4
  <2> QED  BY <2>3, <2>4
<1>5. HubTypeOK'
  <2>1. inbox' \in [Subscriber -> Seq(1..MaxEvents)]
    BY <1>2, <1>4
  <2>2. \A i \in Subscriber : Broadcasting(i)' => inbox'[i] # <<>>
    BY <1>3a, <1>4 DEF HubTypeOK, Broadcasting
  <2>3. published' \in 0..MaxEvents
    BY <1>1
  <2> QED  BY <1>3a, <2>1, <2>2, <2>3 DEF HubTypeOK
<1>6. Sessions' /\ NoPanic' /\ Started'
  BY <1>3a, <1>2 DEF Sessions, NoPanic, Started
<1>7. Past'
  <2>1. \A c \in Client : /\ shown[c] <= published'
                          /\ \A k \in 1..Len(send[c]) : send[c][k] <= published'
    BY <1>1, EventsAreNumbers DEF Past
  <2> QED  BY <1>3a, <1>4, <2>1 DEF Past, Ascending
<1>8. InLine'
  <2> SUFFICES ASSUME \A i, j \in running : i = j, NEW c \in Client
               PROVE /\ Ascending(send[c])
                     /\ \A k \in 1..Len(send[c]) : shown[c] < send[c][k]
                     /\ \A i \in running : \A k \in 1..Len(inbox'[i]) : Ahead(i, c, k) =>
                          /\ shown[c] < inbox'[i][k]
                          /\ \A l \in 1..Len(send[c]) : send[c][l] < inbox'[i][k]
    BY <1>3a DEF InLine, Ahead, Ascending
  <2>1. shown[c] < published' /\ \A l \in 1..Len(send[c]) : send[c][l] < published'
    BY <1>1, EventsAreNumbers DEF Past
  <2>2. running \subseteq Subscriber
    BY DEF HubTypeOK
  <2> QED  BY <1>4, <2>1, <2>2 DEF InLine
<1> QED  BY <1>5, <1>6, <1>7, <1>8

\* A subscriber is done with the event at the head of its inbox.
LEMMA DoneWithEvent ==
  ASSUME HubTypeOK, Past, NEW i \in Subscriber, inbox[i] # <<>>, inbox' = [inbox EXCEPT ![i] = Tail(@)]
  PROVE /\ inbox' \in [Subscriber -> Seq(1..MaxEvents)]
        /\ \A j \in Subscriber : j # i => inbox'[j] = inbox[j]
        /\ Ascending(inbox'[i])
        /\ \A k \in 1..Len(inbox'[i]) :
             k + 1 \in 1..Len(inbox[i]) /\ inbox'[i][k] = inbox[i][k + 1] /\ Head(inbox[i]) < inbox'[i][k]
        /\ Head(inbox[i]) = inbox[i][1] /\ 1 \in 1..Len(inbox[i])
<1>1. inbox[i] \in Seq(1..MaxEvents) /\ inbox[i] \in Seq(Nat) /\ Ascending(inbox[i])
  BY EventsAreNumbers DEF Past
<1>2. inbox'[i] = Tail(inbox[i]) /\ \A j \in Subscriber : j # i => inbox'[j] = inbox[j]
  BY DEF HubTypeOK
<1>3. Tail(inbox[i]) \in Seq(1..MaxEvents) /\ Len(inbox[i]) # 0 /\ Len(inbox[i]) \in Nat
  BY <1>1, HeadTailProperties, EmptySeq
<1> QED  BY <1>1, <1>2, <1>3, TailAscends DEF HubTypeOK

LEMMA BroadcastKeepsHub == ASSUME HubInv, NEW i \in Subscriber, Broadcast(i) PROVE HubInv'
<1> USE DEF HubInv, Broadcast, Broadcasting, pumpVars, channelVars
<1>1. CASE registered = {}
  <2>1. inbox' = [inbox EXCEPT ![i] = Tail(@)] /\ UNCHANGED offering
    BY <1>1
  <2>2. HubTypeOK'
    <3>1. inbox' \in [Subscriber -> Seq(1..MaxEvents)]
      BY <2>1, DoneWithEvent
    <3>2. \A j \in Subscriber : offering[j] # {} => inbox'[j] # <<>>
      BY <2>1, DoneWithEvent DEF HubTypeOK
    <3> QED  BY <2>1, <3>1, <3>2 DEF HubTypeOK
  <2>3. Sessions' /\ NoPanic'
    BY <2>1 DEF Sessions, NoPanic
  <2>4. Started'
    BY <2>1, DoneWithEvent DEF Started
  <2>5. Past'
    <3>1. \A j \in Subscriber : /\ Ascending(inbox'[j])
                                /\ \A k \in 1..Len(inbox'[j]) : inbox'[j][k] <= published
      <4>1. \A k \in 1..Len(inbox[i]) : inbox[i][k] <= published
        BY DEF Past
      <4>2. Ascending(inbox'[i])
        BY <2>1, DoneWithEvent
      <4>4. \A k \in 1..Len(inbox'[i]) : k + 1 \in 1..Len(inbox[i]) /\ inbox'[i][k] = inbox[i][k + 1]
        BY <2>1, DoneWithEvent
      <4>5. \A k \in 1..Len(inbox'[i]) : inbox'[i][k] <= published
        BY <4>1, <4>4
      <4>3. \A j \in Subscriber : j # i => inbox'[j] = inbox[j]
        BY <2>1, DoneWithEvent
      <4> QED  BY <4>2, <4>3, <4>5 DEF Past
    <3> QED  BY <3>1 DEF Past, Ascending
  <2>6. InLine'
    <3> SUFFICES ASSUME \A m, n \in running : m = n, NEW c \in Client
                 PROVE /\ Ascending(send[c])
                       /\ \A k \in 1..Len(send[c]) : shown[c] < send[c][k]
                       /\ \A m \in running : \A k \in 1..Len(inbox'[m]) : Ahead(m, c, k) =>
                            /\ shown[c] < inbox'[m][k]
                            /\ \A l \in 1..Len(send[c]) : send[c][l] < inbox'[m][k]
      BY <2>1 DEF InLine, Ahead, Ascending
    <3>1. \A m \in running : m \in Subscriber
      BY DEF HubTypeOK
    <3>2. \A m \in running : \A k \in 1..Len(inbox'[m]) : Ahead(m, c, k) =>
            /\ shown[c] < inbox'[m][k]
            /\ \A l \in 1..Len(send[c]) : send[c][l] < inbox'[m][k]
      <4> SUFFICES ASSUME NEW m \in running, NEW k \in 1..Len(inbox'[m]), Ahead(m, c, k)
                   PROVE /\ shown[c] < inbox'[m][k]
                         /\ \A l \in 1..Len(send[c]) : send[c][l] < inbox'[m][k]
        OBVIOUS
      <4>1. CASE m = i
        <5>1. k + 1 \in 1..Len(inbox[i]) /\ inbox'[i][k] = inbox[i][k + 1]
          BY <2>1, <3>1, <4>1, DoneWithEvent
        <5>2. Ahead(i, c, k + 1)
          BY DEF Ahead
        <5> QED  BY <4>1, <5>1, <5>2 DEF InLine
      <4>2. CASE m # i
        BY <2>1, <3>1, <4>2, DoneWithEvent DEF InLine
      <4> QED  BY <4>1, <4>2
    <3> QED  BY <3>2 DEF InLine
  <2> QED  BY <2>2, <2>3, <2>4, <2>5, <2>6
<1>2. CASE registered # {}
  <2>1. offering' = [offering EXCEPT ![i] = registered] /\ UNCHANGED inbox
    BY <1>2
  <2>2. HubTypeOK'
    BY <2>1 DEF HubTypeOK
  <2>3. Sessions' /\ NoPanic'
    BY <2>1 DEF Sessions, NoPanic, HubTypeOK
  <2>4. Started'
    BY <2>1 DEF Started, HubTypeOK
  <2>5. Past'
    BY <2>1 DEF Past, Ascending
  <2>6. InLine'
    <3>1. \A m \in running : m \in Subscriber
      BY DEF HubTypeOK
    <3>2. \A m \in running : \A c \in Client : \A k \in 1..Len(inbox[m]) : Ahead(m, c, k)' => Ahead(m, c, k)
      BY <2>1, <3>1 DEF Ahead, HubTypeOK
    <3> QED  BY <2>1, <3>2 DEF InLine, Ascending
  <2> QED  BY <2>2, <2>3, <2>4, <2>5, <2>6
<1> QED  BY <1>1, <1>2

\* The queue of a session that an event is offered to.
LEMMA OfferedTo ==
  ASSUME HubInv, NEW i \in Subscriber, NEW c \in Client, Offer(i, c)
  PROVE /\ i \in running /\ c \in registered /\ ~closed[c] /\ inbox[i] # <<>>
        /\ Head(inbox[i]) = inbox[i][1] /\ 1 \in 1..Len(inbox[i])
        /\ Head(inbox[i]) \in 1..MaxEvents /\ Head(inbox[i]) <= published
        /\ send' = [send EXCEPT ![c] = IF Len(send[c]) < Cap THEN Append(send[c], Head(inbox[i])) ELSE send[c]]
        /\ offering' = [offering EXCEPT ![i] = offering[i] \ {c}] /\ c \in offering[i]
        /\ ~panicked'
        /\ UNCHANGED <<sessions, registered, closed, upgrade, conn, reader, writer, shown>>
        /\ UNCHANGED <<running, published>>
<1> USE DEF HubInv
<1>1. c \in offering[i] /\ i \in running /\ c \in registered /\ ~closed[c] /\ inbox[i] # <<>>
  BY DEF Offer, Sessions, Started, HubTypeOK, Broadcasting
<1>2. /\ Head(inbox[i]) = inbox[i][1] /\ 1 \in 1..Len(inbox[i])
      /\ Head(inbox[i]) \in 1..MaxEvents
  <2>1. inbox[i] \in Seq(1..MaxEvents)
    BY EventsAreNumbers
  <2>2. Len(inbox[i]) \in Nat \ {0}
    BY <1>1, <2>1, EmptySeq
  <2>3. Head(inbox[i]) \in 1..MaxEvents
    BY <1>1, <2>1, HeadTailProperties
  <2> QED  BY <2>1, <2>2, <2>3
<1>3. Head(inbox[i]) <= published
  BY <1>2 DEF Past
<1> QED  BY <1>1, <1>2, <1>3 DEF Offer, Offered, pumpVars, NoPanic

\* The inbox after it: the event leaves with the last session that it is offered to.
LEMMA OfferedFrom ==
  ASSUME HubInv, NEW i \in Subscriber, NEW c \in Client, Offer(i, c)
  PROVE /\ inbox' \in [Subscriber -> Seq(1..MaxEvents)]
        /\ \A j \in Subscriber : j # i => inbox'[j] = inbox[j] /\ offering'[j] = offering[j]
        /\ Ascending(inbox'[i])
        /\ offering'[i] # {} => inbox'[i] = inbox[i]
        /\ \A d \in Client : \A k \in 1..Len(inbox'[i]) : Ahead(i, d, k)' =>
             \E l \in 1..Len(inbox[i]) :
               inbox'[i][k] = inbox[i][l] /\ Ahead(i, d, l) /\ (d = c => Head(inbox[i]) < inbox[i][l])
        /\ \A k \in 1..Len(inbox'[i]) : \E l \in 1..Len(inbox[i]) : inbox'[i][k] = inbox[i][l]
<1>1. HubTypeOK /\ Past /\ inbox[i] # <<>>
  BY OfferedTo DEF HubInv
<1>2. offering'[i] = offering[i] \ {c} /\ c \in offering[i]
  BY <1>1, OfferedTo DEF HubTypeOK
<1>3. \A j \in Subscriber : j # i => offering'[j] = offering[j]
  BY <1>1, OfferedTo DEF HubTypeOK
<1>4. Len(inbox[i]) \in Nat /\ Ascending(inbox[i]) /\ \A k \in 1..Len(inbox[i]) : inbox[i][k] \in Nat
  BY <1>1, EventsAreNumbers DEF Past
<1>5. CASE offering[i] = {c}
  <2>1. inbox' = [inbox EXCEPT ![i] = Tail(@)]
    BY <1>5 DEF Offer, Offered
  <2>2. /\ inbox' \in [Subscriber -> Seq(1..MaxEvents)]
        /\ \A j \in Subscriber : j # i => inbox'[j] = inbox[j]
        /\ Ascending(inbox'[i])
    BY <1>1, <2>1, DoneWithEvent
  <2>3. \A k \in 1..Len(inbox'[i]) :
          k + 1 \in 1..Len(inbox[i]) /\ inbox'[i][k] = inbox[i][k + 1] /\ Head(inbox[i]) < inbox'[i][k]
    BY <1>1, <2>1, DoneWithEvent
  <2>4. \A d \in Client : \A k \in 1..Len(inbox'[i]) : Ahead(i, d, k + 1)
    BY <1>4, <2>2 DEF Ahead
  <2> QED  BY <1>2, <1>3, <1>5, <2>2, <2>3, <2>4
<1>6. CASE offering[i] # {c}
  <2>1. inbox' = inbox
    BY <1>1, <1>6 DEF Offer, Offered, HubTypeOK
  <2>2. \A d \in Client : \A k \in 1..Len(inbox[i]) :
          Ahead(i, d, k)' => Ahead(i, d, k) /\ (d = c => k > 1)
    BY <1>2, <1>6, <2>1 DEF Ahead
  <2>3. \A k \in 1..Len(inbox[i]) : k > 1 => Head(inbox[i]) < inbox[i][k]
    BY <1>4, OfferedTo DEF Ascending
  <2> QED  BY <1>1, <1>3, <1>4, <2>1, <2>2, <2>3 DEF HubTypeOK
<1> QED  BY <1>5, <1>6

LEMMA OfferKeepsHub == ASSUME HubInv, NEW i \in Subscriber, NEW c \in Client, Offer(i, c) PROVE HubInv'
<1>1. HubTypeOK /\ Sessions /\ Started /\ Past /\ InLine
  BY DEF HubInv
<1>2. /\ UNCHANGED <<sessions, registered, closed, upgrade, conn, reader, writer, shown>>
      /\ UNCHANGED <<running, published>>
  BY OfferedTo
<1>a. /\ send' = [send EXCEPT ![c] = IF Len(send[c]) < Cap THEN Append(send[c], Head(inbox[i])) ELSE send[c]]
      /\ offering' = [offering EXCEPT ![i] = offering[i] \ {c}] /\ ~panicked'
      /\ Head(inbox[i]) \in 1..MaxEvents /\ Head(inbox[i]) <= published
  BY OfferedTo
<1>b. send[c] \in Seq(1..MaxEvents) /\ send[c] \in Seq(Nat) /\ Len(send[c]) \in Nat /\ Len(send[c]) <= Cap
  BY <1>1, EventsAreNumbers DEF HubTypeOK
<1>3. /\ send[c] \in Seq(1..MaxEvents) /\ send[c] \in Seq(Nat) /\ Len(send[c]) \in Nat
      /\ \A d \in Client : d # c => send'[d] = send[d]
      /\ send'[c] = IF Len(send[c]) < Cap THEN Append(send[c], Head(inbox[i])) ELSE send[c]
  BY <1>1, <1>a, <1>b DEF HubTypeOK
<1>4. /\ send'[c] \in Seq(1..MaxEvents) /\ Len(send'[c]) <= Cap
      /\ \A k \in 1..Len(send'[c]) :
           (k \in 1..Len(send[c]) /\ send'[c][k] = send[c][k]) \/ send'[c][k] = Head(inbox[i])
  <2>1. CASE Len(send[c]) < Cap
    <3>1. send'[c] = Append(send[c], Head(inbox[i]))
      BY <1>3, <2>1
    <3>2. /\ Append(send[c], Head(inbox[i])) \in Seq(1..MaxEvents)
          /\ Len(Append(send[c], Head(inbox[i]))) = Len(send[c]) + 1
      BY <1>a, <1>b, AppendProperties
    <3>3. \A k \in 1..Len(send[c]) + 1 :
            Append(send[c], Head(inbox[i]))[k] = IF k = Len(send[c]) + 1 THEN Head(inbox[i]) ELSE send[c][k]
      BY <1>a, <1>b, AppendProperties
    <3> QED  BY <1>b, <2>1, <3>1, <3>2, <3>3, HubAssumption
  <2>2. CASE ~(Len(send[c]) < Cap)
    BY <1>3, <1>b, <2>2
  <2> QED  BY <2>1, <2>2
<1>5. HubTypeOK'
  <2>1. send' \in [Client -> Seq(1..MaxEvents)] /\ \A d \in Client : Len(send'[d]) <= Cap
    BY <1>1, <1>3, <1>4, <1>a DEF HubTypeOK
  <2>2. offering' \in [Subscriber -> SUBSET Client]
    BY <1>1, <1>a DEF HubTypeOK
  <2>3. \A j \in Subscriber : offering'[j] # {} => inbox'[j] # <<>>
    BY <1>1, OfferedTo, OfferedFrom DEF HubTypeOK, Broadcasting
  <2>4. inbox' \in [Subscriber -> Seq(1..MaxEvents)]
    BY OfferedFrom
  <2>5. panicked' \in BOOLEAN
    BY <1>a DEF Offer
  <2> QED  BY <1>1, <1>2, <2>1, <2>2, <2>3, <2>4, <2>5 DEF HubTypeOK, Broadcasting
<1>6. Sessions' /\ NoPanic'
  BY <1>1, <1>2, <1>a DEF Sessions, NoPanic, HubTypeOK
<1>7. Started'
  BY <1>1, <1>2, OfferedTo, OfferedFrom DEF Started
<1>8. Past'
  <2>1. \A j \in Subscriber : /\ Ascending(inbox'[j])
                              /\ \A k \in 1..Len(inbox'[j]) : inbox'[j][k] <= published
    BY <1>1, OfferedFrom DEF Past
  <2>2. \A d \in Client : /\ shown[d] <= published
                          /\ \A k \in 1..Len(send'[d]) : send'[d][k] <= published
    BY <1>1, <1>3, <1>4, <1>a DEF Past
  <2> QED  BY <1>2, <2>1, <2>2 DEF Past, Ascending
<1>9. InLine'
  <2> SUFFICES ASSUME \A m, n \in running : m = n, NEW d \in Client
               PROVE /\ Ascending(send'[d])
                     /\ \A k \in 1..Len(send'[d]) : shown[d] < send'[d][k]
                     /\ \A m \in running : \A k \in 1..Len(inbox'[m]) : Ahead(m, d, k)' =>
                          /\ shown[d] < inbox'[m][k]
                          /\ \A l \in 1..Len(send'[d]) : send'[d][l] < inbox'[m][k]
    BY <1>2 DEF InLine, Ascending, Ahead
  <2>1. \A m \in running : m = i
    BY OfferedTo
  <2>2. /\ Ascending(send[d])
        /\ \A k \in 1..Len(send[d]) : shown[d] < send[d][k]
        /\ \A k \in 1..Len(inbox[i]) : Ahead(i, d, k) =>
             /\ shown[d] < inbox[i][k]
             /\ \A l \in 1..Len(send[d]) : send[d][l] < inbox[i][k]
    BY <1>1, OfferedTo DEF InLine
  <2>3. Ahead(i, c, 1) /\ Head(inbox[i]) = inbox[i][1] /\ 1 \in 1..Len(inbox[i]) /\ Head(inbox[i]) \in Nat
    BY <1>1, OfferedTo DEF Ahead
  <2>4. Ascending(send'[d]) /\ \A k \in 1..Len(send'[d]) : shown[d] < send'[d][k]
    <3>1. CASE d = c /\ Len(send[c]) < Cap
      <4>1. send'[d] = Append(send[c], Head(inbox[i]))
        BY <1>3, <3>1
      <4>2. \A k \in 1..Len(send[c]) : send[c][k] < Head(inbox[i])
        BY <2>2, <2>3, <3>1
      <4>3. Ascending(Append(send[c], Head(inbox[i])))
        BY <1>3, <2>2, <2>3, <3>1, <4>2, AppendAscends
      <4>4. shown[c] < Head(inbox[i])
        BY <2>2, <2>3, <3>1
      <4> QED  BY <1>4, <2>2, <3>1, <4>1, <4>3, <4>4
    <3>2. CASE ~(d = c /\ Len(send[c]) < Cap)
      BY <1>3, <2>2, <3>2
    <3> QED  BY <3>1, <3>2
  <2>5. \A k \in 1..Len(inbox'[i]) : Ahead(i, d, k)' =>
          /\ shown[d] < inbox'[i][k]
          /\ \A l \in 1..Len(send'[d]) : send'[d][l] < inbox'[i][k]
    <3> SUFFICES ASSUME NEW k \in 1..Len(inbox'[i]), Ahead(i, d, k)'
                 PROVE /\ shown[d] < inbox'[i][k]
                       /\ \A l \in 1..Len(send'[d]) : send'[d][l] < inbox'[i][k]
      OBVIOUS
    <3>1. PICK m \in 1..Len(inbox[i]) :
            inbox'[i][k] = inbox[i][m] /\ Ahead(i, d, m) /\ (d = c => Head(inbox[i]) < inbox[i][m])
      BY OfferedFrom
    <3>2. shown[d] < inbox[i][m] /\ \A l \in 1..Len(send[d]) : send[d][l] < inbox[i][m]
      BY <2>2, <3>1
    <3>3. \A l \in 1..Len(send'[d]) : send'[d][l] < inbox[i][m]
      <4>1. CASE d = c
        BY <1>4, <3>1, <3>2, <4>1
      <4>2. CASE d # c
        BY <1>3, <3>2, <4>2
      <4> QED  BY <4>1, <4>2
    <3> QED  BY <3>1, <3>2, <3>3
  <2> QED  BY <2>1, <2>4, <2>5
<1> QED  BY <1>5, <1>6, <1>7, <1>8, <1>9 DEF HubInv

-----------------------------------------------------------------------------
(* The pumps                                                               *)

LEMMA ReadFailsKeepsHub == ASSUME HubInv, NEW c \in Client, ReadFails(c) PROVE HubInv'
<1> USE DEF HubInv, ReadFails, subVars, channelVars
<1>1. HubTypeOK'
  BY DEF HubTypeOK, Broadcasting
<1>2. Sessions' /\ NoPanic' /\ Started'
  BY DEF Sessions, NoPanic, Started, HubTypeOK
<1> QED  BY <1>1, <1>2, QueuesAlone

LEMMA UnregisterKeepsHub == ASSUME HubInv, NEW c \in Client, Unregister(c) PROVE HubInv'
<1> USE DEF HubInv, Unregister, subVars
<1>1. HubTypeOK'
  BY DEF HubTypeOK, Broadcasting
<1>2. Sessions' /\ NoPanic' /\ Started'
  BY DEF Sessions, NoPanic, Started, HubTypeOK, LockFree, Broadcasting
<1> QED  BY <1>1, <1>2, QueuesAlone

LEMMA ReaderEndsKeepsHub == ASSUME HubInv, NEW c \in Client, ReaderEnds(c) PROVE HubInv'
<1> USE DEF HubInv, ReaderEnds, subVars, channelVars
<1>1. HubTypeOK'
  BY DEF HubTypeOK, Broadcasting
<1>2. Sessions' /\ NoPanic' /\ Started'
  BY DEF Sessions, NoPanic, Started, HubTypeOK
<1> QED  BY <1>1, <1>2, QueuesAlone

LEMMA WriterEndsKeepsHub == ASSUME HubInv, NEW c \in Client, WriterEnds(c) PROVE HubInv'
<1> USE DEF HubInv, WriterEnds, subVars, channelVars
<1>1. HubTypeOK'
  BY DEF HubTypeOK, Broadcasting
<1>2. Sessions' /\ NoPanic' /\ Started'
  BY DEF Sessions, NoPanic, Started
<1> QED  BY <1>1, <1>2, QueuesAlone

\* What the browser is shown next comes before the rest of the queue.
LEMMA WriteKeepsHub == ASSUME HubInv, NEW c \in Client, Write(c) PROVE HubInv'
<1>1. HubTypeOK /\ Sessions /\ NoPanic /\ Started /\ Past /\ InLine
  BY DEF HubInv
<1>2. /\ UNCHANGED <<sessions, registered, closed, upgrade, reader, published, panicked>>
      /\ UNCHANGED <<running, inbox, offering>>
  BY DEF Write, subVars
<1>3. /\ send[c] \in Seq(1..MaxEvents) /\ send[c] \in Seq(Nat) /\ send[c] # <<>>
      /\ Len(send[c]) \in Nat /\ 1 \in 1..Len(send[c])
      /\ send'[c] = Tail(send[c]) /\ \A d \in Client : d # c => send'[d] = send[d]
  <2>1. send[c] \in Seq(1..MaxEvents) /\ send[c] \in Seq(Nat)
    BY <1>1, EventsAreNumbers
  <2> QED  BY <1>1, <2>1, EmptySeq DEF Write, HubTypeOK
<1>4. /\ Tail(send[c]) \in Seq(1..MaxEvents)
      /\ Head(send[c]) \in 1..MaxEvents
      /\ Head(send[c]) = send[c][1] /\ Len(Tail(send[c])) = Len(send[c]) - 1
      /\ \A k \in 1..Len(Tail(send[c])) : k + 1 \in 1..Len(send[c]) /\ Tail(send[c])[k] = send[c][k + 1]
  <2>1. /\ Tail(send[c]) \in Seq(1..MaxEvents) /\ Head(send[c]) \in 1..MaxEvents
        /\ Len(Tail(send[c])) = Len(send[c]) - 1
        /\ \A k \in 1..Len(Tail(send[c])) : Tail(send[c])[k] = send[c][k + 1]
    BY <1>3, HeadTailProperties
  <2>2. Head(send[c]) = send[c][1]
    BY <1>3
  <2> QED  BY <1>3, <2>1, <2>2
<1>5. \/ shown' = [shown EXCEPT ![c] = Head(send[c])]
      \/ shown' = shown
  BY DEF Write
<1>6. HubTypeOK'
  <2>1. send' \in [Client -> Seq(1..MaxEvents)] /\ \A d \in Client : Len(send'[d]) <= Cap
    BY <1>1, <1>3, <1>4, HubAssumption DEF Write, HubTypeOK
  <2>2. shown' \in [Client -> 0..MaxEvents]
    <3>1. Head(send[c]) \in 0..MaxEvents
      BY <1>4
    <3> QED  BY <1>1, <1>5, <3>1 DEF HubTypeOK
  <2>3. conn' \in [Client -> BOOLEAN] /\ writer' \in [Client -> {"off", "running", "done"}]
    BY <1>1 DEF Write, HubTypeOK
  <2> QED  BY <1>1, <1>2, <2>1, <2>2, <2>3 DEF HubTypeOK, Broadcasting
<1>7. Sessions' /\ NoPanic' /\ Started'
  BY <1>1, <1>2 DEF Sessions, NoPanic, Started
<1>8. Past'
  <2>1. \A d \in Client : /\ shown'[d] <= published
                          /\ \A k \in 1..Len(send'[d]) : send'[d][k] <= published
    <3>1. \A d \in Client : shown[d] <= published /\ \A k \in 1..Len(send[d]) : send[d][k] <= published
      BY <1>1 DEF Past
    <3>2. \A d \in Client : shown'[d] <= published
      <4>1. Head(send[c]) <= published
        BY <1>3, <1>4, <3>1
      <4> QED  BY <1>1, <1>5, <3>1, <4>1 DEF HubTypeOK
    <3>3. \A k \in 1..Len(send'[c]) : send'[c][k] <= published
      BY <1>3, <1>4, <3>1
    <3> QED  BY <1>3, <3>1, <3>2, <3>3
  <2> QED  BY <1>1, <1>2, <2>1 DEF Past, Ascending
<1>9. InLine'
  <2> SUFFICES ASSUME \A m, n \in running : m = n, NEW d \in Client
               PROVE /\ Ascending(send'[d])
                     /\ \A k \in 1..Len(send'[d]) : shown'[d] < send'[d][k]
                     /\ \A m \in running : \A k \in 1..Len(inbox[m]) : Ahead(m, d, k) =>
                          /\ shown'[d] < inbox[m][k]
                          /\ \A l \in 1..Len(send'[d]) : send'[d][l] < inbox[m][k]
    BY <1>2 DEF InLine, Ascending, Ahead
  <2>1. CASE d = c
    <3>1. /\ Ascending(send[c]) /\ \A k \in 1..Len(send[c]) : shown[c] < send[c][k]
          /\ \A m \in running : \A k \in 1..Len(inbox[m]) : Ahead(m, c, k) =>
                /\ shown[c] < inbox[m][k]
                /\ \A l \in 1..Len(send[c]) : send[c][l] < inbox[m][k]
      BY <1>1 DEF InLine
    <3>2. /\ Ascending(Tail(send[c]))
          /\ \A k \in 1..Len(Tail(send[c])) : Head(send[c]) < Tail(send[c])[k]
      BY <1>3, <3>1, TailAscends
    <3>3. shown'[c] = Head(send[c]) \/ shown'[c] = shown[c]
      BY <1>1, <1>5 DEF HubTypeOK
    <3>4. \A k \in 1..Len(Tail(send[c])) : shown'[c] < Tail(send[c])[k]
      BY <1>4, <3>1, <3>2, <3>3
    <3>5. \A m \in running : \A k \in 1..Len(inbox[m]) : Ahead(m, c, k) =>
            /\ shown'[c] < inbox[m][k]
            /\ \A l \in 1..Len(Tail(send[c])) : Tail(send[c])[l] < inbox[m][k]
      BY <1>3, <1>4, <3>1, <3>3
    <3> QED  BY <1>3, <2>1, <3>2, <3>4, <3>5
  <2>2. CASE d # c
    BY <1>1, <1>3, <1>5, <2>2 DEF InLine, HubTypeOK
  <2> QED  BY <2>1, <2>2
<1> QED  BY <1>6, <1>7, <1>8, <1>9 DEF HubInv

LEMMA HubInductive == ASSUME HubInv, [HubNext]_hubVars PROVE HubInv'
<1>1. CASE UNCHANGED hubVars
  <2> USE <1>1 DEF HubInv, hubVars, channelVars, pumpVars, subVars
  <2>1. HubTypeOK' /\ Sessions' /\ NoPanic' /\ Started'
    BY DEF HubTypeOK, Broadcasting, Sessions, NoPanic, Started
  <2> QED  BY <2>1, QueuesAlone
<1>2. ASSUME NEW c \in Client,
             \/ Register(c) \/ CheckOrg(c) \/ Subscribe(c) \/ ReadFails(c)
             \/ Unregister(c) \/ ReaderEnds(c) \/ Write(c) \/ WriterEnds(c)
      PROVE HubInv'
  BY <1>2, RegisterKeepsHub, CheckOrgKeepsHub, SubscribeKeepsHub, ReadFailsKeepsHub,
     UnregisterKeepsHub, ReaderEndsKeepsHub, WriteKeepsHub, WriterEndsKeepsHub
<1>3. ASSUME NEW i \in Subscriber, Broadcast(i) \/ \E c \in Client : Offer(i, c) PROVE HubInv'
  BY <1>3, BroadcastKeepsHub, OfferKeepsHub
<1>4. CASE Publish
  BY <1>4, PublishKeepsHub
<1> QED  BY <1>1, <1>2, <1>3, <1>4 DEF HubNext

\* The types, whatever the sessions, subscribers and events.
THEOREM HubTypeCorrect == HubSpec => []HubTypeOK
<1>1. HubInv => HubTypeOK
  BY DEF HubInv
<1> QED  BY <1>1, HubInitInv, HubInductive, PTL DEF HubSpec

\* Nothing is sent on a closed channel and none is closed twice, however sessions
\* come and go during broadcasts (hub.go, broadcast and unregister).
THEOREM HubNeverPanics == HubSpec => []NoPanic
<1>1. HubInv => NoPanic
  BY DEF HubInv
<1> QED  BY <1>1, HubInitInv, HubInductive, PTL DEF HubSpec

\* A session that is served by one subscriber sees later and later events.
LEMMA WriteShowsLater ==
  ASSUME HubInv, NEW c \in Client, Write(c), Cardinality(running) <= 1, writer'[c] = "running"
  PROVE shown'[c] > shown[c]
<1>1. HubTypeOK /\ Started /\ InLine
  BY DEF HubInv
<1>2. \A m, n \in running : m = n
  <2> SUFFICES ASSUME NEW m \in running, NEW n \in running, m # n PROVE FALSE
    OBVIOUS
  <2>1. IsFiniteSet(running) /\ {m, n} \subseteq running
    BY <1>1 DEF Started
  <2>2. Cardinality({m, n}) <= Cardinality(running) /\ Cardinality({m, n}) = 2
    <3>1. IsFiniteSet({m}) /\ Cardinality({m}) = 1
      BY FS_Singleton
    <3>2. Cardinality({m} \cup {n}) = 2
      <4>1. Cardinality({m} \cup {n}) = IF n \in {m} THEN Cardinality({m}) ELSE Cardinality({m}) + 1
        BY ONLY <3>1, FS_AddElement, Zenon
      <4> QED  BY <3>1, <4>1
    <3>3. {m} \cup {n} = {m, n}
      OBVIOUS
    <3> QED  BY <2>1, <3>2, <3>3, FS_Subset
  <2>3. Cardinality(running) \in Nat
    BY <2>1, FS_CardinalityType
  <2> QED  BY <2>2, <2>3
<1>3. shown'[c] = Head(send[c]) /\ send[c] # <<>>
  BY <1>1 DEF Write, HubTypeOK
<1>4. Head(send[c]) = send[c][1] /\ 1 \in 1..Len(send[c]) /\ Head(send[c]) \in Nat
  <2>1. send[c] \in Seq(Nat)
    BY <1>1, EventsAreNumbers
  <2> QED  BY <1>3, <2>1, EmptySeq, HeadTailProperties
<1>5. shown[c] < send[c][1] /\ shown[c] \in Nat
  BY <1>1, <1>2, <1>4, EventsAreNumbers DEF InLine
<1> QED  BY <1>3, <1>4, <1>5

\* With one subscriber the events come in order and none comes twice.
THEOREM EventsInOrder == HubSpec => InOrder
<1> DEFINE A == \A c \in Client :
      Cardinality(running) <= 1 /\ Write(c) /\ writer'[c] = "running" => shown'[c] > shown[c]
<1>1. HubInv /\ [HubNext]_hubVars => [A]_hubVars
  BY WriteShowsLater
<1> QED  BY <1>1, HubInitInv, HubInductive, PTL DEF HubSpec, InOrder
=============================================================================
