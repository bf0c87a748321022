--------------------------- MODULE AlertDispatcher --------------------------
(***************************************************************************)
(* From a finding to the people who should see it: the engine publishes    *)
(* alerts to the topic agent.alert (AnomalyEngine), and the dispatchers of *)
(* the server processes, one consumer group, forward each to every channel *)
(* of the host's organisation and record each attempt,                     *)
(* itam-server/internal/alert.                                             *)
(*                                                                         *)
(* The poll loop (ConsumerGroup) delivers an alert at least once: until    *)
(* it is committed it may come again, also to a second dispatcher while    *)
(* the first still handles it.  A message that cannot be sent is recorded  *)
(* and not sent again; the handler never returns an error for it.          *)
(***************************************************************************)
EXTENDS AnomalyEngine

CONSTANTS
  Dispatcher,  \* goroutines in Dispatcher.handle
  Channels,    \* number of channels configured for the organisation
  Alerts       \* bound: alerts in the topic and not committed, by the slot they take

ASSUME DispatcherAssumption == Channels \in Nat

Channel == 1..Channels

VARIABLES
  topic,    \* the slots of the alerts that may be delivered
  handled,  \* those handle has returned nil for
  dropped,  \* and those of them it dropped, because it found no host
  tried,    \* <<alert, channel>>: a message was sent, or failed
  rows,     \* alert_deliveries of these alerts: <<alert, channel, delivered>>
  hand,     \* what each dispatcher handles: one alert, or none,
  at,       \* the channel it is at, 0 before it has looked up the host,
  result,   \* and the outcome of a message that is not recorded yet, or none
  reached   \* channels a message has ever reached

topicVars == <<topic, handled, dropped, tried, rows, reached>>
handVars == <<hand, at, result>>
alertVars == <<topicVars, handVars>>
pathVars == <<vars, alertVars>>

\* handle is over.
Release(d) ==
  /\ hand' = [hand EXCEPT ![d] = {}] /\ at' = [at EXCEPT ![d] = 0]
  /\ result' = [result EXCEPT ![d] = {}]

-----------------------------------------------------------------------------
\* Engine: Publish to agent.alert.
PublishAlert(e) ==
  /\ Alert(e)
  /\ \E r \in Alerts \ topic : topic' = topic \cup {r}
  /\ UNCHANGED <<handled, dropped, tried, rows, reached, handVars>>

\* The loop hands an alert to handle.
Deliver(d, r) ==
  /\ hand[d] = {} /\ r \in topic
  /\ hand' = [hand EXCEPT ![d] = {r}]
  /\ UNCHANGED <<vars, topicVars, at, result>>

\* The host is found.
FindHost(d) ==
  /\ hand[d] # {} /\ at[d] = 0
  /\ at' = [at EXCEPT ![d] = 1]
  /\ UNCHANGED <<vars, topicVars, hand, result>>

\* GetHostByUUID returns an error or no host, and handle nil.
NoHost(d) ==
  /\ hand[d] # {} /\ at[d] = 0
  /\ dropped' = dropped \cup hand[d] /\ handled' = handled \cup hand[d]
  /\ Release(d)
  /\ UNCHANGED <<vars, topic, tried, rows, reached>>

\* SendSlack, SendTelegram: an error is any status but 200, any answer but ok; a
\* channel of another type is one too.
Send(d, ok) ==
  /\ at[d] \in Channel /\ result[d] = {}
  /\ result' = [result EXCEPT ![d] = hand[d] \X {at[d]} \X {ok}]
  /\ tried' = tried \cup hand[d] \X {at[d]}
  /\ reached' = IF ok THEN reached \cup {at[d]} ELSE reached
  /\ UNCHANGED <<vars, topic, handled, dropped, rows, hand, at>>

\* Mutant of Record: the first message that failed ends the loop.
RecordOrStop(d) ==
  /\ result[d] # {}
  /\ rows' \in {rows, rows \cup result[d]}
  /\ at' = [at EXCEPT ![d] = IF \A x \in result[d] : x[3] THEN @ + 1 ELSE Channels + 1]
  /\ result' = [result EXCEPT ![d] = {}]
  /\ UNCHANGED <<vars, topic, handled, dropped, tried, reached, hand>>

\* recordSuccess, recordFailure: one row; that the INSERT may fail is ignored.  On
\* to the next channel.
Record(d) ==
  /\ result[d] # {}
  /\ rows' \in {rows, rows \cup result[d]}
  /\ at' = [at EXCEPT ![d] = @ + 1]
  /\ result' = [result EXCEPT ![d] = {}]
  /\ UNCHANGED <<vars, topic, handled, dropped, tried, reached, hand>>

\* Every channel was tried: handle returns nil.
Done(d) ==
  /\ hand[d] # {} /\ at[d] > Channels
  /\ handled' = handled \cup hand[d]
  /\ Release(d)
  /\ UNCHANGED <<vars, topic, dropped, tried, rows, reached>>

\* The process dies or loses the partition.
Abandon(d) ==
  /\ hand[d] # {} /\ Release(d)
  /\ UNCHANGED <<vars, topicVars>>

\* The round is committed: the alert does not come again.  Its slot is free when
\* nobody handles it any more.
CommitAlert(r) ==
  /\ r \in handled /\ \A d \in Dispatcher : r \notin hand[d]
  /\ topic' = topic \ {r} /\ handled' = handled \ {r} /\ dropped' = dropped \ {r}
  /\ tried' = {x \in tried : x[1] # r} /\ rows' = {x \in rows : x[1] # r}
  /\ UNCHANGED <<vars, reached, handVars>>

-----------------------------------------------------------------------------
PathInit ==
  /\ Init
  /\ topic = {} /\ handled = {} /\ dropped = {} /\ tried = {} /\ rows = {} /\ reached = {}
  /\ hand = [d \in Dispatcher |-> {}] /\ at = [d \in Dispatcher |-> 0]
  /\ result = [d \in Dispatcher |-> {}]

EngineStep(e) ==
  /\ Evaluate(e) \/ SetNX(e) \/ Insert(e) \/ AlertFails(e) \/ Event(e) \/ Break(e)
  /\ UNCHANGED alertVars

PathNext ==
  \/ \E e \in Engine : EngineStep(e) \/ PublishAlert(e)
  \/ Expire /\ UNCHANGED alertVars
  \/ \E d \in Dispatcher : \/ \E r \in Alerts : Deliver(d, r)
                           \/ FindHost(d) \/ NoHost(d)
                           \/ \E ok \in BOOLEAN : Send(d, ok)
                           \/ Record(d) \/ Done(d) \/ Abandon(d)
  \/ \E r \in Alerts : CommitAlert(r)

PathSpec == PathInit /\ [][PathNext]_pathVars

\* The engines' fairness; what was published is delivered until it is handled, a
\* handler runs on, and rounds are committed.  Not that a host is found or a message
\* sent.
PathFairness ==
  /\ \A e \in Engine :
       /\ WF_pathVars(EngineStep(e) /\ Evaluate(e)) /\ WF_pathVars(EngineStep(e) /\ SetNX(e))
       /\ WF_pathVars(EngineStep(e) /\ Insert(e)) /\ WF_pathVars(EngineStep(e) /\ Event(e))
       /\ WF_pathVars(PublishAlert(e) \/ (EngineStep(e) /\ AlertFails(e)))
  /\ WF_pathVars(Expire /\ UNCHANGED alertVars)
  /\ \A r \in Alerts : WF_pathVars(CommitAlert(r))
  /\ \A r \in Alerts : WF_pathVars(r \notin handled /\ \E d \in Dispatcher : Deliver(d, r))
  /\ \A d \in Dispatcher : /\ WF_pathVars(FindHost(d) \/ NoHost(d))
                           /\ WF_pathVars(\E ok \in BOOLEAN : Send(d, ok))
                           /\ WF_pathVars(Record(d)) /\ WF_pathVars(Done(d))

FairPathSpec == PathSpec /\ PathFairness

-----------------------------------------------------------------------------
\* Every variable has its type, those of AnomalyEngine included; only alerts in the
\* topic are in hand or have a history.
PathTypeOK ==
  /\ TypeOK
  /\ topic \subseteq Alerts /\ handled \subseteq topic /\ dropped \subseteq handled
  /\ tried \subseteq topic \X Channel /\ reached \subseteq Channel
  /\ rows \subseteq topic \X Channel \X BOOLEAN
  /\ hand \in [Dispatcher -> {{}} \cup {{r} : r \in topic}]
  /\ at \in [Dispatcher -> 0..(Channels + 1)]
  /\ result \in [Dispatcher -> SUBSET (Alerts \X Channel \X BOOLEAN)]
  /\ \A d \in Dispatcher : /\ hand[d] = {} => at[d] = 0
                           /\ \A x \in result[d] : x[1] \in hand[d] /\ x[2] = at[d]

\* An alert that counts as handled was tried on every channel of the organisation,
\* though sending to another one failed or a process died over it, unless its host
\* was not found ("routes anomaly events to external channels").
EveryChannelTried == \A r \in handled \ dropped, c \in Channel : <<r, c>> \in tried

\* When failures and crashes stop and the finding persists, a message reaches every
\* channel, though a message that failed is never sent again: a later window's
\* alert makes up for it.
PathSettling ==
  <>[][/\ \A e \in Engine : (Break(e) => Event(e)) /\ ~AlertFails(e)
       /\ \A d \in Dispatcher : ~NoHost(d) /\ ~Send(d, FALSE)
                                /\ (Abandon(d) => Done(d))]_pathVars
ReachesEachChannel == PathSettling => <>(reached = Channel)

-----------------------------------------------------------------------------
(* What EveryChannelTried rests on (AlertAndHubProofs).                    *)

\* A handler has tried the channels behind it, and the one whose outcome it is about
\* to record.
TriedSoFar ==
  \A d \in Dispatcher : \A r \in hand[d], c \in Channel :
    c < at[d] \/ (c = at[d] /\ result[d] # {}) => <<r, c>> \in tried

PathInv == PathTypeOK /\ TriedSoFar /\ EveryChannelTried

=============================================================================
