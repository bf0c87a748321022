--------------------------- MODULE AnomalyEngine ----------------------------
(***************************************************************************)
(* What the anomaly engine does with one finding (one host, rule and       *)
(* entity) that scan after scan repeats, itam-server/internal/anomaly/     *)
(* engine.go: dispatch takes the dedup key in Redis (SETNX with a time to  *)
(* live of 15 minutes, a "window"), inserts the anomaly, publishes an      *)
(* alert if it got the key, and publishes the event for the browsers.      *)
(*                                                                         *)
(* Engines in several server processes may be handling scans of the host   *)
(* at once, and a scan may be handled again (ConsumerGroup); each step is  *)
(* a call of an external service that may fail, and a process may die      *)
(* between any two.  handle logs dispatch's errors and returns nil, so     *)
(* that the scan counts as handled all the same.                           *)
(***************************************************************************)
EXTENDS Naturals, FiniteSets

CONSTANT Engine    \* goroutines in Engine.handle for a scan of this host

VARIABLES
  dedup,       \* the dedup key exists in Redis
  pc,          \* where each engine is in dispatch
  first,       \* "set": it got the key
  stored,      \* the id of its anomaly is that of a row
  alerts,      \* alerts published in this window: 0, 1, or 2 for more
  unstored     \* an alert or an event has gone out for an anomaly without a row

engineVars == <<pc, first, stored>>
vars == <<dedup, engineVars, alerts, unstored>>

Pc == {"idle", "setnx", "insert", "alert", "event"}

Goto(e, l) == pc' = [pc EXCEPT ![e] = l]

\* dispatch is over, for good or with an error that is only logged.
Return(e) ==
  /\ Goto(e, "idle")
  /\ first' = [first EXCEPT ![e] = FALSE] /\ stored' = [stored EXCEPT ![e] = FALSE]

-----------------------------------------------------------------------------
\* handle: there is a baseline, the host is known, and a rule has the finding.
Evaluate(e) ==
  /\ pc[e] = "idle" /\ Goto(e, "setnx")
  /\ UNCHANGED <<dedup, first, stored, alerts, unstored>>

\* Mutant of SetNX: the key is looked up, and not set before the alert is out.
Exists(e) ==
  /\ pc[e] = "setnx"
  /\ first' = [first EXCEPT ![e] = ~dedup]
  /\ Goto(e, "insert")
  /\ UNCHANGED <<dedup, stored, alerts, unstored>>

\* SETNX is atomic: one engine gets the key.
SetNX(e) ==
  /\ pc[e] = "setnx"
  /\ first' = [first EXCEPT ![e] = ~dedup] /\ dedup' = TRUE
  /\ Goto(e, "insert")
  /\ UNCHANGED <<stored, alerts, unstored>>

\* Mutant of Insert: an error is logged, and the anomaly goes out with id 0.
InsertOrLog(e) ==
  /\ pc[e] = "insert"
  /\ \E ok \in BOOLEAN : stored' = [stored EXCEPT ![e] = ok]
  /\ Goto(e, IF first[e] THEN "alert" ELSE "event")
  /\ UNCHANGED <<dedup, first, alerts, unstored>>

Insert(e) ==
  /\ pc[e] = "insert"
  /\ stored' = [stored EXCEPT ![e] = TRUE]
  /\ Goto(e, IF first[e] THEN "alert" ELSE "event")
  /\ UNCHANGED <<dedup, first, alerts, unstored>>

\* Publish to agent.alert.
Alert(e) ==
  /\ pc[e] = "alert"
  /\ alerts' = IF alerts < 2 THEN alerts + 1 ELSE alerts
  /\ unstored' = (unstored \/ ~stored[e])
  /\ Goto(e, "event")
  /\ UNCHANGED <<dedup, first, stored>>

\* Publish to agent.alert fails: that is logged, and the event goes out.
AlertFails(e) ==
  /\ pc[e] = "alert" /\ Goto(e, "event")
  /\ UNCHANGED <<dedup, first, stored, alerts, unstored>>

\* Redis PUBLISH; its error is ignored.
Event(e) ==
  /\ pc[e] = "event"
  /\ unstored' = (unstored \/ ~stored[e])
  /\ Return(e)
  /\ UNCHANGED <<dedup, alerts>>

\* SETNX, the INSERT or an unlogged step returns an error, or the process dies.
Break(e) ==
  /\ pc[e] # "idle" /\ Return(e)
  /\ UNCHANGED <<dedup, alerts, unstored>>

\* Mutant of Expire: the key was set without a time to live.
NeverExpires == FALSE /\ UNCHANGED vars

\* The window is over.  No engine takes 15 minutes from SETNX to the alert.
Expire ==
  /\ dedup /\ \A e \in Engine : ~first[e] \/ pc[e] = "event"
  /\ dedup' = FALSE /\ alerts' = 0
  /\ UNCHANGED <<engineVars, unstored>>

Init ==
  /\ dedup = FALSE /\ alerts = 0
  /\ pc = [e \in Engine |-> "idle"]
  /\ first = [e \in Engine |-> FALSE] /\ stored = [e \in Engine |-> FALSE]
  /\ unstored = FALSE

Next ==
  \/ \E e \in Engine : \/ Evaluate(e) \/ SetNX(e) \/ Insert(e) \/ Alert(e)
                       \/ AlertFails(e) \/ Event(e) \/ Break(e)
  \/ Expire

Spec == Init /\ [][Next]_vars

-----------------------------------------------------------------------------
\* Every variable has its type; an engine knows its row's id exactly after the
\* insertion, and one that is to alert got the key.
TypeOK ==
  /\ dedup \in BOOLEAN /\ alerts \in 0..2
  /\ pc \in [Engine -> Pc] /\ first \in [Engine -> BOOLEAN] /\ stored \in [Engine -> BOOLEAN]
  /\ unstored \in BOOLEAN
  /\ \A e \in Engine : /\ pc[e] = "alert" => first[e]
                       /\ stored[e] <=> pc[e] \in {"alert", "event"}

\* Several engines with the same finding send one alert in a window, whatever order
\* their steps come in ("Suppress duplicate alert dispatch within the dedup window").
OneAlertPerWindow == alerts <= 1

\* Alerts and events carry the id of a stored anomaly: nothing goes out for one
\* whose row could not be written.
OnlyStored == ~unstored

-----------------------------------------------------------------------------
(* What these invariants rest on (AlertAndHubProofs).                      *)

\* An engine that got the key and has not come to the alert yet.
ToAlert(e) == first[e] /\ pc[e] \in {"insert", "alert"}

\* The key is there as long as one is to alert or has; there is only one of them, and
\* no alert before its own.
OneHolder ==
  /\ ~dedup => alerts = 0 /\ \A e \in Engine : ~ToAlert(e)
  /\ \A e \in Engine : /\ first[e] => pc[e] \in {"insert", "alert", "event"}
                       /\ ToAlert(e) => alerts = 0 /\ \A f \in Engine : ToAlert(f) => f = e

EngineInv == TypeOK /\ OneHolder /\ OneAlertPerWindow /\ OnlyStored

=============================================================================
