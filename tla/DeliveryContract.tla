-------------------------- MODULE DeliveryContract --------------------------
(***************************************************************************)
(* What the agent promises about each scan payload, with no queue, job,    *)
(* token or network in sight: the requirements cmd/agent/main.go and       *)
(* internal/cache are held to.  A payload is collected once, is kept in    *)
(* memory until the server has answered for it or until it is queued, and  *)
(* leaves the queue only when the server has answered, when its attempts   *)
(* are used up, or to make room in a full queue.  A payload that left is   *)
(* never queued again.                                                     *)
(***************************************************************************)
EXTENDS Naturals, FiniteSets

CONSTANTS Payload, MaxRows

VARIABLES
  stage,      \* [Payload -> Stage]
  answered    \* payloads the server accepted or turned down

Stage == {"unborn", "inFlight", "queued", "parked", "gone"}

contractVars == <<stage, answered>>

AtStage(s) == {p \in Payload : stage[p] = s}

Move(S, s) == stage' = [p \in Payload |-> IF p \in S THEN s ELSE stage[p]]

Collect(p) == stage[p] = "unborn" /\ Move({p}, "inFlight") /\ UNCHANGED answered

\* The server may be given a payload more than once, and even after it left.
Answer(p) ==
  /\ stage[p] # "unborn"
  /\ answered' = answered \cup {p}
  /\ UNCHANGED stage

Deliver(p) ==
  /\ stage[p] = "inFlight"
  /\ Move({p}, "gone")
  /\ answered' = answered \cup {p}

\* Room is made only when the queue is within one row of its limit.
Enqueue(p, out) ==
  /\ stage[p] = "inFlight"
  /\ out \subseteq AtStage("queued")
  /\ out # {} => Cardinality(AtStage("queued")) + 1 >= MaxRows
  /\ stage' = [q \in Payload |-> IF q = p THEN "queued"
                                 ELSE IF q \in out THEN "gone" ELSE stage[q]]
  /\ UNCHANGED answered

Settle(p) ==
  /\ stage[p] = "queued" /\ p \in answered
  /\ Move({p}, "gone")
  /\ UNCHANGED answered

Park(p) == stage[p] = "queued" /\ Move({p}, "parked") /\ UNCHANGED answered

\* A job's deadline passes, the cache is closed under it, or the process ends.
Abandon(S) ==
  /\ S \subseteq AtStage("inFlight")
  /\ Move(S, "gone")
  /\ UNCHANGED answered

Init == stage = [p \in Payload |-> "unborn"] /\ answered = {}

Next ==
  \/ \E p \in Payload : Collect(p) \/ Answer(p) \/ Deliver(p) \/ Settle(p) \/ Park(p)
  \/ \E p \in Payload, out \in SUBSET Payload : Enqueue(p, out)
  \/ \E S \in SUBSET Payload : Abandon(S)

Spec == Init /\ [][Next]_contractVars
=============================================================================
