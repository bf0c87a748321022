----------------------------- MODULE LogContract ------------------------------
(***************************************************************************)
(* What a consumer group promises the workers of the server about a topic, *)
(* with no member, fetch, round or rebalance in sight: the records of a    *)
(* partition are seen for the first time in their order, and the committed *)
(* offset only moves forward and never past what has been seen.  Records   *)
(* that were seen may come again.                                          *)
(***************************************************************************)
EXTENDS Naturals

CONSTANT Partition

VARIABLES
  end,        \* records in the log of each partition
  seen,       \* how many of them a handler was given, or were dropped for an error
  handled,    \* the records <<p, o>> that a handler returned nil for
  committed   \* the group's offset of each partition

logContractVars == <<end, seen, handled, committed>>

Produce(p) ==
  /\ end' = [end EXCEPT ![p] = @ + 1]
  /\ UNCHANGED <<seen, handled, committed>>

\* A handler is called with record o for the first time, or again.
Call(p, o) ==
  /\ o <= seen[p] /\ o < end[p]
  /\ seen' = IF o = seen[p] THEN [seen EXCEPT ![p] = o + 1] ELSE seen
  /\ handled' \in {handled, handled \cup {<<p, o>>}}
  /\ UNCHANGED <<end, committed>>

\* The records of a fetch are dropped, for an error in it.
Drop ==
  /\ seen' \in [Partition -> Nat]
  /\ \A p \in Partition : seen[p] <= seen'[p] /\ seen'[p] <= end[p]
  /\ UNCHANGED <<end, handled, committed>>

Commit ==
  /\ committed' \in [Partition -> Nat]
  /\ \A p \in Partition : committed[p] <= committed'[p] /\ committed'[p] <= seen[p]
  /\ UNCHANGED <<end, seen, handled>>

Init ==
  /\ end = [p \in Partition |-> 0] /\ seen = [p \in Partition |-> 0]
  /\ handled = {} /\ committed = [p \in Partition |-> 0]

Next ==
  \/ \E p \in Partition : Produce(p) \/ \E o \in 0..end[p] : Call(p, o)
  \/ Drop \/ Commit

Spec == Init /\ [][Next]_logContractVars
=============================================================================
