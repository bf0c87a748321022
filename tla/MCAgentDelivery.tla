-------------------------- MODULE MCAgentDelivery ---------------------------
\* Constants of AgentDelivery for TLC.
EXTENDS AgentDelivery, TLC

MCSecond == {1}

MCSymmetry == Permutations(Payload) \cup Permutations(ScanJob) \cup Permutations(FlushJob)

\* For liveness, for which TLC's symmetry is unsound: the behaviours that start with one
\* of the keys and collect one of the payloads first.  The others are these with keys or
\* payloads exchanged.
FirstKey == CHOOSE k \in Key : TRUE
FirstPayload == CHOOSE p \in Payload : TRUE
FirstComesFirst == FirstKey \in issued /\ (collected # {} => FirstPayload \in collected)
=============================================================================
