--------------------------- MODULE MCPayloadCache ----------------------------
\* Constants of PayloadCache for TLC: clock readings that may step back, and a
\* bound on the number of calls of Push.
EXTENDS PayloadCache, TLC

CONSTANT MaxPushes

MCSecond == {1, 2}

MCSymmetry == Permutations(Payload) \cup Permutations(Key)

PushesBounded == lastId <= MaxPushes
=============================================================================
