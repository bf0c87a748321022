---------------------------- MODULE MCEnrollment ----------------------------
\* Constants of Enrollment for TLC: all machines have one name, as clones of an
\* image do; the tokens t1 and t2 are for one organisation, t3 for another.
EXTENDS Enrollment, TLC

CONSTANTS t1, t2, t3, name, org, other

MCHostname == [m \in Machine |-> name]
MCOrgOf == [t \in Token |-> IF t = t3 THEN other ELSE org]
MCSymmetry == Permutations(Machine)
=============================================================================
