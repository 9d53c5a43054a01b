--------------------------- MODULE MCMihomoDriver ---------------------------
EXTENDS MihomoDriver, TLC
CONSTANTS s1, s2, r1, p1, q1, q2
Steady == [ticking |-> FALSE, faults |-> {}]
Rough  == [ticking |-> TRUE, faults |-> FaultKind]
Both   == {Steady, Rough}
\* Only a reload may be refused.
Refusing == {[ticking |-> FALSE, faults |-> {"refuse"}]}
=============================================================================
