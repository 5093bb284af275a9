---------------------------- MODULE MCCodingRun ----------------------------
EXTENDS CodingRun, TLC

CONSTANTS t1, t2

Symmetric == Permutations({t1, t2})
=============================================================================
