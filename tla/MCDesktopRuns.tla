--------------------------- MODULE MCDesktopRuns ---------------------------
EXTENDS DesktopRuns, TLC

CONSTANTS c1, c2

Symmetric == Permutations({c1, c2})
=============================================================================
