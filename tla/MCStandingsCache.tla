--------------------------- MODULE MCStandingsCache ---------------------------
EXTENDS StandingsCache, TLC

Symmetry == Permutations(Proc)
===============================================================================
