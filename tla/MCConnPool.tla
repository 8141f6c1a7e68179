------------------------------ MODULE MCConnPool ------------------------------
EXTENDS ConnPool, TLC

Symmetry == Permutations(Proc)
===============================================================================
