------------------------------ MODULE MCRequests ------------------------------
EXTENDS Requests, TLC

CONSTANTS t1, t2, x, y

MCThreads == {t1, t2}
MCLines == {x, y}

Symmetry == Permutations(MCThreads) \cup Permutations(MCLines)
===============================================================================
