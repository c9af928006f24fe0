------------------------------ MODULE MCBreaker ------------------------------
EXTENDS Breaker

CONSTANTS c1, c2

MCTwoCallers == {c1, c2}
===============================================================================
