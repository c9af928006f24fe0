--------------------------- MODULE MCHealthChecker ---------------------------
EXTENDS HealthChecker

CONSTANTS s1, c1, c2

MCServers == {s1}
MCCallers == {c1, c2}
===============================================================================
