-------------------------- MODULE MCFailureDetector --------------------------
EXTENDS FailureDetector

CONSTANTS s1, t1, t2, k1, k2

MCServers == {s1}
MCThreads == {t1, t2}
MCControllers == {k1, k2}
===============================================================================
