------------------------------- MODULE MCRouting -------------------------------
EXTENDS Routing

\* The dashboard's own servers and weights.
MCWeight == <<3, 2, 1>>

\* Two virtual nodes each, two of which share a place; one key lies past the
\* last of them.
MCVNodes == <<{2, 7}, {4, 7}, {1, 5}>>
MCKeyHashes == {1, 3, 6, 8}
===============================================================================
