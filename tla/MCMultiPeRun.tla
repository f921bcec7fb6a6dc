---------------------------- MODULE MCMultiPeRun ----------------------------
(* MultiPeRun on a small instance: a miss on address 0 also brings in its   *)
(* neighbour, and a chunk that does not fit a cache of two bytes evicts.    *)
EXTENDS MultiPeRun

MCImage == [a \in Addr |-> 0]
PairChunk == [a \in Addr |-> { b \in Addr : b >= a }]
=============================================================================
