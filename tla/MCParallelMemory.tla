-------------------------- MODULE MCParallelMemory --------------------------
(* Three PEs, a read-only segment at address 0 and an unmapped address 1 of *)
(* the same page: a chunk read at 0 stops at the end of the segment.        *)
EXTENDS ParallelMemory

MCImage ==
  [regions |-> {[base |-> 0, size |-> 1, permissions |-> {"r"}]},
   bytes   |-> [a \in Addr |-> 0]]
=============================================================================
