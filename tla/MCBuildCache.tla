---------------------------- MODULE MCBuildCache ----------------------------
(* Four processes, of which any may crash, and three digests.               *)
EXTENDS BuildCache, TLC

Symmetry == Permutations(Process) \cup Permutations(Digest)
=============================================================================
