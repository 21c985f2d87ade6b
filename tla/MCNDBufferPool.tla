---------------------------- MODULE MCNDBufferPool ----------------------------
(* Instances of NDBufferPool for TLC: two threads, two tiny buffers, sizes    *)
(* below, at and above each limit of the pool.                               *)
EXTENDS NDBufferPool, TLC

CONSTANTS t1, t2, tiny1, tiny2, h1, h2, h3

(* What is claimed is claimed up to a race: no state after one is explored.   *)
UpToRace == ~raced

Symmetry == Permutations({h1, h2, h3}) \cup Permutations({tiny1, tiny2})
=============================================================================
