-------------------------- MODULE MCThumbnailLocks ---------------------------
(***************************************************************************)
(* An instance of ThumbnailLocks for TLC: any call on each thread.         *)
(***************************************************************************)
EXTENDS ThumbnailLocks, TLC

Symmetry == Permutations(Thread)
=============================================================================
