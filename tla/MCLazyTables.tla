---------------------------- MODULE MCLazyTables ----------------------------
(* Two or three threads and two bundles per family: enough for an install to *)
(* race another install and a transcode between any two of its slots.        *)
EXTENDS LazyTables, TLC

Symmetry == Permutations(Threads)
=============================================================================
