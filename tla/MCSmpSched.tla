----------------------------- MODULE MCSmpSched -----------------------------
(* Small instances of the scheduler: the bootstrap processor, one or two   *)
(* application processors and up to three threads, as model values.        *)
EXTENDS SmpSched, TLC

(* The APs run the same loop, and threads differ in nothing.  Used by the  *)
(* runs that check no liveness.                                            *)
Symmetry == Permutations(APs) \cup Permutations(Threads)
=============================================================================
