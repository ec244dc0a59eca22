----------------------------- MODULE MCPhysAlloc -----------------------------
(* Frames of two bytes, addresses modulo 32, and two regions: one that no  *)
(* page boundary starts, of four usable frames, and one of three.          *)
EXTENDS PhysAlloc, Sequences

TwoRegions == <<[base |-> 3, limit |-> 12], [base |-> 14, limit |-> 21]>>

(* The one region that e820.c describes, in small. *)
OneRegion == <<[base |-> 4, limit |-> 14]>>
=============================================================================
