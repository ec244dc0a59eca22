-------------------------------- MODULE MCAvmf --------------------------------
(* Two heaps, of three pages and of one, the second where the first ends.  *)
EXTENDS Avmf, TLC

CONSTANTS kernel, driver

Bases == kernel :> 1 @@ driver :> 4
Ends == kernel :> 4 @@ driver :> 5
CallerSymmetry == Permutations(Callers)
=============================================================================
