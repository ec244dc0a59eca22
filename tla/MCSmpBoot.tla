------------------------------ MODULE MCSmpBoot ------------------------------
(* Three APs and the BSP, which is neither the first nor the last of the   *)
(* table.                                                                  *)
EXTENDS SmpBoot

CONSTANTS a1, a2, a3, bsp
BspSecond == <<a1, bsp, a2, a3>>
=============================================================================
