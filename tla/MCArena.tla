------------------------------- MODULE MCArena -------------------------------
(***************************************************************************)
(* An arena of small blocks: sizes below, at and above the alignment, the  *)
(* capacity of a block and what malloc gives, and one past SIZE_MAX / 2.   *)
(***************************************************************************)
EXTENDS Arena

MCSizes == {0, 1, 16, 17, 40, 90, 600}
MCCapacities == {0, 40, 900}
=============================================================================
