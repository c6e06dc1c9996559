------------------------------ MODULE MC_Ring -------------------------------
(* Ring for TLC.  MC_Ring.cfg admits five tasks, so the buffer grows       *)
(* 2 -> 4 -> 8 and shrinks back, wrapped at every offset.                  *)
EXTENDS Ring, TLC
=============================================================================
