------------------------------ MODULE MC_Queue ------------------------------
(* Queue for TLC. *)
EXTENDS Queue, TLC

(* Tasks and callers are interchangeable in the safety runs. *)
Interchangeable == Permutations(Tasks) \cup Permutations(Callers)
=============================================================================
