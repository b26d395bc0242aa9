------------------------------ MODULE MCMemory ------------------------------
(***************************************************************************)
(* Small instances of Memory.  The tasks are interchangeable; the keys are *)
(* not, being ordered.                                                     *)
(***************************************************************************)
EXTENDS Memory, TLC

TaskSymmetry == Permutations(Tasks)
=============================================================================
