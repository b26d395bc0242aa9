------------------------------ MODULE MCDialog ------------------------------
(***************************************************************************)
(* Small instances of Dialog.  The update tasks are interchangeable.       *)
(***************************************************************************)
EXTENDS Dialog, TLC

\* The summaries are switched off, or two messages fit.
OffOrTwo == {-1, 2}

SlotSymmetry == Permutations(Slots)
=============================================================================
