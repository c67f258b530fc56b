----------------------------- MODULE MCUserDialog ------------------------------
(* Small instances of UserDialog for TLC. *)
EXTENDS UserDialog, TLC

Symmetry == Permutations(Dialogs)
===============================================================================
