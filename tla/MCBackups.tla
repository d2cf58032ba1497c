----------------------------- MODULE MCBackups -----------------------------
(* Backups on a few interchangeable objects.                                *)
EXTENDS Backups, TLC

Symmetry == Permutations(Objects)
=============================================================================
