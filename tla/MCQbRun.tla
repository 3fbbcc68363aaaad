------------------------------- MODULE MCQbRun -------------------------------
(* Patches are compared with each other and with nothing else. *)
EXTENDS QbRun

Symmetry == Permutations(Patches)
=============================================================================
