--------------------- MODULE MCDiagnosticObservations ---------------------
(***************************************************************************)
(* The instance of DiagnosticObservations that TLC checks.  The conditions *)
(* differ in nothing but their name, and so do the contents: TLC may take  *)
(* one for the other.                                                      *)
(***************************************************************************)
EXTENDS DiagnosticObservations, TLC

Symmetry == Permutations(ConditionIds) \cup Permutations(Contents)
=============================================================================
