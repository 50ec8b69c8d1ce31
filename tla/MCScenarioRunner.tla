-------------------------- MODULE MCScenarioRunner --------------------------
(***************************************************************************)
(* Runs for TLC: one of each kind of Checkpoint between two Steps, loads   *)
(* before two of them, and the smallest room for controls that a Run is    *)
(* admitted with.                                                          *)
(***************************************************************************)
EXTENDS ScenarioRunner

MCMembers == <<"step", "eventual", "instant", "temporal", "step">>
MCLoadsFields == {2, 4}
MCLoadsDiagnostics == {2, 3}
MCAdmittedControls == Len(MCMembers) + 2
=============================================================================
