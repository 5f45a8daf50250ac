------------------------- MODULE MCScenarioLifecycle -------------------------
(***************************************************************************)
(* Small instances of ScenarioLifecycle for TLC.  Requests are             *)
(* interchangeable, and so are the ids of scenarios.                       *)
(***************************************************************************)
EXTENDS ScenarioLifecycle, TLC

Symmetry == Permutations(Requests) \cup Permutations(Scenarios)
=============================================================================
