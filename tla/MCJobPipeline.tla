---------------------------- MODULE MCJobPipeline ----------------------------
(***************************************************************************)
(* Small instances of JobPipeline for TLC.  The configurations choose how  *)
(* many requests there are and which disturbances are explored.            *)
(***************************************************************************)
EXTENDS JobPipeline, TLC

CONSTANTS s1

\* All requests target one scenario.
OneScenario == [j \in Jobs |-> s1]

\* The jobs play the same role when they share the scenario.
Symmetry == Permutations(Jobs)

=============================================================================
