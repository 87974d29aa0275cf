---------------------------- MODULE MCStepWalk ----------------------------
(***************************************************************************)
(* A route of four steps; x is a step of another branch of the same        *)
(* work-map, which an earlier execution may have finished.                 *)
(***************************************************************************)
EXTENDS StepWalk

MCNode == {"r", "a", "b", "c", "x"}
MCRoute == <<"r", "a", "b", "c">>
MCCarryable == SUBSET MCNode

=============================================================================
