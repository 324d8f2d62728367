----------------------------- MODULE MCGoalRun -----------------------------
(* A small instance of the goal run for TLC. *)
EXTENDS GoalRun, TLC
=============================================================================
