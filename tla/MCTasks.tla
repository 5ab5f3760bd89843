------------------------------ MODULE MCTasks ------------------------------
(* Tasks and processes, for TLC. *)
EXTENDS Tasks

=============================================================================
