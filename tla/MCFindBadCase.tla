---------------------------- MODULE MCFindBadCase ----------------------------
(***************************************************************************)
(* Two batches of two testcases, so that a message of the first batch may    *)
(* be applied while the second one is evaluated, and every kind of task.     *)
(***************************************************************************)
EXTENDS FindBadCase

MCTasks == {"batch", "communication", "static", "terry"}

=============================================================================
