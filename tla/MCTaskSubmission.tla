-------------------------- MODULE MCTaskSubmission --------------------------
(* Task submission for TLC, every submission under an id of its own. *)
EXTENDS TaskSubmission

CONSTANTS c1, c2

MCCalls == {c1, c2}
MCTaskId == [c \in Calls |-> c]
=============================================================================
