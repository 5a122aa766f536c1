----------------------------- MODULE MCToolRetry -----------------------------
(* Two sync tool calls and an async one for TLC, with two deadlines. *)
EXTENDS ToolRetry

CONSTANTS s1, s2, a1

MCCalls == {s1, s2, a1}
MCSync == {s1, s2}
MCDeadline == [c \in Calls |-> IF c = s1 THEN 3 ELSE 2]
=============================================================================
