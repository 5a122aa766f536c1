--------------------------- MODULE MCToolDispatch ---------------------------
(* Tool calls of a task for TLC: two of one turn with an id each, and one of a later
   turn that has the id of the first; all tools are registered, or one of them. *)
EXTENDS ToolDispatch, TLC

CONSTANTS first, second, later, idA, idB, a, b, c

OneUse == {first}
TwoUses == {first, second}
AllUses == {first, second, later}
IdsOfTurn == [u \in Uses |-> IF u = second THEN idB ELSE idA]
MCTurn == [u \in Uses |-> IF u = later THEN 2 ELSE 1]
MCDeadline == [u \in Uses |-> IF u = first THEN 1 ELSE 2]
MCTools == {a, b, c}

ToolSymmetry == Permutations(MCTools)
=============================================================================
