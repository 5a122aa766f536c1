---------------------------- MODULE EventDelivery ----------------------------
(***************************************************************************)
(* What one streaming request promises its consumer: the events of a task  *)
(* after a position, each of them once and in order, until the terminal    *)
(* event, or until the request gives up.                                   *)
(***************************************************************************)
EXTENDS Integers, Sequences

CONSTANTS
  Start,  \* the position the consumer already has
  Last    \* the terminal event of the task

VARIABLES
  emitted,   \* events the platform has recorded for the task
  received,  \* what the consumer was given
  status     \* "open", "complete" or "failed"

deliveryVars == <<emitted, received, status>>

Init ==
  /\ emitted \in Start .. Last
  /\ received = << >>
  /\ status = "open"

Emit ==
  /\ emitted < Last
  /\ emitted' = emitted + 1
  /\ UNCHANGED <<received, status>>

\* The next event, and the one that ends the request if it is the terminal one.
Deliver ==
  LET next == Start + Len(received) + 1
  IN /\ status = "open"
     /\ next <= emitted
     /\ received' = Append(received, next)
     /\ status' = IF next = Last THEN "complete" ELSE "open"
     /\ UNCHANGED emitted

Fail ==
  /\ status = "open"
  /\ status' = "failed"
  /\ UNCHANGED <<emitted, received>>

Next == Emit \/ Deliver \/ Fail

Spec == Init /\ [][Next]_deliveryVars
=============================================================================
