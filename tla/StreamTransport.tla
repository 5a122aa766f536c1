--------------------------- MODULE StreamTransport ---------------------------
(***************************************************************************)
(* One streaming request of the HTTP transport                             *)
(* (HTTPTransport._stream_request in                                       *)
(* src/src/dualeai/events/http_transport.py) against the bridge: attempts  *)
(* that lose the request, the reply or the connection, events damaged on   *)
(* the wire, and resumption at the last event handed to the consumer.      *)
(* Events are the positions 1, 2, ... of the task's record; the position   *)
(* `Last` is the terminal event, after which the consumer stops reading.   *)
(* The bridge is external: it publishes every POST it receives, streams    *)
(* what the record holds after the Last-Event-ID, and never streams an     *)
(* event at or before it.                                                  *)
(***************************************************************************)
EXTENDS Integers, Sequences

CONSTANTS
  Start,        \* last_event_id of the request, 0 without one
  Last,         \* position of the terminal event
  MaxAttempts,  \* _MAX_RETRIES
  MaxInFlight   \* bound on the events on the wire

ASSUME StartAssumption == Start \in Nat
ASSUME LastAssumption == Last \in Nat /\ Start < Last
ASSUME InFlightAssumption == MaxInFlight \in Nat \ {0}
ASSUME AttemptsAssumption == MaxAttempts \in Nat \ {0}

VARIABLES
  pc,           \* "sending", "streaming", "backoff" or "ended"
  attempts,     \* attempts begun
  established,  \* stream_established
  cursor,       \* current_last_event_id
  delivered,    \* the events yielded to the consumer
  outcome,      \* how the request ended
  record,       \* bridge: events recorded for the task
  published,    \* bridge: how often it published this request
  wire          \* events sent on the open connection and not read yet

clientVars == <<pc, attempts, established, cursor, delivered, outcome>>
bridgeVars == <<record, published, wire>>
vars == <<clientVars, bridgeVars>>

\* "gave_up": the last retryable error, raised as it is.  "no_terminal": the
\* stream ended in order without a terminal event.
Outcomes ==
  {"none", "terminal", "no_terminal", "gave_up", "http_error", "parse_error", "cancelled"}

Init ==
  /\ pc = "sending"
  /\ attempts = 1
  /\ established = FALSE
  /\ cursor = Start
  /\ delivered = << >>
  /\ outcome = "none"
  /\ record \in IF Start = 0 THEN {0} ELSE Start .. Last
  /\ published = 0
  /\ wire = << >>

-----------------------------------------------------------------------------
(* The attempt *)

EndsWith(result) == pc' = "ended" /\ outcome' = result

\* A retryable error: another attempt, or the error itself when they are used up.
RetryOrGiveUp ==
  IF attempts < MaxAttempts
    THEN pc' = "backoff" /\ UNCHANGED outcome
    ELSE EndsWith("gave_up")

\* _resolve_retry_method
Method == IF established THEN "GET" ELSE "POST"

\* Mutant: every attempt repeats the original method.
ArrivesAsPost == published' = published + 1

\* The request reaches the bridge, which publishes a POST.
Arrives == published' = IF Method = "POST" THEN published + 1 ELSE published

\* The connection fails before the SDK reads a 2xx; the bridge has the request or not.
RequestFails ==
  /\ pc = "sending"
  /\ RetryOrGiveUp
  /\ Arrives \/ UNCHANGED published
  /\ UNCHANGED <<attempts, established, cursor, delivered, record, wire>>

\* A status of 400 and above is not retried.
RequestRefused ==
  /\ pc = "sending"
  /\ EndsWith("http_error")
  /\ Arrives \/ UNCHANGED published
  /\ UNCHANGED <<attempts, established, cursor, delivered, record, wire>>

RequestAccepted ==
  /\ pc = "sending"
  /\ Arrives
  /\ pc' = "streaming"
  /\ established' = TRUE
  /\ wire' = << >>
  /\ UNCHANGED <<attempts, cursor, delivered, outcome, record>>

\* Mutant: the retry asks for the stream from the position of the first attempt.
ResumeFromStart ==
  /\ pc = "backoff"
  /\ pc' = "sending"
  /\ attempts' = attempts + 1
  /\ cursor' = Start
  /\ UNCHANGED <<established, delivered, outcome, bridgeVars>>

\* The wait between two attempts is over.
Resume ==
  /\ pc = "backoff"
  /\ pc' = "sending"
  /\ attempts' = attempts + 1
  /\ UNCHANGED <<established, cursor, delivered, outcome, bridgeVars>>

-----------------------------------------------------------------------------
(* The open stream *)

\* The next event arrives intact and is yielded; the consumer stops at the
\* terminal event.
Receive ==
  /\ pc = "streaming"
  /\ wire # << >>
  /\ Head(wire).intact
  /\ cursor' = Head(wire).position
  /\ delivered' = Append(delivered, Head(wire).position)
  /\ wire' = Tail(wire)
  /\ IF Head(wire).position = Last
       THEN EndsWith("terminal")
       ELSE UNCHANGED <<pc, outcome>>
  /\ UNCHANGED <<attempts, established, record, published>>

\* Mutant: the cursor moves to the event that failed its checksum.
SkipDamaged ==
  /\ pc = "streaming"
  /\ wire # << >>
  /\ ~Head(wire).intact
  /\ RetryOrGiveUp
  /\ cursor' = Head(wire).position
  /\ UNCHANGED <<attempts, established, delivered, bridgeVars>>

\* SSEChecksumError: the next attempt resumes after the last event yielded.
ChecksumFails ==
  /\ pc = "streaming"
  /\ wire # << >>
  /\ ~Head(wire).intact
  /\ RetryOrGiveUp
  /\ UNCHANGED <<attempts, established, cursor, delivered, bridgeVars>>

\* SSEParseError, an event that is not what it says: not retried.
ParseFails ==
  /\ pc = "streaming"
  /\ wire # << >>
  /\ EndsWith("parse_error")
  /\ UNCHANGED <<attempts, established, cursor, delivered, bridgeVars>>

\* The connection is cut, or silent for too long, with or without events on it.
StreamCut ==
  /\ pc = "streaming"
  /\ RetryOrGiveUp
  /\ UNCHANGED <<attempts, established, cursor, delivered, bridgeVars>>

\* The body ends in order before the terminal event: not retried.
StreamEnds ==
  /\ pc = "streaming"
  /\ wire = << >>
  /\ EndsWith("no_terminal")
  /\ UNCHANGED <<attempts, established, cursor, delivered, bridgeVars>>

Cancel ==
  /\ pc # "ended"
  /\ EndsWith("cancelled")
  /\ UNCHANGED <<attempts, established, cursor, delivered, bridgeVars>>

-----------------------------------------------------------------------------
(* The bridge *)

\* The task goes on once the platform has the request; a task that already has
\* events may also go on because of other requests.
Emit ==
  /\ published > 0 \/ Start > 0
  /\ record < Last
  /\ record' = record + 1
  /\ UNCHANGED <<clientVars, published, wire>>

\* The next event after the Last-Event-ID and what was already sent.
BridgeSends(intact) ==
  /\ pc = "streaming"
  /\ Len(wire) < MaxInFlight
  /\ cursor + Len(wire) < record
  /\ wire' = Append(wire, [position |-> cursor + Len(wire) + 1, intact |-> intact])
  /\ UNCHANGED <<clientVars, record, published>>

-----------------------------------------------------------------------------
RequestSettles == RequestFails \/ RequestRefused \/ RequestAccepted

Next ==
  \/ RequestSettles
  \/ Resume
  \/ Receive
  \/ ChecksumFails
  \/ ParseFails
  \/ StreamCut
  \/ StreamEnds
  \/ Cancel
  \/ Emit
  \/ \E intact \in BOOLEAN : BridgeSends(intact)

Spec == Init /\ [][Next]_vars

-----------------------------------------------------------------------------
(* Properties *)

TypeOK ==
  /\ pc \in {"sending", "streaming", "backoff", "ended"}
  /\ attempts \in 1 .. MaxAttempts
  /\ established \in BOOLEAN
  /\ cursor \in Start .. Last
  /\ delivered \in Seq(Start + 1 .. Last)
  /\ outcome \in Outcomes
  /\ record \in Start .. Last
  /\ published \in Nat
  /\ wire \in Seq([position : Start + 1 .. Last, intact : BOOLEAN])

\* "A successful resume does not yield an event at or before the caller's last
\* acknowledged event": through every cut, lost reply and damaged event the
\* consumer has exactly the events after Start up to the cursor, once, in order.
ExactlyOnceInOrder ==
  /\ Len(delivered) = cursor - Start
  /\ \A i \in 1 .. Len(delivered) : delivered[i] = Start + i

\* The request is published more than once only by attempts the SDK could not
\* know to have been received: never after it has read a 2xx.
NoRepublishAfterAccept ==
  [][established => published' = published]_vars

Delivery == INSTANCE EventDelivery WITH
  emitted <- record,
  received <- delivered,
  status <- CASE outcome = "none" -> "open"
              [] outcome = "terminal" -> "complete"
              [] outcome \notin {"none", "terminal"} -> "failed"

\* The retried attempts together are one delivery of the task's events, and the
\* request completes with the terminal event only after every event before it.
ImplementsDelivery == Delivery!Spec
=============================================================================
