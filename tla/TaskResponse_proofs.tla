------------------------- MODULE TaskResponse_proofs -------------------------
(***************************************************************************)
(* Proofs about a streaming request and about the response it fills, for   *)
(* every start, length of the event record and retry budget, and any       *)
(* users of the response.                                                  *)
(***************************************************************************)
EXTENDS TaskResponse, SequenceTheorems, FiniteSetTheorems, WellFoundedInduction, TLAPS

-----------------------------------------------------------------------------
(* The request *)

(* What is on an open connection is what the record holds after the cursor;
   a request that still runs has not yielded the terminal event. *)
WireFollowsCursor ==
  pc = "streaming" => \A i \in 1 .. Len(wire) : wire[i].position = cursor + i

WireWithinRecord ==
  /\ cursor <= record
  /\ pc = "streaming" => cursor + Len(wire) <= record

RunningIsOpen ==
  /\ (pc = "ended") <=> (outcome # "none")
  /\ pc # "ended" => cursor < Last
  /\ pc = "backoff" => attempts < MaxAttempts

IInv ==
  /\ TypeOK
  /\ ExactlyOnceInOrder
  /\ WireFollowsCursor
  /\ WireWithinRecord
  /\ RunningIsOpen

USE StartAssumption, LastAssumption, AttemptsAssumption

-----------------------------------------------------------------------------
(* The first request has nothing delivered and nothing on the wire. *)
LEMMA InitIInv == Init => IInv
<1> SUFFICES ASSUME Init
             PROVE  IInv
  OBVIOUS
<1>1. record \in Start .. Last
  BY DEF Init
<1>2. /\ << >> \in Seq(Start + 1 .. Last)
      /\ << >> \in Seq([position : Start + 1 .. Last, intact : BOOLEAN])
      /\ Len(<< >>) = 0
  OBVIOUS
<1>3. TypeOK
  <2>1. delivered \in Seq(Start + 1 .. Last)
    BY <1>2, Zenon DEF Init
  <2>2. wire \in Seq([position : Start + 1 .. Last, intact : BOOLEAN])
    BY <1>2, Zenon DEF Init
  <2>3. /\ attempts \in 1 .. MaxAttempts
        /\ cursor \in Start .. Last
        /\ published \in Nat
    BY DEF Init
  <2>4. /\ pc \in {"sending", "streaming", "backoff", "ended"}
        /\ established \in BOOLEAN
        /\ outcome \in Outcomes
    BY DEF Init, Outcomes
  <2> QED
    BY <1>1, <2>1, <2>2, <2>3, <2>4 DEF TypeOK
<1>4. ExactlyOnceInOrder
  BY <1>2 DEF Init, ExactlyOnceInOrder
<1>5. WireFollowsCursor /\ WireWithinRecord /\ RunningIsOpen
  BY <1>1 DEF Init, WireFollowsCursor, WireWithinRecord, RunningIsOpen
<1> QED
  BY <1>3, <1>4, <1>5 DEF IInv

(* The steps that only move the attempt: nothing delivered, nothing sent. *)
LEMMA AttemptKeepsIInv ==
  ASSUME IInv,
         UNCHANGED <<cursor, delivered, record>>,
         published' \in Nat,
         attempts' \in 1 .. MaxAttempts,
         established' \in BOOLEAN,
         \/ /\ pc' \in {"sending", "backoff"}
            /\ pc' = "backoff" => attempts' < MaxAttempts
            /\ wire' = wire
            /\ outcome' = outcome
            /\ pc # "ended"
         \/ /\ pc' = "streaming"
            /\ wire' = << >>
            /\ outcome' = outcome
            /\ pc # "ended"
         \/ /\ pc' = "ended"
            /\ wire' = wire
            /\ outcome' \in Outcomes \ {"none"}
  PROVE  IInv'
<1>1. TypeOK'
  <2>1. << >> \in Seq([position : Start + 1 .. Last, intact : BOOLEAN])
    OBVIOUS
  <2>2. wire' \in Seq([position : Start + 1 .. Last, intact : BOOLEAN])
    BY <2>1, Zenon DEF IInv, TypeOK
  <2>3. /\ pc' \in {"sending", "streaming", "backoff", "ended"}
        /\ outcome' \in Outcomes
    BY DEF IInv, TypeOK
  <2> QED
    BY <2>2, <2>3 DEF IInv, TypeOK
<1>2. ExactlyOnceInOrder'
  BY DEF IInv, ExactlyOnceInOrder
<1>3. WireFollowsCursor'
  BY DEF WireFollowsCursor
<1>4. WireWithinRecord'
  BY DEF IInv, TypeOK, WireWithinRecord
<1>5. RunningIsOpen'
  BY DEF IInv, RunningIsOpen, Outcomes
<1> QED
  BY <1>1, <1>2, <1>3, <1>4, <1>5 DEF IInv

(* A retryable error schedules another attempt or ends the request. *)
LEMMA RetryOutcome ==
  ASSUME RetryOrGiveUp, IInv, pc # "ended"
  PROVE  \/ pc' = "backoff" /\ outcome' = outcome /\ attempts < MaxAttempts
         \/ pc' = "ended" /\ outcome' \in Outcomes \ {"none"}
  BY DEF RetryOrGiveUp, EndsWith, Outcomes

(* Whether or not the bridge has the request, its count of publications is one. *)
LEMMA ArrivesCounts ==
  ASSUME IInv, Arrives \/ UNCHANGED published
  PROVE  published' \in Nat
  BY DEF Arrives, IInv, TypeOK

(* Yielding the head of the wire is yielding the event after the cursor. *)
LEMMA ReceiveKeepsIInv ==
  ASSUME IInv, Receive
  PROVE  IInv'
<1>1. /\ wire # << >>
      /\ wire \in Seq([position : Start + 1 .. Last, intact : BOOLEAN])
      /\ Len(wire) \in Nat \ {0}
  BY DEF Receive, IInv, TypeOK
<1>2. /\ Head(wire) = wire[1]
      /\ wire[1].position = cursor + 1
      /\ cursor' = cursor + 1
  BY <1>1 DEF Receive, IInv, WireFollowsCursor
<1>3. /\ Len(wire') = Len(wire) - 1
      /\ \A i \in 1 .. Len(wire') : wire'[i] = wire[i + 1]
      /\ wire' \in Seq([position : Start + 1 .. Last, intact : BOOLEAN])
  BY <1>1 DEF Receive
<1>4. /\ cursor \in Start .. Last
      /\ record \in Start .. Last
      /\ cursor + Len(wire) <= record
      /\ cursor + 1 \in Start + 1 .. Last
      /\ UNCHANGED <<attempts, established, record, published>>
  BY <1>1 DEF Receive, IInv, TypeOK, WireWithinRecord
<1>5. /\ delivered' = Append(delivered, cursor + 1)
      /\ delivered \in Seq(Start + 1 .. Last)
      /\ Len(delivered) = cursor - Start
  BY <1>2 DEF Receive, IInv, TypeOK, ExactlyOnceInOrder
<1>6. /\ delivered' \in Seq(Start + 1 .. Last)
      /\ Len(delivered') = Len(delivered) + 1
      /\ \A i \in 1 .. Len(delivered) : delivered'[i] = delivered[i]
      /\ delivered'[Len(delivered) + 1] = cursor + 1
  BY <1>4, <1>5
<1>7. ExactlyOnceInOrder'
  <2>1. Len(delivered') = cursor' - Start
    BY <1>2, <1>4, <1>5, <1>6
  <2>2. ASSUME NEW i \in 1 .. Len(delivered')
        PROVE  delivered'[i] = Start + i
    <3>1. CASE i = Len(delivered) + 1
      BY <3>1, <1>4, <1>5, <1>6
    <3>2. CASE i # Len(delivered) + 1
      <4>1. i \in 1 .. Len(delivered)
        BY <2>2, <3>2, <1>4, <1>5, <1>6
      <4> QED
        BY <4>1, <1>6 DEF IInv, ExactlyOnceInOrder
    <3> QED
      BY <3>1, <3>2
  <2> QED
    BY <2>1, <2>2 DEF ExactlyOnceInOrder
<1>8. CASE cursor + 1 = Last
  <2>1. pc' = "ended" /\ outcome' = "terminal"
    BY <1>2, <1>8 DEF Receive, EndsWith
  <2>2. TypeOK'
    BY <2>1, <1>2, <1>3, <1>4, <1>6 DEF IInv, TypeOK, Outcomes
  <2>3. WireFollowsCursor' /\ WireWithinRecord' /\ RunningIsOpen'
    BY <2>1, <1>1, <1>2, <1>4
    DEF WireFollowsCursor, WireWithinRecord, RunningIsOpen
  <2> QED
    BY <1>7, <2>2, <2>3 DEF IInv
<1>9. CASE cursor + 1 # Last
  <2>1. pc' = pc /\ pc = "streaming" /\ outcome' = outcome
    BY <1>2, <1>9 DEF Receive
  <2>2. TypeOK'
    BY <2>1, <1>2, <1>3, <1>4, <1>6 DEF IInv, TypeOK
  <2>3. WireFollowsCursor'
    <3>1. SUFFICES ASSUME NEW i \in 1 .. Len(wire')
                   PROVE  wire'[i].position = cursor' + i
      BY DEF WireFollowsCursor
    <3>2. i \in Nat /\ i + 1 \in 1 .. Len(wire)
      BY <1>1, <1>3, <3>1
    <3>3. wire[i + 1].position = cursor + (i + 1)
      BY <2>1, <3>2 DEF IInv, WireFollowsCursor
    <3>4. wire'[i] = wire[i + 1]
      BY <1>3, <3>1
    <3>5. cursor + (i + 1) = cursor' + i
      BY <1>2, <1>4, <3>2
    <3> QED
      BY <3>3, <3>4, <3>5
  <2>4. WireWithinRecord' /\ RunningIsOpen'
    BY <2>1, <1>1, <1>2, <1>3, <1>4, <1>9
    DEF IInv, WireWithinRecord, RunningIsOpen
  <2> QED
    BY <1>7, <2>2, <2>3, <2>4 DEF IInv
<1> QED
  BY <1>8, <1>9

(* The bridge sends the event after those it already sent. *)
LEMMA BridgeSendsKeepsIInv ==
  ASSUME IInv, NEW intact \in BOOLEAN, BridgeSends(intact)
  PROVE  IInv'
<1> DEFINE event == [position |-> cursor + Len(wire) + 1, intact |-> intact]
<1>1. /\ wire \in Seq([position : Start + 1 .. Last, intact : BOOLEAN])
      /\ Len(wire) \in Nat
      /\ cursor \in Start .. Last
      /\ record \in Start .. Last
      /\ cursor + Len(wire) < record
      /\ pc = "streaming"
      /\ wire' = Append(wire, event)
  BY DEF BridgeSends, IInv, TypeOK
<1>2. cursor + Len(wire) + 1 \in Start + 1 .. Last
  BY <1>1
<1>3. event \in [position : Start + 1 .. Last, intact : BOOLEAN]
  BY <1>2
<1>4. event.position = cursor + Len(wire) + 1
  OBVIOUS
<1> HIDE DEF event
<1>5. /\ wire' \in Seq([position : Start + 1 .. Last, intact : BOOLEAN])
      /\ Len(wire') = Len(wire) + 1
      /\ \A i \in 1 .. Len(wire) : wire'[i] = wire[i]
      /\ wire'[Len(wire) + 1] = event
  BY <1>1, <1>3
<1>6. TypeOK' /\ ExactlyOnceInOrder' /\ RunningIsOpen'
  BY <1>5 DEF BridgeSends, clientVars, IInv, TypeOK, ExactlyOnceInOrder, RunningIsOpen
<1>7. WireFollowsCursor'
  <2>1. cursor' = cursor
    BY DEF BridgeSends, clientVars
  <2>2. SUFFICES ASSUME NEW i \in 1 .. Len(wire')
                 PROVE  wire'[i].position = cursor + i
    BY <2>1 DEF WireFollowsCursor
  <2>3. CASE i = Len(wire) + 1
    BY <2>3, <1>1, <1>4, <1>5
  <2>4. CASE i \in 1 .. Len(wire)
    BY <2>4, <1>1, <1>5 DEF IInv, WireFollowsCursor
  <2> QED
    BY <2>2, <2>3, <2>4, <1>1, <1>5
<1>8. WireWithinRecord'
  BY <1>1, <1>5 DEF BridgeSends, clientVars, WireWithinRecord
<1> QED
  BY <1>6, <1>7, <1>8 DEF IInv

(* Every step preserves the inductive invariant. *)
LEMMA NextIInv == IInv /\ [Next]_vars => IInv'
<1> SUFFICES ASSUME IInv, [Next]_vars
             PROVE  IInv'
  OBVIOUS
<1>1. CASE RequestFails
  BY <1>1, AttemptKeepsIInv, RetryOutcome, ArrivesCounts
  DEF RequestFails, IInv, TypeOK
<1>2. CASE RequestRefused
  BY <1>2, AttemptKeepsIInv, ArrivesCounts
  DEF RequestRefused, EndsWith, Outcomes, IInv, TypeOK
<1>3. CASE RequestAccepted
  BY <1>3, AttemptKeepsIInv, ArrivesCounts DEF RequestAccepted, IInv, TypeOK
<1>4. CASE Resume
  <2>1. attempts < MaxAttempts
    BY <1>4 DEF Resume, IInv, RunningIsOpen
  <2> QED
    BY <1>4, <2>1, AttemptKeepsIInv DEF Resume, bridgeVars, IInv, TypeOK
<1>5. CASE Receive
  BY <1>5, ReceiveKeepsIInv
<1>6. CASE ChecksumFails
  BY <1>6, AttemptKeepsIInv, RetryOutcome DEF ChecksumFails, bridgeVars, IInv, TypeOK
<1>7. CASE ParseFails
  BY <1>7, AttemptKeepsIInv DEF ParseFails, EndsWith, Outcomes, bridgeVars, IInv, TypeOK
<1>8. CASE StreamCut
  BY <1>8, AttemptKeepsIInv, RetryOutcome DEF StreamCut, bridgeVars, IInv, TypeOK
<1>9. CASE StreamEnds
  BY <1>9, AttemptKeepsIInv DEF StreamEnds, EndsWith, Outcomes, bridgeVars, IInv, TypeOK
<1>10. CASE Cancel
  BY <1>10, AttemptKeepsIInv DEF Cancel, EndsWith, Outcomes, bridgeVars, IInv, TypeOK
<1>11. CASE Emit
  <2>1. record' = record + 1 /\ record < Last /\ UNCHANGED <<clientVars, published, wire>>
    BY <1>11 DEF Emit
  <2>2. TypeOK'
    BY <2>1 DEF clientVars, IInv, TypeOK
  <2>3. ExactlyOnceInOrder' /\ WireFollowsCursor' /\ RunningIsOpen'
    BY <2>1 DEF clientVars, IInv, ExactlyOnceInOrder, WireFollowsCursor, RunningIsOpen
  <2>4. WireWithinRecord'
    <3>1. cursor \in Nat /\ record \in Nat /\ Len(wire) \in Nat
      BY DEF IInv, TypeOK
    <3> QED
      BY <2>1, <3>1 DEF clientVars, IInv, WireWithinRecord
  <2> QED
    BY <2>2, <2>3, <2>4 DEF IInv
<1>12. CASE \E intact \in BOOLEAN : BridgeSends(intact)
  BY <1>12, BridgeSendsKeepsIInv
<1>13. CASE UNCHANGED vars
  BY <1>13
  DEF vars, clientVars, bridgeVars, IInv, TypeOK, ExactlyOnceInOrder,
      WireFollowsCursor, WireWithinRecord, RunningIsOpen
<1> QED
  BY <1>1, <1>2, <1>3, <1>4, <1>5, <1>6, <1>7, <1>8, <1>9, <1>10, <1>11, <1>12, <1>13
  DEF Next, RequestSettles

LEMMA AlwaysIInv == Spec => []IInv
  BY InitIInv, NextIInv, PTL DEF Spec

-----------------------------------------------------------------------------
(* Every value the request keeps has its type; attempts stay in the budget. *)
THEOREM TypeCorrect == Spec => []TypeOK
<1>1. IInv => TypeOK
  BY DEF IInv
<1> QED
  BY <1>1, AlwaysIInv, PTL

(* The consumer has each event after Start up to the cursor, once, in order,
   whatever the attempts of _stream_request meet. *)
THEOREM DeliveredOnceInOrder == Spec => []ExactlyOnceInOrder
<1>1. IInv => ExactlyOnceInOrder
  BY DEF IInv
<1> QED
  BY <1>1, AlwaysIInv, PTL

(* Once an attempt has read a 2xx no later one publishes the request again. *)
THEOREM PublishedAtMostOnceAfterAccept == Spec => NoRepublishAfterAccept
<1>1. ASSUME [Next]_vars, established
      PROVE  published' = published
  <2>1. Arrives \/ UNCHANGED published => published' = published
    BY <1>1 DEF Arrives, Method
  <2> QED
    BY <1>1, <2>1
    DEF Next, RequestSettles, RequestFails, RequestRefused, RequestAccepted, Resume,
        Receive, ChecksumFails, ParseFails, StreamCut, StreamEnds, Cancel, Emit,
        BridgeSends, vars, clientVars, bridgeVars
<1>2. [Next]_vars => [established => published' = published]_vars
  BY <1>1
<1> QED
  BY <1>2, PTL DEF Spec, NoRepublishAfterAccept

-----------------------------------------------------------------------------
(* The refinement: an attempt is a stutter, yielding an event is a delivery. *)

Status ==
  CASE outcome = "none" -> "open"
    [] outcome = "terminal" -> "complete"
    [] outcome \notin {"none", "terminal"} -> "failed"

LEMMA StatusCases ==
  /\ outcome = "none" => Status = "open"
  /\ outcome = "terminal" => Status = "complete"
  /\ outcome \notin {"none", "terminal"} => Status = "failed"
  BY DEF Status

LEMMA StatusCasesNext ==
  /\ outcome' = "none" => Status' = "open"
  /\ outcome' = "terminal" => Status' = "complete"
  /\ outcome' \notin {"none", "terminal"} => Status' = "failed"
  BY DEF Status

(* An attempt that ends the request early is a failed delivery. *)
LEMMA MapEndsEarly ==
  ASSUME IInv, pc # "ended", UNCHANGED <<record, delivered>>,
         outcome' = outcome \/ outcome' \in Outcomes \ {"none", "terminal"}
  PROVE  Delivery!Fail \/ UNCHANGED <<record, delivered, Status>>
<1>1. outcome = "none"
  BY DEF IInv, RunningIsOpen
<1>2. Status = "open"
  BY <1>1, StatusCases
<1>3. CASE outcome' = outcome
  BY <1>1, <1>2, <1>3, StatusCasesNext
<1>4. CASE outcome' \in Outcomes \ {"none", "terminal"}
  BY <1>2, <1>4, StatusCasesNext DEF Delivery!Fail, Status
<1> QED
  BY <1>3, <1>4

LEMMA MapReceive ==
  ASSUME IInv, Receive
  PROVE  Delivery!Deliver
<1>1. /\ outcome = "none"
      /\ Status = "open"
  BY StatusCases DEF IInv, RunningIsOpen, Receive
<1>2. /\ wire \in Seq([position : Start + 1 .. Last, intact : BOOLEAN])
      /\ Len(wire) \in Nat \ {0}
      /\ cursor \in Start .. Last
      /\ record \in Start .. Last
      /\ cursor + Len(wire) <= record
  BY DEF IInv, TypeOK, Receive, WireWithinRecord
<1>3. Head(wire).position = cursor + 1
  BY <1>2 DEF IInv, Receive, WireFollowsCursor
<1>4. cursor + 1 = Start + Len(delivered) + 1
  BY <1>2 DEF IInv, ExactlyOnceInOrder, TypeOK
<1>5. Start + Len(delivered) + 1 <= record
  BY <1>2, <1>4
<1>6. Status' = IF cursor + 1 = Last THEN "complete" ELSE "open"
  BY <1>1, <1>3, StatusCasesNext DEF Receive, EndsWith
<1> QED
  BY <1>1, <1>3, <1>4, <1>5, <1>6 DEF Receive, Delivery!Deliver, Status

(* The retried attempts of a request are together one delivery of the events
   after Start. *)
THEOREM RefinesDelivery == Spec => ImplementsDelivery
<1>1. Init => Delivery!Init
  <2>1. ASSUME Init
        PROVE  record \in Start .. Last /\ Status = "open"
    BY <2>1, StatusCases DEF Init
  <2> QED
    BY <2>1 DEF Init, Delivery!Init, Status
<1>2. IInv /\ [Next]_vars => [Delivery!Next]_(Delivery!deliveryVars)
  <2> SUFFICES ASSUME IInv, [Next]_vars
               PROVE  Delivery!Next \/ UNCHANGED <<record, delivered, Status>>
    BY DEF Delivery!deliveryVars, Status
  <2>1. CASE RequestSettles
    <3>1. /\ pc # "ended"
          /\ UNCHANGED <<record, delivered>>
          /\ outcome' = outcome \/ outcome' \in Outcomes \ {"none", "terminal"}
      BY <2>1
      DEF RequestSettles, RequestFails, RequestRefused, RequestAccepted, RetryOrGiveUp,
          EndsWith, Outcomes
    <3> QED
      BY <3>1, MapEndsEarly DEF Delivery!Next
  <2>2. CASE Resume
    BY <2>2, MapEndsEarly DEF Resume, bridgeVars, Delivery!Next
  <2>3. CASE Receive
    BY <2>3, MapReceive DEF Delivery!Next
  <2>4. CASE ChecksumFails \/ ParseFails \/ StreamCut \/ StreamEnds \/ Cancel
    BY <2>4, MapEndsEarly
    DEF ChecksumFails, ParseFails, StreamCut, StreamEnds, Cancel, RetryOrGiveUp, EndsWith,
        Outcomes, bridgeVars, Delivery!Next
  <2>5. CASE Emit
    BY <2>5 DEF Emit, clientVars, Delivery!Emit, Delivery!Next
  <2>6. CASE (\E intact \in BOOLEAN : BridgeSends(intact)) \/ UNCHANGED vars
    BY <2>6 DEF BridgeSends, clientVars, bridgeVars, vars, Status
  <2> QED
    BY <2>1, <2>2, <2>3, <2>4, <2>5, <2>6 DEF Next
<1> QED
  BY <1>1, <1>2, AlwaysIInv, PTL DEF Spec, ImplementsDelivery, Delivery!Spec

-----------------------------------------------------------------------------
(* Sequences of events that grow at one end and shrink at the other *)

Elems(s) == Seqs!ToSet(s)

\* The events of S come before those of T.
Below(S, T) == \A x \in S, y \in T : x < y

Increasing(s) == \A i, j \in 1 .. Len(s) : i < j => s[i] < s[j]

LEMMA ElemsOfSeq ==
  ASSUME NEW S, NEW s \in Seq(S)
  PROVE  /\ Elems(s) = {s[i] : i \in 1 .. Len(s)} /\ Elems(s) \subseteq S
         /\ Elems(<< >>) = {} /\ Increasing(<< >>)
<1>1. DOMAIN s = 1 .. Len(s) /\ \A i \in 1 .. Len(s) : s[i] \in S
  OBVIOUS
<1>2. Elems(s) = {s[i] : i \in 1 .. Len(s)}
  BY <1>1 DEF Elems, Seqs!ToSet
<1>3. Elems(<< >>) = {} /\ Increasing(<< >>)
  BY DEF Elems, Seqs!ToSet, Increasing
<1> QED
  BY <1>1, <1>2, <1>3

LEMMA AppendElems ==
  ASSUME NEW S, NEW s \in Seq(S), NEW e \in S
  PROVE  /\ Append(s, e) \in Seq(S)
         /\ Elems(Append(s, e)) = Elems(s) \cup {e}
<1> DEFINE r == Append(s, e)
<1>1. /\ r \in Seq(S) /\ Len(r) = Len(s) + 1 /\ Len(s) \in Nat
      /\ \A i \in 1 .. Len(s) : r[i] = s[i]
      /\ r[Len(s) + 1] = e
  OBVIOUS
<1> HIDE DEF r
<1>2. /\ Elems(s) = {s[i] : i \in 1 .. Len(s)}
      /\ Elems(r) = {r[i] : i \in 1 .. Len(s) + 1}
  BY <1>1, ElemsOfSeq
<1>3. 1 .. Len(s) + 1 = (1 .. Len(s)) \cup {Len(s) + 1}
  BY <1>1
<1>4. Elems(r) = Elems(s) \cup {e}
  BY <1>1, <1>2, <1>3
<1> QED
  BY <1>1, <1>4 DEF r

LEMMA AppendIncreasing ==
  ASSUME NEW s \in Seq(Content), NEW e \in Content, Increasing(s), Below(Elems(s), {e})
  PROVE  Increasing(Append(s, e))
<1>1. /\ Len(Append(s, e)) = Len(s) + 1 /\ Len(s) \in Nat
      /\ \A i \in 1 .. Len(s) : Append(s, e)[i] = s[i]
      /\ Append(s, e)[Len(s) + 1] = e
  OBVIOUS
<1>2. \A i \in 1 .. Len(s) : s[i] < e
  BY ElemsOfSeq DEF Below
<1> SUFFICES ASSUME NEW i \in 1 .. Len(s) + 1, NEW j \in 1 .. Len(s) + 1, i < j
             PROVE  Append(s, e)[i] < Append(s, e)[j]
  BY <1>1 DEF Increasing
<1>3. i \in 1 .. Len(s)
  BY <1>1
<1>4. CASE j = Len(s) + 1
  BY <1>1, <1>2, <1>3, <1>4
<1>5. CASE j \in 1 .. Len(s)
  BY <1>1, <1>3, <1>5 DEF Increasing
<1> QED
  BY <1>1, <1>4, <1>5

LEMMA TailElems ==
  ASSUME NEW s \in Seq(Content), s # << >>, Increasing(s)
  PROVE  /\ Tail(s) \in Seq(Content) /\ Head(s) \in Content
         /\ Increasing(Tail(s))
         /\ Elems(s) = {Head(s)} \cup Elems(Tail(s))
         /\ Below({Head(s)}, Elems(Tail(s)))
<1>1. /\ Len(s) \in Nat \ {0} /\ Len(Tail(s)) = Len(s) - 1 /\ Head(s) = s[1]
      /\ Tail(s) \in Seq(Content) /\ Head(s) \in Content
      /\ \A i \in 1 .. Len(Tail(s)) : Tail(s)[i] = s[i + 1]
  OBVIOUS
<1>2. Increasing(Tail(s))
  BY <1>1 DEF Increasing
<1> DEFINE r == Tail(s)
<1> HIDE DEF r
<1>3. /\ Elems(s) = {s[i] : i \in 1 .. Len(s)}
      /\ Elems(r) = {r[i] : i \in 1 .. Len(r)}
  <2>1. s \in Seq(Content) /\ r \in Seq(Content)
    BY <1>1 DEF r
  <2> QED
    BY <2>1, ElemsOfSeq
<1>4. Elems(s) = {Head(s)} \cup Elems(r)
  <2>1. \A i \in 1 .. Len(r) : i + 1 \in 1 .. Len(s) /\ r[i] = s[i + 1]
    BY <1>1 DEF r
  <2>2. \A i \in (1 .. Len(s)) \ {1} : i - 1 \in 1 .. Len(r) /\ r[i - 1] = s[i]
    <3> TAKE i \in (1 .. Len(s)) \ {1}
    <3>1. i - 1 \in 1 .. Len(r) /\ (i - 1) + 1 = i
      BY <1>1 DEF r
    <3> QED
      BY <3>1, <2>1
  <2>3. 1 \in 1 .. Len(s) /\ Head(s) = s[1]
    BY <1>1
  <2> QED
    BY <1>3, <2>1, <2>2, <2>3
<1>5. ASSUME NEW x \in Elems(r) PROVE Head(s) < x
  <2>1. PICK i \in 1 .. Len(r) : s[i + 1] = x
    BY <1>1, <1>3 DEF r
  <2>2. 1 \in 1 .. Len(s) /\ i + 1 \in 1 .. Len(s) /\ 1 < i + 1
    BY <1>1 DEF r
  <2> QED
    BY <1>1, <2>1, <2>2 DEF Increasing
<1> QED
  BY <1>1, <1>2, <1>4, <1>5 DEF Below, r

LEMMA LessWellFounded == IsWellFoundedOn({pair \in Nat \X Nat : pair[1] < pair[2]}, Nat)
<1>1. OpToRel(<, Nat) = {pair \in Nat \X Nat : pair[1] < pair[2]}
  BY Zenon DEF OpToRel
<1> QED
  BY <1>1, NatLessThanWellFounded, Zenon

\* A set of naturals has a least element.
LEMMA LeastNatural ==
  ASSUME NEW T, T \subseteq Nat, T # {}
  PROVE  \E x \in T : \A y \in T : x <= y
<1> DEFINE R == {pair \in Nat \X Nat : pair[1] < pair[2]}
<1>1. PICK x \in T : \A y \in T : <<y, x>> \notin R
  <2>1. IsWellFoundedOn(R, Nat)
    BY LessWellFounded
  <2> HIDE DEF R
  <2> QED
    BY <2>1, WFMin
<1>2. ASSUME NEW y \in T PROVE x <= y
  <2>1. x \in Nat /\ y \in Nat
    OBVIOUS
  <2>2. ~(y < x)
    <3> SUFFICES ASSUME y < x PROVE <<y, x>> \in R
      BY <1>1
    <3>1. <<y, x>> \in Nat \X Nat /\ <<y, x>>[1] = y /\ <<y, x>>[2] = x
      BY <2>1
    <3> QED
      BY <3>1, Zenon
  <2> QED
    BY <2>1, <2>2
<1> QED
  BY <1>2

\* Two increasing sequences over the same elements agree as far as the shorter goes,
\* and neither is shorter.
LEMMA SameOrderUpTo ==
  ASSUME NEW n \in Nat, NEW m \in Nat, NEW f, NEW g,
         \A i \in 1 .. n : f[i] \in Nat /\ \E j \in 1 .. m : g[j] = f[i],
         \A i \in 1 .. m : g[i] \in Nat /\ \E j \in 1 .. n : f[j] = g[i],
         \A i, j \in 1 .. n : i < j => f[i] < f[j],
         \A i, j \in 1 .. m : i < j => g[i] < g[j]
  PROVE  (\A i \in 1 .. n : i \in 1 .. m => f[i] = g[i]) /\ ~(n < m)
<1> DEFINE Differ == {i \in 1 .. n : i \in 1 .. m /\ f[i] # g[i]}
<1>1. Differ = {}
  <2> SUFFICES ASSUME Differ # {} PROVE FALSE
    OBVIOUS
  <2>1. Differ \subseteq Nat
    OBVIOUS
  <2>2. PICK i \in Differ : \A j \in Differ : i <= j
    <3> HIDE DEF Differ
    <3> QED
      BY <2>1, LeastNatural
  <2>3. i \in 1 .. n /\ i \in 1 .. m /\ f[i] # g[i]
    BY <2>2
  <2>4. \A j \in 1 .. n : j < i => f[j] = g[j]
    <3> TAKE j \in 1 .. n
    <3> HAVE j < i
    <3>1. j \in 1 .. m /\ ~(i <= j)
      BY <2>3
    <3> QED
      BY <3>1, <2>2
  <2> HIDE DEF Differ
  <2>5. CASE f[i] < g[i]
    <3>1. PICK j \in 1 .. m : g[j] = f[i]
      BY <2>3
    <3>2. j < i
      <4>1. ~(i < j) /\ i # j
        BY <2>3, <2>5, <3>1
      <4> QED
        BY <4>1, <2>3
    <3>3. j \in 1 .. n /\ f[j] = g[j]
      BY <2>3, <2>4, <3>2
    <3>4. f[j] < f[i] /\ f[j] = f[i] /\ f[i] \in Nat
      BY <2>3, <3>1, <3>2, <3>3
    <3> QED
      BY <3>4
  <2>6. CASE g[i] < f[i]
    <3>1. PICK j \in 1 .. n : f[j] = g[i]
      BY <2>3
    <3>2. j < i
      <4>1. ~(i < j) /\ i # j
        BY <2>3, <2>6, <3>1
      <4> QED
        BY <4>1, <2>3
    <3>3. j \in 1 .. m /\ f[j] = g[j]
      BY <2>3, <2>4, <3>2
    <3>4. g[j] < g[i] /\ g[j] = g[i] /\ g[i] \in Nat
      BY <2>3, <3>1, <3>2, <3>3
    <3> QED
      BY <3>4
  <2> QED
    BY <2>3, <2>5, <2>6
<1>2. \A i \in 1 .. n : i \in 1 .. m => f[i] = g[i]
  BY <1>1
<1> HIDE DEF Differ
<1>3. ASSUME n < m PROVE FALSE
  <2>1. n + 1 \in 1 .. m
    BY <1>3
  <2>2. PICK j \in 1 .. n : f[j] = g[n + 1]
    BY <2>1
  <2>3. j \in 1 .. m /\ j < n + 1
    BY <1>3
  <2>4. g[j] < g[n + 1] /\ g[j] = g[n + 1] /\ g[j] \in Nat
    BY <1>2, <2>1, <2>2, <2>3
  <2> QED
    BY <2>4
<1> QED
  BY <1>2, <1>3

\* There is one way to put events in order.
LEMMA SameOrder ==
  ASSUME NEW s \in Seq(Nat), NEW t \in Seq(Nat), Increasing(s), Increasing(t),
         Elems(s) = Elems(t)
  PROVE  s = t
<1>1. /\ Elems(s) = {s[i] : i \in 1 .. Len(s)} /\ Elems(t) = {t[i] : i \in 1 .. Len(t)}
      /\ Len(s) \in Nat /\ Len(t) \in Nat
      /\ \A i \in 1 .. Len(s) : s[i] \in Nat
      /\ \A i \in 1 .. Len(t) : t[i] \in Nat
  BY ElemsOfSeq
<1>2. /\ \A i \in 1 .. Len(s) : s[i] \in Nat /\ \E j \in 1 .. Len(t) : t[j] = s[i]
      /\ \A i \in 1 .. Len(t) : t[i] \in Nat /\ \E j \in 1 .. Len(s) : s[j] = t[i]
  BY <1>1, Zenon
<1>3. /\ \A i, j \in 1 .. Len(s) : i < j => s[i] < s[j]
      /\ \A i, j \in 1 .. Len(t) : i < j => t[i] < t[j]
  BY DEF Increasing
<1>4. /\ \A i \in 1 .. Len(s) : i \in 1 .. Len(t) => s[i] = t[i]
      /\ ~(Len(s) < Len(t)) /\ ~(Len(t) < Len(s))
  <2>1. Len(s) \in Nat /\ Len(t) \in Nat
    BY <1>1
  <2>2. (\A i \in 1 .. Len(s) : i \in 1 .. Len(t) => s[i] = t[i]) /\ ~(Len(s) < Len(t))
    BY <2>1, <1>2, <1>3, SameOrderUpTo, Zenon
  <2>3. (\A i \in 1 .. Len(t) : i \in 1 .. Len(s) => t[i] = s[i]) /\ ~(Len(t) < Len(s))
    BY <2>1, <1>2, <1>3, SameOrderUpTo, Zenon
  <2> QED
    BY <2>2, <2>3
<1>5. Len(s) = Len(t) /\ \A i \in 1 .. Len(s) : s[i] = t[i]
  BY <1>1, <1>4
<1> QED
  BY <1>5, SeqEqual

LEMMA LargestNatural ==
  ASSUME NEW n \in Nat, NEW T, T \subseteq 0 .. n, T # {}
  PROVE  \E x \in T : \A y \in T : x >= y
<1> DEFINE U == {k \in Nat : \E x \in T : k = n - x}
<1>1. U \subseteq Nat /\ U # {}
  <2>1. PICK x \in T : TRUE
    OBVIOUS
  <2>2. x \in 0 .. n
    BY <2>1
  <2>3. n - x \in U
    BY <2>1, <2>2
  <2> QED
    BY <2>3
<1>2. PICK k \in U : \A j \in U : k <= j
  <2> HIDE DEF U
  <2> QED
    BY <1>1, LeastNatural
<1>3. PICK x \in T : k = n - x
  BY <1>2
<1>4. ASSUME NEW y \in T PROVE x >= y
  <2>1. n - y \in U /\ x \in Nat /\ y \in Nat
    OBVIOUS
  <2> QED
    BY <1>2, <1>3, <2>1
<1> QED
  BY <1>4

-----------------------------------------------------------------------------
(* The response *)

\* The content the SDK has received, and what became of it.
Received == {e \in Content : e <= cursor}
Given(c) == Elems(seen[c])
Held(c) == {get[c]} \cap Content

(* The queue and the replay list are in order; the list is what a program shows
   that starts anew at a reset. *)
BuffersInv ==
  /\ Increasing(queue) /\ Elems(queue) \subseteq Received
  /\ Increasing(replay)
  /\ ~streaming => queue = << >> /\ replay = << >>
  /\ streaming => Elems(replay) = {e \in Received \cap Deltas : \A r \in Received \cap Resets : r < e}

(* A get_task is there while its consumer waits, and stays behind a consumer
   that was cancelled. *)
Place(c) ==
  /\ at[c] = "waiting" <=> (get[c] # NoTask /\ at[c] # "cancelled")
  /\ at[c] = "new" => seen[c] = << >>
  /\ ~streaming =>
       seen[c] = << >> /\ get[c] = NoTask /\ at[c] \in {"new", "awaiting", "ended", "cancelled"}
  /\ streaming => at[c] # "awaiting"

(* What a consumer has is older than what its get_task took, and both are older
   than what is queued; a consumer ends with an empty queue or with the replay. *)
SeenInv(c) ==
  /\ Increasing(seen[c])
  /\ Given(c) \cup Held(c) \subseteq Received
  /\ at[c] # "ended" => Below(Given(c), Elems(queue))
  /\ Below(Held(c), Elems(queue))
  /\ at[c] = "waiting" => Below(Given(c), Held(c))
  /\ streaming /\ at[c] = "ended" => TaskDone /\ (seen[c] = replay \/ queue = << >>)

ConsumerInv == \A c \in Consumers : Place(c) /\ SeenInv(c)

(* No content is dropped on its way. *)
Accounted ==
  streaming =>
    \A e \in Received : e \in Elems(queue) \/ \E c \in Consumers : e \in Given(c) \/ get[c] = e

(* The loader has run only on a task that is done, and kept the result of one that
   succeeded unless it was interrupted. *)
LoadInv ==
  /\ loaded => TaskDone /\ (Succeeded => hasResult \/ interrupted)
  /\ \A w \in Callers : caller[w] = "no_result" => TaskDone /\ (Succeeded => interrupted)

BufferTypes == queue \in Seq(Content) /\ replay \in Seq(Deltas)

ConsumerTypes ==
  /\ at \in [Consumers -> Finished \cup {"new", "reading", "waiting", "retiring", "awaiting"}]
  /\ get \in [Consumers -> Content \cup {NoTask, Pending}]
  /\ seen \in [Consumers -> Seq(Content)]

CallerTypes ==
  /\ caller \in [Callers -> Answered \cup {"idle", "queued", "waiting"}]
  /\ loaded \in BOOLEAN /\ hasResult \in BOOLEAN /\ interrupted \in BOOLEAN

RequestTypes ==
  users \in UserGroups /\ streaming \in BOOLEAN /\ terminal \in Terminals \cup {"none"}

RInv ==
  /\ RequestTypes /\ BufferTypes /\ ConsumerTypes /\ CallerTypes
  /\ BuffersInv /\ ConsumerInv /\ Accounted /\ LoadInv

LEMMA InitRInv == InitResponse => RInv
<1> SUFFICES ASSUME InitResponse PROVE RInv
  OBVIOUS
<1>1. Elems(<< >>) = {} /\ Increasing(<< >>)
  BY ElemsOfSeq, EmptySeq
<1>2. << >> \in Seq(Content) /\ << >> \in Seq(Deltas)
  OBVIOUS
<1>3. cursor = Start /\ Received = {}
  BY ContentAssumption DEF InitResponse, Init, Received, Content
<1>4. RequestTypes /\ BufferTypes
  BY <1>2 DEF InitResponse, RequestTypes, BufferTypes
<1>5. ConsumerTypes
  BY <1>2 DEF InitResponse, ConsumerTypes
<1>6. CallerTypes
  BY DEF InitResponse, CallerTypes
<1>7. BuffersInv
  BY <1>1, <1>3 DEF InitResponse, BuffersInv
<1>8. ConsumerInv
  <2> SUFFICES ASSUME NEW c \in Consumers PROVE Place(c) /\ SeenInv(c)
    BY DEF ConsumerInv
  <2>1. at[c] = "new" /\ get[c] = NoTask /\ seen[c] = << >> /\ queue = << >>
    BY DEF InitResponse
  <2>2. Held(c) = {} /\ Given(c) = {}
    BY <1>1, <2>1, ContentAssumption DEF Held, Given, NoTask, Content
  <2> QED
    BY <1>1, <2>1, <2>2 DEF Place, SeenInv, Below
<1>9. Accounted /\ LoadInv
  BY <1>3 DEF InitResponse, Accounted, LoadInv
<1> QED
  BY <1>4, <1>5, <1>6, <1>7, <1>8, <1>9 DEF RInv

(* What the request does besides handing over an event. *)
Quiet == UNCHANGED <<cursor, delivered>> /\ (TaskDone => TaskDone' /\ outcome' = outcome)

LEMMA QuietCancel == Cancel => Quiet
  BY DEF Cancel, Quiet, TaskDone

LEMMA QuietStream == StreamSteps => Quiet
<1>1. RequestSettles => Quiet
  BY DEF RequestSettles, RequestFails, RequestRefused, RequestAccepted, Quiet, TaskDone
<1>2. Resume \/ ChecksumFails \/ ParseFails \/ StreamCut \/ StreamEnds => Quiet
  BY DEF Resume, ChecksumFails, ParseFails, StreamCut, StreamEnds, Quiet, TaskDone
<1>3. Emit \/ (\E intact \in BOOLEAN : BridgeSends(intact)) => Quiet
  BY DEF Emit, BridgeSends, clientVars, Quiet, TaskDone
<1> QED
  BY <1>1, <1>2, <1>3, QuietCancel DEF StreamSteps

(* A consumer that does not move keeps its invariant while others take events. *)
LEMMA OthersKeep ==
  ASSUME NEW c \in Consumers, Place(c), SeenInv(c), Quiet,
         UNCHANGED <<streaming, replay>>,
         at'[c] = at[c], get'[c] = get[c], seen'[c] = seen[c],
         Elems(queue') \subseteq Elems(queue),
         queue = << >> => queue' = << >>
  PROVE  (Place(c) /\ SeenInv(c))'
<1>1. /\ Given(c)' = Given(c) /\ Held(c)' = Held(c)
      /\ Received' = Received
      /\ Elems(queue)' = Elems(queue')
  BY DEF Given, Held, Received, Quiet
<1>2. Place(c)'
  BY DEF Place
<1>3. SeenInv(c)'
  <2>1. /\ Increasing(seen'[c])
        /\ Given(c) \cup Held(c) \subseteq Received
        /\ at[c] # "ended" => Below(Given(c), Elems(queue'))
        /\ Below(Held(c), Elems(queue'))
        /\ at[c] = "waiting" => Below(Given(c), Held(c))
    BY DEF SeenInv, Below
  <2>2. streaming /\ at[c] = "ended" => TaskDone' /\ (seen[c] = replay \/ queue' = << >>)
    BY DEF SeenInv, Quiet
  <2> QED
    BY <1>1, <2>1, <2>2 DEF SeenInv
<1> QED
  BY <1>2, <1>3

LEMMA LoadKept ==
  ASSUME LoadInv, Quiet, UNCHANGED <<terminal, callerVars>>
  PROVE  LoadInv'
<1>1. TaskDone => TaskDone' /\ (Succeeded' = Succeeded)
  BY DEF Quiet, Succeeded
<1> QED
  BY <1>1 DEF LoadInv, callerVars

(* Steps of the request, and of the callers, that leave the consumers alone. *)
LEMMA QuietKeepsRInv ==
  ASSUME RInv, Quiet, UNCHANGED <<requestVars, bufferVars, consumerVars>>,
         CallerTypes', LoadInv'
  PROVE  RInv'
<1>1. RequestTypes' /\ BufferTypes' /\ ConsumerTypes'
  BY DEF RInv, RequestTypes, BufferTypes, ConsumerTypes, requestVars, bufferVars, consumerVars
<1>2. BuffersInv'
  BY DEF RInv, BuffersInv, requestVars, bufferVars, Quiet, Received
<1>3. ConsumerInv'
  <2> SUFFICES ASSUME NEW c \in Consumers PROVE (Place(c) /\ SeenInv(c))'
    BY DEF ConsumerInv
  <2> QED
    BY OthersKeep DEF RInv, ConsumerInv, requestVars, bufferVars, consumerVars
<1>4. Accounted'
  BY DEF RInv, Accounted, requestVars, bufferVars, consumerVars, Quiet, Received, Given
<1> QED
  BY <1>1, <1>2, <1>3, <1>4 DEF RInv

LEMMA StreamStepsKeepRInv ==
  ASSUME RInv, StreamSteps
  PROVE  RInv'
<1>1. Quiet /\ UNCHANGED responseVars
  BY QuietStream DEF StreamSteps
<1>2. CallerTypes' /\ LoadInv'
  BY <1>1, LoadKept DEF RInv, CallerTypes, responseVars, callerVars, bufferVars
<1> QED
  BY <1>1, <1>2, QuietKeepsRInv DEF responseVars

-----------------------------------------------------------------------------
(* The callers *)

LEMMA BecomesTyped ==
  ASSUME CallerTypes, NEW w \in Callers, NEW place \in Answered \cup {"queued", "waiting"},
         Becomes(w, place)
  PROVE  /\ caller' \in [Callers -> Answered \cup {"idle", "queued", "waiting"}]
         /\ \A v \in Callers : caller'[v] = IF v = w THEN place ELSE caller[v]
  BY DEF CallerTypes, Becomes

(* A caller that is not told "no_result" and changes nothing else. *)
LEMMA CallerMoves ==
  ASSUME RInv, NEW w \in Callers, NEW place \in Answered \cup {"queued", "waiting"},
         Becomes(w, place),
         place = "no_result" => TaskDone /\ (Succeeded => interrupted),
         UNCHANGED <<vars, requestVars, bufferVars, consumerVars, loaded, hasResult, interrupted>>
  PROVE  RInv'
<1>1. Quiet /\ Succeeded' = Succeeded /\ TaskDone' = TaskDone
  BY DEF vars, clientVars, bufferVars, Quiet, TaskDone, Succeeded
<1>2. /\ caller' \in [Callers -> Answered \cup {"idle", "queued", "waiting"}]
      /\ \A v \in Callers : caller'[v] = IF v = w THEN place ELSE caller[v]
  BY BecomesTyped DEF RInv
<1>3. CallerTypes'
  BY <1>2 DEF RInv, CallerTypes
<1>4. LoadInv'
  BY <1>1, <1>2 DEF RInv, LoadInv
<1> QED
  BY <1>1, <1>3, <1>4, QuietKeepsRInv

(* A caller that returns when the task is done and may leave the result loaded. *)
LEMMA CallerLoads ==
  ASSUME RInv, NEW w \in Callers, NEW place \in Answered,
         Becomes(w, place), TaskDone,
         loaded' \in BOOLEAN, hasResult' \in BOOLEAN, interrupted' \in BOOLEAN,
         Succeeded /\ loaded' /\ ~loaded => hasResult' \/ interrupted',
         hasResult => hasResult', interrupted => interrupted',
         place = "no_result" => (Succeeded => interrupted'),
         UNCHANGED <<vars, requestVars, bufferVars, consumerVars>>
  PROVE  RInv'
<1>1. Quiet /\ Succeeded' = Succeeded /\ TaskDone' = TaskDone
  BY DEF vars, clientVars, bufferVars, Quiet, TaskDone, Succeeded
<1>2. /\ caller' \in [Callers -> Answered \cup {"idle", "queued", "waiting"}]
      /\ \A v \in Callers : caller'[v] = IF v = w THEN place ELSE caller[v]
  BY BecomesTyped DEF RInv
<1>3. CallerTypes'
  BY <1>2 DEF CallerTypes
<1>4. loaded' => TaskDone' /\ (Succeeded' => hasResult' \/ interrupted')
  BY <1>1 DEF RInv, LoadInv, CallerTypes
<1>5. \A v \in Callers : caller'[v] = "no_result" => TaskDone' /\ (Succeeded' => interrupted')
  BY <1>1, <1>2 DEF RInv, LoadInv
<1>6. LoadInv'
  BY <1>4, <1>5 DEF LoadInv
<1> QED
  BY <1>1, <1>3, <1>6, QuietKeepsRInv

LEMMA StartMetricsKeepsRInv ==
  ASSUME RInv, NEW w \in MetricsCallers, StartMetrics(w)
  PROVE  RInv'
<1> DEFINE place == IF loaded THEN Metrics ELSE IF LoaderWaits THEN "queued" ELSE "waiting"
<1>1. /\ place \in Answered \cup {"queued", "waiting"}
      /\ place = "no_result" => loaded /\ ~hasResult
  BY DEF Metrics, Answered
<1>2. place = "no_result" => TaskDone /\ (Succeeded => interrupted)
  BY <1>1 DEF RInv, LoadInv
<1>3. /\ w \in Callers
      /\ Becomes(w, place)
      /\ UNCHANGED <<vars, requestVars, bufferVars, consumerVars, loaded, hasResult, interrupted>>
  BY DEF StartMetrics, Callers
<1> HIDE DEF place
<1> QED
  BY <1>1, <1>2, <1>3, CallerMoves

LEMMA ModelReturnsKeepsRInv ==
  ASSUME RInv, NEW w \in Callers, ModelReturns(w)
  PROVE  RInv'
<1>1. PICK place \in {"result", "raised", "cancelled"} : Becomes(w, place)
  BY DEF ModelReturns
<1>2. /\ TaskDone
      /\ hasResult' = (hasResult \/ Succeeded)
      /\ loaded' = (loaded \/ Succeeded)
      /\ UNCHANGED <<vars, requestVars, bufferVars, consumerVars, interrupted>>
  BY DEF ModelReturns, Unwrap
<1>3. /\ loaded' \in BOOLEAN /\ hasResult' \in BOOLEAN /\ interrupted' \in BOOLEAN
      /\ place \in Answered /\ place # "no_result"
  BY <1>2 DEF RInv, CallerTypes, Answered
<1> QED
  BY <1>1, <1>2, <1>3, CallerLoads

LEMMA MetricsReturnKeepsRInv ==
  ASSUME RInv, NEW w \in Callers, MetricsReturn(w)
  PROVE  RInv'
<1>1. PICK place \in {"result", "no_result", "cancelled"} :
        Becomes(w, place) /\ (place = "no_result" => ~hasResult')
  BY DEF MetricsReturn
<1>2. /\ TaskDone
      /\ hasResult' = (hasResult \/ Succeeded)
      /\ loaded' = TRUE
      /\ UNCHANGED <<vars, requestVars, bufferVars, consumerVars, interrupted>>
  BY DEF MetricsReturn, Unwrap
<1>3. /\ loaded' \in BOOLEAN /\ hasResult' \in BOOLEAN /\ interrupted' \in BOOLEAN
      /\ place \in Answered
      /\ place = "no_result" => ~Succeeded
  BY <1>1, <1>2 DEF RInv, CallerTypes, Answered
<1> QED
  BY <1>1, <1>2, <1>3, CallerLoads

LEMMA WaiterCancelledKeepsRInv ==
  ASSUME RInv, NEW w \in Callers, WaiterCancelled(w)
  PROVE  RInv'
<1>1. CASE ~TaskDone
  <2>1. Quiet /\ UNCHANGED <<requestVars, bufferVars, consumerVars, callerVars>>
    BY <1>1, QuietCancel DEF WaiterCancelled
  <2>2. CallerTypes' /\ LoadInv'
    BY <2>1, LoadKept DEF RInv, CallerTypes, callerVars, bufferVars
  <2> QED
    BY <2>1, <2>2, QuietKeepsRInv
<1>2. CASE TaskDone
  <2>1. /\ Becomes(w, "cancelled")
        /\ loaded' = (loaded \/ w \in MetricsCallers)
        /\ interrupted' = (interrupted \/ w \in MetricsCallers)
        /\ hasResult' = hasResult
        /\ UNCHANGED <<vars, requestVars, bufferVars, consumerVars>>
    BY <1>2 DEF WaiterCancelled
  <2>2. /\ loaded' \in BOOLEAN /\ hasResult' \in BOOLEAN /\ interrupted' \in BOOLEAN
        /\ "cancelled" \in Answered
    BY <2>1 DEF RInv, CallerTypes, Answered
  <2> QED
    BY <1>2, <2>1, <2>2, CallerLoads
<1> QED
  BY <1>1, <1>2

LEMMA CallersKeepRInv ==
  ASSUME RInv,
         \/ \E w \in ModelCallers \cup NextCallers : StartModel(w)
         \/ \E w \in StopCallers : Stop(w)
         \/ \E w \in MetricsCallers : StartMetrics(w) \/ QueuedCancelled(w)
         \/ \E w \in Callers : Returns(w)
         \/ \E w \in NextCallers : NextCancelled(w)
         \/ \E w \in ModelCallers \cup MetricsCallers : WaiterCancelled(w)
  PROVE  RInv'
<1>1. ASSUME NEW w \in ModelCallers \cup NextCallers, StartModel(w) PROVE RInv'
  BY <1>1, CallerMoves DEF StartModel, Callers
<1>2. ASSUME NEW w \in StopCallers, Stop(w) PROVE RInv'
  <2>1. PICK place \in {"result", "raised"} : Becomes(w, place)
    BY <1>2 DEF Stop, StopAnswers
  <2> QED
    BY <1>2, <2>1, CallerMoves DEF Stop, Callers, Answered
<1>3. ASSUME NEW w \in MetricsCallers, StartMetrics(w) \/ QueuedCancelled(w) PROVE RInv'
  BY <1>3, StartMetricsKeepsRInv, CallerMoves DEF QueuedCancelled, Callers, Answered
<1>4. ASSUME NEW w \in NextCallers, NextReturns(w) \/ NextCancelled(w) PROVE RInv'
  <2>1. PICK place \in {"result", "raised", "cancelled"} : Becomes(w, place)
    BY <1>4 DEF NextReturns, NextCancelled
  <2> QED
    BY <1>4, <2>1, CallerMoves DEF NextReturns, NextCancelled, Callers, Answered
<1>5. ASSUME NEW w \in Callers, Returns(w) PROVE RInv'
  BY <1>3, <1>4, <1>5, ModelReturnsKeepsRInv, MetricsReturnKeepsRInv DEF Returns
<1>6. ASSUME NEW w \in ModelCallers \cup MetricsCallers, WaiterCancelled(w) PROVE RInv'
  BY <1>6, WaiterCancelledKeepsRInv DEF Callers
<1> QED
  BY <1>1, <1>2, <1>3, <1>4, <1>5, <1>6

-----------------------------------------------------------------------------
(* The consumers *)

LEMMA ContentIsNatural == Content \subseteq Nat \ {0} /\ NoTask \notin Content /\ Pending \notin Content
  BY ContentAssumption DEF Content, NoTask, Pending

(* A consumer's move keeps the invariant if it keeps its own, and what it takes
   from one place is found in another. *)
LEMMA ConsumerMoves ==
  ASSUME RInv, NEW c \in Consumers, Quiet,
         UNCHANGED <<requestVars, terminal, replay, callerVars>>,
         ConsumerTypes',
         \A d \in Consumers \ {c} : at'[d] = at[d] /\ get'[d] = get[d] /\ seen'[d] = seen[d],
         queue' \in Seq(Content), Increasing(queue'),
         Elems(queue') \subseteq Elems(queue),
         queue = << >> => queue' = << >>,
         Place(c)', SeenInv(c)',
         Elems(queue) \cup Given(c) \cup Held(c) \subseteq Elems(queue') \cup Given(c)' \cup Held(c)'
  PROVE  RInv'
<1>1. RequestTypes' /\ BufferTypes' /\ CallerTypes'
  BY DEF RInv, RequestTypes, BufferTypes, CallerTypes, requestVars, callerVars
<1>2. Received' = Received
  BY DEF Received, Quiet
<1>3. BuffersInv'
  BY <1>2 DEF RInv, BuffersInv, requestVars
<1>4. ConsumerInv'
  <2> SUFFICES ASSUME NEW d \in Consumers PROVE (Place(d) /\ SeenInv(d))'
    BY DEF ConsumerInv
  <2>1. CASE d = c
    BY <2>1
  <2>2. CASE d # c
    BY <2>2, OthersKeep DEF RInv, ConsumerInv, requestVars
  <2> QED
    BY <2>1, <2>2
<1>5. Accounted'
  <2> SUFFICES ASSUME streaming, NEW e \in Received
               PROVE  e \in Elems(queue') \/ \E d \in Consumers : e \in Given(d)' \/ get'[d] = e
    BY <1>2 DEF Accounted, requestVars
  <2>1. CASE e \in Elems(queue) \cup Given(c) \cup Held(c)
    BY <2>1 DEF Held
  <2>2. CASE \E d \in Consumers \ {c} : e \in Given(d) \/ get[d] = e
    BY <2>2 DEF Given
  <2>3. e \in Elems(queue) \/ \E d \in Consumers : e \in Given(d) \/ get[d] = e
    BY DEF RInv, Accounted
  <2> QED
    BY <2>1, <2>2, <2>3 DEF Held, Received
<1>6. LoadInv'
  BY LoadKept DEF RInv
<1> QED
  BY <1>1, <1>3, <1>4, <1>5, <1>6 DEF RInv

(* The same for a move that leaves the queue and what was given or taken alone. *)
LEMMA PlaceMoves ==
  ASSUME RInv, NEW c \in Consumers, Quiet,
         UNCHANGED <<requestVars, bufferVars, callerVars, seen>>,
         NEW place \in Finished \cup {"reading", "waiting", "retiring", "awaiting"},
         Moves(c, place),
         get' \in [Consumers -> Content \cup {NoTask, Pending}],
         \A d \in Consumers \ {c} : get'[d] = get[d],
         get'[c] \notin Content \/ get'[c] = get[c],
         get[c] \in Content => get'[c] = get[c],
         at[c] # "ended",
         place = "waiting" => get'[c] \notin Content,
         place = "ended" => (streaming => TaskDone /\ queue = << >>),
         Place(c)'
  PROVE  RInv'
<1>1. /\ ConsumerTypes'
      /\ \A d \in Consumers \ {c} : at'[d] = at[d] /\ get'[d] = get[d] /\ seen'[d] = seen[d]
      /\ at'[c] = place
  BY DEF RInv, ConsumerTypes, Moves
<1>2. /\ Given(c)' = Given(c) /\ Held(c)' = Held(c) /\ Received' = Received
      /\ place = "waiting" => Held(c) = {}
  BY DEF Given, Held, Received, Quiet
<1>3. SeenInv(c)'
  <2>1. SeenInv(c)
    BY DEF RInv, ConsumerInv
  <2>2. /\ Increasing(seen'[c])
        /\ Given(c) \cup Held(c) \subseteq Received
        /\ Below(Given(c), Elems(queue))
        /\ Below(Held(c), Elems(queue))
        /\ place = "waiting" => Below(Given(c), Held(c))
        /\ streaming /\ place = "ended" => TaskDone' /\ queue = << >>
    BY <1>2, <2>1 DEF SeenInv, Below, Quiet
  <2> QED
    BY <1>1, <1>2, <2>2 DEF SeenInv, bufferVars, requestVars
<1>4. /\ queue' \in Seq(Content) /\ Increasing(queue')
      /\ Elems(queue') = Elems(queue) /\ queue' = queue
  BY DEF RInv, BufferTypes, BuffersInv, bufferVars
<1> QED
  BY <1>1, <1>2, <1>3, <1>4, ConsumerMoves DEF bufferVars

LEMMA SameRequest ==
  ASSUME UNCHANGED vars
  PROVE  Quiet
  BY DEF vars, clientVars, Quiet, TaskDone

LEMMA StartStreamKeepsRInv ==
  ASSUME RInv, NEW c \in Consumers, StartStream(c)
  PROVE  RInv'
<1>1. /\ at[c] = "new" /\ Quiet
      /\ UNCHANGED <<requestVars, bufferVars, get, callerVars>>
      /\ get[c] = NoTask /\ seen[c] = << >>
      /\ get \in [Consumers -> Content \cup {NoTask, Pending}]
  BY SameRequest DEF StartStream, RInv, ConsumerInv, ConsumerTypes, Place
<1>2. CASE ~streaming
  <2>1. PICK place \in {"ended", "awaiting"} : Moves(c, place)
    BY <1>2 DEF StartStream
  <2>2. UNCHANGED seen
    BY <1>2 DEF StartStream
  <2>3. Place(c)'
    BY <1>1, <1>2, <2>1, <2>2 DEF Place, Moves, RInv, ConsumerTypes, requestVars
  <2> QED
    BY <1>1, <1>2, <2>1, <2>2, <2>3, PlaceMoves, ContentIsNatural DEF Finished
<1>3. CASE streaming /\ ~TaskDone
  <2>1. Moves(c, "reading") /\ UNCHANGED seen
    BY <1>3 DEF StartStream
  <2>3. Place(c)'
    BY <1>1, <1>3, <2>1 DEF Place, Moves, RInv, ConsumerTypes, requestVars
  <2> QED
    BY <1>1, <2>1, <2>3, PlaceMoves, ContentIsNatural
<1>4. CASE streaming /\ TaskDone
  <2>1. Moves(c, "ended") /\ seen' = [seen EXCEPT ![c] = replay]
    BY <1>4 DEF StartStream
  <2>2. replay \in Seq(Content)
    BY DEF RInv, BufferTypes, Content
  <2>3. /\ ConsumerTypes'
        /\ \A d \in Consumers \ {c} : at'[d] = at[d] /\ get'[d] = get[d] /\ seen'[d] = seen[d]
        /\ at'[c] = "ended" /\ seen'[c] = replay /\ get'[c] = NoTask
    BY <1>1, <2>1, <2>2 DEF RInv, ConsumerTypes, Moves, Finished
  <2>4. Place(c)'
    BY <1>1, <1>4, <2>3 DEF Place, requestVars
  <2>5. /\ Given(c) = {} /\ Held(c) = {} /\ Held(c)' = {}
        /\ Given(c)' = Elems(replay) /\ Elems(replay) \subseteq Received
        /\ Received' = Received
    <3>1. Elems(<< >>) = {}
      BY ElemsOfSeq, EmptySeq
    <3>2. Given(c) = {} /\ Given(c)' = Elems(replay)
      BY <1>1, <2>3, <3>1 DEF Given
    <3>3. Held(c) = {} /\ Held(c)' = {}
      BY <1>1, <2>3, ContentIsNatural DEF Held
    <3>4. Elems(replay) \subseteq Received /\ Received' = Received
      BY <1>1, <1>4 DEF RInv, BuffersInv, Received, Quiet
    <3> QED
      BY <3>2, <3>3, <3>4
  <2>6. SeenInv(c)'
    BY <1>1, <1>4, <2>3, <2>5 DEF SeenInv, Below, RInv, BuffersInv, bufferVars, Quiet
  <2>7. /\ queue' \in Seq(Content) /\ Increasing(queue')
        /\ Elems(queue') = Elems(queue) /\ queue' = queue
    BY <1>1 DEF RInv, BufferTypes, BuffersInv, bufferVars
  <2> QED
    BY <1>1, <2>3, <2>4, <2>5, <2>6, <2>7, ConsumerMoves DEF bufferVars
<1> QED
  BY <1>2, <1>3, <1>4

(* What is known of a consumer that is not at its end, and of the queue's head. *)
LEMMA QueueHead ==
  ASSUME RInv, NEW c \in Consumers, queue # << >>
  PROVE  /\ streaming
         /\ Head(queue) \in Content /\ Head(queue) \in Received
         /\ Tail(queue) \in Seq(Content) /\ Increasing(Tail(queue))
         /\ Elems(queue) = {Head(queue)} \cup Elems(Tail(queue))
         /\ Below({Head(queue)}, Elems(Tail(queue)))
         /\ at[c] # "ended" => Below(Given(c), {Head(queue)} \cup Elems(Tail(queue)))
         /\ Below(Held(c), {Head(queue)} \cup Elems(Tail(queue)))
<1>1. /\ streaming /\ queue \in Seq(Content) /\ Increasing(queue)
      /\ Elems(queue) \subseteq Received
  BY DEF RInv, RequestTypes, BufferTypes, BuffersInv
<1>2. /\ Tail(queue) \in Seq(Content) /\ Head(queue) \in Content
      /\ Increasing(Tail(queue))
      /\ Elems(queue) = {Head(queue)} \cup Elems(Tail(queue))
      /\ Below({Head(queue)}, Elems(Tail(queue)))
  BY <1>1, TailElems
<1>3. SeenInv(c)
  BY DEF RInv, ConsumerInv
<1> QED
  BY <1>1, <1>2, <1>3 DEF SeenInv

(* Taking the head of the queue: into the hands of the consumer, or of its get_task. *)
LEMMA PullKeepsRInv ==
  ASSUME RInv, NEW c \in Consumers, Pull(c)
  PROVE  RInv'
<1>1. /\ at[c] = "reading" /\ Quiet /\ UNCHANGED <<requestVars, terminal, replay, callerVars>>
      /\ Place(c) /\ SeenInv(c) /\ get[c] = NoTask /\ streaming
      /\ get \in [Consumers -> Content \cup {NoTask, Pending}]
  BY SameRequest DEF Pull, RInv, ConsumerInv, Place, ConsumerTypes, RequestTypes
<1>2. CASE queue # << >> /\ Yields(c, Head(queue)) /\ queue' = Tail(queue) /\ UNCHANGED <<at, get>>
  <2> DEFINE e == Head(queue)
  <2>1. /\ e \in Content /\ e \in Received
        /\ queue' \in Seq(Content) /\ Increasing(queue')
        /\ Elems(queue) = {e} \cup Elems(queue')
        /\ Below({e}, Elems(queue'))
        /\ Below(Given(c), {e} \cup Elems(queue'))
    BY <1>1, <1>2, QueueHead
  <2> HIDE DEF e
  <2>2. seen[c] \in Seq(Content)
    BY DEF RInv, ConsumerTypes
  <2>3. /\ Append(seen[c], e) \in Seq(Content)
        /\ Elems(Append(seen[c], e)) = Given(c) \cup {e}
        /\ Increasing(Append(seen[c], e))
    <3>1. Below(Elems(seen[c]), {e}) /\ Increasing(seen[c])
      BY <1>1, <2>1 DEF Below, Given, SeenInv
    <3> QED
      BY <2>1, <2>2, <3>1, AppendElems, AppendIncreasing DEF Given
  <2>4. /\ ConsumerTypes'
        /\ \A d \in Consumers \ {c} : at'[d] = at[d] /\ get'[d] = get[d] /\ seen'[d] = seen[d]
        /\ at'[c] = "reading" /\ get'[c] = NoTask /\ seen'[c] = Append(seen[c], e)
    BY <1>1, <1>2, <2>3 DEF RInv, ConsumerTypes, Yields, e
  <2>5. Place(c)'
    BY <1>1, <2>4 DEF Place, requestVars
  <2>6. /\ Given(c)' = Given(c) \cup {e} /\ Held(c)' = {} /\ Held(c) = {} /\ Received' = Received
    BY <1>1, <2>3, <2>4, ContentIsNatural DEF Given, Held, Received, Quiet
  <2>7. SeenInv(c)'
    <3>1. /\ Increasing(seen'[c])
          /\ Given(c)' \cup Held(c)' \subseteq Received'
          /\ Below(Given(c)', Elems(queue'))
          /\ Below(Held(c)', Elems(queue'))
      BY <1>1, <2>1, <2>3, <2>4, <2>6 DEF SeenInv, Below
    <3> QED
      BY <2>4, <3>1 DEF SeenInv
  <2> QED
    BY <1>1, <1>2, <2>1, <2>4, <2>5, <2>6, <2>7, ConsumerMoves
<1>3. CASE queue = << >> /\ TaskDone /\ Moves(c, "ended") /\ UNCHANGED <<queue, get, seen>>
  <2>1. Place(c)'
    BY <1>1, <1>3 DEF Place, Moves, RInv, ConsumerTypes, requestVars
  <2> QED
    BY <1>1, <1>3, <2>1, PlaceMoves DEF bufferVars, Finished
<1>4. CASE queue = << >> /\ ~TaskDone /\ Moves(c, "waiting") /\ get' = [get EXCEPT ![c] = Pending] /\ UNCHANGED <<queue, seen>>
  <2>1. /\ get' \in [Consumers -> Content \cup {NoTask, Pending}]
        /\ \A d \in Consumers \ {c} : get'[d] = get[d]
        /\ get'[c] = Pending
    BY <1>1, <1>4
  <2>2. Place(c)'
    BY <1>1, <1>4, <2>1 DEF Place, Moves, RInv, ConsumerTypes, requestVars, NoTask, Pending
  <2> QED
    BY <1>1, <1>4, <2>1, <2>2, PlaceMoves, ContentIsNatural DEF bufferVars
<1> QED
  BY <1>2, <1>3, <1>4 DEF Pull

LEMMA GetTakesKeepsRInv ==
  ASSUME RInv, NEW c \in Consumers, GetTakes(c)
  PROVE  RInv'
<1> DEFINE e == Head(queue)
<1>1. /\ Quiet /\ UNCHANGED <<requestVars, terminal, replay, at, seen, callerVars>>
      /\ get[c] = Pending /\ queue # << >> /\ queue' = Tail(queue)
      /\ get' = [get EXCEPT ![c] = e]
      /\ Place(c) /\ SeenInv(c)
  BY SameRequest DEF GetTakes, RInv, ConsumerInv
<1>2. /\ e \in Content /\ e \in Received /\ streaming
      /\ queue' \in Seq(Content) /\ Increasing(queue')
      /\ Elems(queue) = {e} \cup Elems(queue')
      /\ Below({e}, Elems(queue'))
      /\ at[c] # "ended" => Below(Given(c), {e} \cup Elems(queue'))
  BY <1>1, QueueHead
<1> HIDE DEF e
<1>3. /\ ConsumerTypes'
      /\ \A d \in Consumers \ {c} : at'[d] = at[d] /\ get'[d] = get[d] /\ seen'[d] = seen[d]
      /\ at'[c] = at[c] /\ get'[c] = e /\ seen'[c] = seen[c]
      /\ at[c] \in {"waiting", "cancelled"}
  BY <1>1, <1>2 DEF RInv, ConsumerTypes, Place, NoTask, Pending
<1>4. Place(c)'
  BY <1>1, <1>2, <1>3, ContentIsNatural DEF Place, NoTask, Pending, requestVars
<1>5. /\ Given(c)' = Given(c) /\ Held(c)' = {e} /\ Held(c) = {} /\ Received' = Received
  BY <1>1, <1>2, <1>3, ContentIsNatural DEF Given, Held, Received, Quiet
<1>6. SeenInv(c)'
  <2>1. /\ Increasing(seen[c])
        /\ Given(c)' \cup Held(c)' \subseteq Received'
        /\ Below(Given(c)', Elems(queue'))
        /\ Below(Held(c)', Elems(queue'))
        /\ Below(Given(c)', Held(c)')
    BY <1>1, <1>2, <1>3, <1>5 DEF SeenInv, Below
  <2> QED
    BY <1>3, <2>1 DEF SeenInv
<1> QED
  BY <1>1, <1>2, <1>3, <1>4, <1>5, <1>6, ConsumerMoves

LEMMA WakeKeepsRInv ==
  ASSUME RInv, NEW c \in Consumers, Wake(c)
  PROVE  RInv'
<1>1. /\ at[c] = "waiting" /\ Quiet /\ UNCHANGED <<requestVars, bufferVars, callerVars>>
      /\ get' = [get EXCEPT ![c] = NoTask]
      /\ Place(c) /\ SeenInv(c) /\ get[c] # NoTask /\ streaming
      /\ get \in [Consumers -> Content \cup {NoTask, Pending}]
      /\ queue \in Seq(Content) /\ Increasing(queue)
  BY SameRequest
  DEF Wake, RInv, ConsumerInv, Place, ConsumerTypes, RequestTypes, BufferTypes, BuffersInv
<1>2. CASE get[c] # Pending /\ Yields(c, get[c]) /\ Moves(c, "reading")
  <2> DEFINE e == get[c]
  <2>1. e \in Content /\ Held(c) = {e} /\ seen[c] \in Seq(Content)
    BY <1>1, <1>2 DEF Held, RInv, ConsumerTypes
  <2>2. /\ Append(seen[c], e) \in Seq(Content)
        /\ Elems(Append(seen[c], e)) = Given(c) \cup {e}
        /\ Increasing(Append(seen[c], e))
    <3>1. Below(Elems(seen[c]), {e}) /\ Increasing(seen[c])
      BY <1>1, <2>1 DEF Given, SeenInv
    <3> HIDE DEF e
    <3> QED
      BY <2>1, <3>1, AppendElems, AppendIncreasing DEF Given
  <2>3. /\ ConsumerTypes'
        /\ \A d \in Consumers \ {c} : at'[d] = at[d] /\ get'[d] = get[d] /\ seen'[d] = seen[d]
        /\ at'[c] = "reading" /\ get'[c] = NoTask /\ seen'[c] = Append(seen[c], e)
    BY <1>1, <1>2, <2>2 DEF RInv, ConsumerTypes, Yields, Moves
  <2> HIDE DEF e
  <2>4. Place(c)'
    BY <1>1, <2>3 DEF Place, requestVars
  <2>5. /\ Given(c)' = Given(c) \cup {e} /\ Held(c)' = {} /\ Received' = Received
    BY <1>1, <2>2, <2>3, ContentIsNatural DEF Given, Held, Received, Quiet
  <2>6. SeenInv(c)'
    <3>1. /\ Increasing(seen'[c])
          /\ Given(c)' \cup Held(c)' \subseteq Received'
          /\ Below(Given(c)', Elems(queue))
          /\ Below(Held(c)', Elems(queue))
      BY <1>1, <2>1, <2>2, <2>3, <2>5 DEF SeenInv, Below
    <3> QED
      BY <1>1, <2>3, <3>1 DEF SeenInv, bufferVars
  <2> QED
    BY <1>1, <2>1, <2>3, <2>4, <2>5, <2>6, ConsumerMoves DEF bufferVars
<1>3. CASE get[c] = Pending /\ TaskDone /\ Moves(c, "retiring") /\ UNCHANGED seen
  <2>1. /\ get' \in [Consumers -> Content \cup {NoTask, Pending}]
        /\ \A d \in Consumers \ {c} : get'[d] = get[d]
        /\ get'[c] = NoTask
    BY <1>1
  <2>2. Place(c)'
    BY <1>1, <1>3, <2>1 DEF Place, Moves, RInv, ConsumerTypes, requestVars
  <2> QED
    BY <1>1, <1>3, <2>1, <2>2, PlaceMoves, ContentIsNatural
<1> QED
  BY <1>2, <1>3 DEF Wake

(* The moves that give and take nothing. *)
LEMMA OtherMovesKeepRInv ==
  ASSUME RInv, NEW c \in Consumers,
         Retire(c) \/ AwaitEnds(c) \/ ConsumerLeaves(c) \/ ConsumerCancelled(c)
  PROVE  RInv'
<1>1. /\ Place(c) /\ UNCHANGED <<requestVars, bufferVars, callerVars, get, seen>>
      /\ get \in [Consumers -> Content \cup {NoTask, Pending}]
      /\ at \in [Consumers -> Finished \cup {"new", "reading", "waiting", "retiring", "awaiting"}]
  BY DEF RInv, ConsumerInv, ConsumerTypes, Retire, AwaitEnds, ConsumerLeaves, ConsumerCancelled
<1>2. Quiet
  BY SameRequest, QuietCancel DEF Retire, AwaitEnds, ConsumerLeaves, ConsumerCancelled
<1>3. PICK place \in {"reading", "ended", "left", "cancelled"} :
        /\ Moves(c, place)
        /\ place = "reading" => at[c] = "retiring"
        /\ place = "ended" => at[c] = "awaiting"
        /\ place = "left" => at[c] = "reading"
        /\ place = "cancelled" => at[c] \in {"waiting", "awaiting"}
  BY DEF Retire, AwaitEnds, ConsumerLeaves, ConsumerCancelled
<1>4. at'[c] = place
  BY <1>1, <1>3 DEF Moves
<1>5. Place(c)'
  BY <1>1, <1>3, <1>4 DEF Place, requestVars
<1>6. place = "ended" => ~streaming
  BY <1>1, <1>3 DEF Place
<1> QED
  BY <1>1, <1>2, <1>3, <1>5, <1>6, PlaceMoves DEF Finished

-----------------------------------------------------------------------------
(* The event that arrives is the next one, and is queued behind all before it. *)

LEMMA NextEvent ==
  ASSUME IInv, Receive
  PROVE  /\ cursor' = cursor + 1 /\ cursor \in Nat
         /\ Head(wire).position = cursor + 1
         /\ ~TaskDone
<1>1. /\ wire \in Seq([position : Start + 1 .. Last, intact : BOOLEAN])
      /\ Len(wire) \in Nat \ {0}
      /\ cursor \in Start .. Last
  BY DEF IInv, TypeOK, Receive
<1>2. Head(wire).position = cursor + 1
  BY <1>1 DEF IInv, Receive, WireFollowsCursor
<1> QED
  BY <1>1, <1>2 DEF Receive, TaskDone

LEMMA ReceiveEventKeepsRInv ==
  ASSUME IInv, RInv, ReceiveEvent
  PROVE  RInv'
<1> DEFINE e == cursor + 1
<1>1. /\ cursor' = e /\ cursor \in Nat /\ ~TaskDone /\ Dispatch(e)
      /\ UNCHANGED <<requestVars, consumerVars, callerVars>>
      /\ terminal' \in Terminals \cup {terminal}
  BY NextEvent DEF ReceiveEvent
<1>2. /\ Received' = Received \cup ({e} \cap Content)
      /\ \A x \in Received : x < e
  <2>1. \A x \in Content : x \in Nat /\ (x <= e <=> x <= cursor \/ x = e) /\ (x <= cursor => x < e)
    BY <1>1, ContentIsNatural
  <2>2. cursor' = e
    BY <1>1
  <2> HIDE DEF e
  <2> QED
    BY <2>1, <2>2 DEF Received
<1>3. /\ queue \in Seq(Content) /\ replay \in Seq(Deltas)
      /\ Increasing(queue) /\ Increasing(replay)
      /\ Elems(queue) \subseteq Received
      /\ streaming => Elems(replay) = {x \in Received \cap Deltas : \A r \in Received \cap Resets : r < x}
      /\ streaming \in BOOLEAN
  BY DEF RInv, BufferTypes, BuffersInv, RequestTypes
<1> HIDE DEF e
<1>4. /\ queue' \in Seq(Content) /\ Increasing(queue')
      /\ Elems(queue') = Elems(queue) \cup (IF streaming THEN {e} \cap Content ELSE {})
      /\ ~streaming => queue' = queue
  <2>1. CASE streaming /\ e \in Content
    <3>1. queue' = Append(queue, e)
      BY <1>1, <2>1 DEF Dispatch, OnDelta, OnReset
    <3>2. Below(Elems(queue), {e})
      BY <1>2, <1>3 DEF Below
    <3> QED
      BY <1>3, <2>1, <3>1, <3>2, AppendElems, AppendIncreasing
  <2>2. CASE ~(streaming /\ e \in Content)
    BY <1>1, <1>3, <2>2 DEF Dispatch
  <2> QED
    BY <2>1, <2>2
<1>5. /\ replay' \in Seq(Deltas) /\ Increasing(replay')
      /\ streaming => Elems(replay') = {x \in Received' \cap Deltas : \A r \in Received' \cap Resets : r < x}
      /\ ~streaming => replay' = replay
  <2>1. CASE ~streaming \/ e \notin Content
    BY <1>1, <1>2, <1>3, <2>1 DEF Dispatch
  <2>2. CASE streaming /\ e \in Deltas
    <3>1. replay' = Append(replay, e) /\ e \in Content
      BY <1>1, <2>2 DEF Dispatch, OnDelta, Content
    <3>2. Elems(replay) \subseteq Received
      BY <1>3, <2>2
    <3>3. Below(Elems(replay), {e})
      BY <1>2, <3>2 DEF Below
    <3>4. /\ replay' \in Seq(Deltas) /\ Elems(replay') = Elems(replay) \cup {e}
      BY <1>3, <2>2, <3>1, AppendElems
    <3>5. Increasing(replay')
      <4>1. replay \in Seq(Content)
        BY <1>3 DEF Content
      <4> QED
        BY <1>3, <3>1, <3>3, <4>1, AppendIncreasing
    <3>6. /\ Received' = Received \cup {e}
          /\ Received' \cap Resets = Received \cap Resets
      BY <1>2, <2>2, <3>1, ContentAssumption
    <3>7. Elems(replay') = {x \in Received' \cap Deltas : \A r \in Received' \cap Resets : r < x}
      BY <1>2, <1>3, <2>2, <3>4, <3>6
    <3> QED
      BY <2>2, <3>4, <3>5, <3>7
  <2>3. CASE streaming /\ e \in Resets
    <3>1. replay' = << >> /\ e \in Received' /\ \A x \in Received' : ~(e < x)
      BY <1>1, <1>2, <2>3, ContentAssumption, ContentIsNatural DEF Dispatch, OnReset, Content, Received
    <3>2. << >> \in Seq(Deltas) /\ Elems(<< >>) = {} /\ Increasing(<< >>)
      BY ElemsOfSeq, EmptySeq
    <3> QED
      BY <2>3, <3>1, <3>2
  <2> QED
    BY <1>3, <2>1, <2>2, <2>3 DEF Content
<1>6. RequestTypes' /\ BufferTypes' /\ ConsumerTypes' /\ CallerTypes'
  BY <1>1, <1>4, <1>5
  DEF RInv, RequestTypes, BufferTypes, ConsumerTypes, CallerTypes, requestVars, consumerVars,
      callerVars
<1>7. BuffersInv'
  BY <1>1, <1>2, <1>3, <1>4, <1>5 DEF RInv, BuffersInv, requestVars
<1>8. ConsumerInv'
  <2> SUFFICES ASSUME NEW c \in Consumers PROVE (Place(c) /\ SeenInv(c))'
    BY DEF ConsumerInv
  <2>1. Place(c) /\ SeenInv(c)
    BY DEF RInv, ConsumerInv
  <2>2. Place(c)'
    BY <1>1, <2>1 DEF Place, requestVars, consumerVars
  <2>3. Given(c)' = Given(c) /\ Held(c)' = Held(c)
    BY <1>1 DEF Given, Held, consumerVars
  <2>4. /\ Increasing(seen[c])
        /\ Given(c) \cup Held(c) \subseteq Received'
        /\ at[c] # "ended" => Below(Given(c), Elems(queue'))
        /\ Below(Held(c), Elems(queue'))
        /\ at[c] = "waiting" => Below(Given(c), Held(c))
        /\ ~(streaming /\ at[c] = "ended")
    BY <1>1, <1>2, <1>4, <2>1 DEF SeenInv, Below
  <2>5. SeenInv(c)'
    BY <1>1, <2>3, <2>4 DEF SeenInv, consumerVars, requestVars
  <2> QED
    BY <2>2, <2>5
<1>9. Accounted'
  <2> SUFFICES ASSUME streaming, NEW x \in Received'
               PROVE  x \in Elems(queue') \/ \E c \in Consumers : x \in Given(c)' \/ get'[c] = x
    BY <1>1 DEF Accounted, requestVars
  <2>1. CASE x \in Received
    BY <1>1, <1>4, <2>1 DEF RInv, Accounted, Given, consumerVars
  <2>2. CASE x \notin Received
    BY <1>2, <1>4, <2>2
  <2> QED
    BY <2>1, <2>2
<1>10. LoadInv'
  BY <1>1 DEF RInv, LoadInv, callerVars
<1> QED
  BY <1>6, <1>7, <1>8, <1>9, <1>10 DEF RInv

-----------------------------------------------------------------------------
(* The specification of the response *)

(* The response adds to the request and never changes what it does. *)
LEMMA ResponseIsRequest == [NextResponse]_allVars => [Next]_vars
<1>1. ReceiveEvent \/ StreamSteps => Next
  BY DEF ReceiveEvent, StreamSteps, Next
<1>2. \A c \in Consumers :
        StartStream(c) \/ GetTakes(c) \/ ConsumerStep(c) \/ ConsumerLeaves(c) \/ ConsumerCancelled(c)
          => Cancel \/ UNCHANGED vars
  BY DEF StartStream, GetTakes, ConsumerStep, Pull, Wake, Retire, AwaitEnds, ConsumerLeaves,
         ConsumerCancelled
<1>3. \A w \in Callers : Returns(w) => UNCHANGED vars
  BY DEF Returns, ModelReturns, NextReturns, MetricsReturn, StartMetrics
<1>4. /\ \A w \in ModelCallers \cup NextCallers : StartModel(w) => UNCHANGED vars
      /\ \A w \in StopCallers : Stop(w) => UNCHANGED vars
      /\ \A w \in MetricsCallers : StartMetrics(w) \/ QueuedCancelled(w) => UNCHANGED vars
      /\ \A w \in NextCallers : NextCancelled(w) => UNCHANGED vars
  BY DEF StartModel, Stop, StartMetrics, QueuedCancelled, NextCancelled
<1>5. \A w \in ModelCallers \cup MetricsCallers : WaiterCancelled(w) => Cancel \/ UNCHANGED vars
  BY DEF WaiterCancelled
<1>6. Cancel => Next
  BY DEF Next
<1>7. UNCHANGED allVars => UNCHANGED vars
  BY DEF allVars
<1> QED
  BY <1>1, <1>2, <1>3, <1>4, <1>5, <1>6, <1>7 DEF NextResponse

LEMMA ResponseSpecIsRequestSpec == SpecResponse => Spec
  BY ResponseIsRequest, PTL DEF SpecResponse, InitResponse, Spec

(* Whatever the users of a response do, its request delivers each event once and
   in order, is not published again after a 2xx, and implements EventDelivery. *)
THEOREM ResponseKeepsRequest ==
  SpecResponse => []ExactlyOnceInOrder /\ NoRepublishAfterAccept /\ ImplementsDelivery
  BY ResponseSpecIsRequestSpec, DeliveredOnceInOrder, PublishedAtMostOnceAfterAccept,
     RefinesDelivery, PTL

LEMMA NextRInv == IInv /\ RInv /\ [NextResponse]_allVars => RInv'
<1> SUFFICES ASSUME IInv, RInv, [NextResponse]_allVars PROVE RInv'
  OBVIOUS
<1>1. CASE ReceiveEvent
  BY <1>1, ReceiveEventKeepsRInv
<1>2. CASE StreamSteps
  BY <1>2, StreamStepsKeepRInv
<1>3. ASSUME NEW c \in Consumers,
             StartStream(c) \/ GetTakes(c) \/ ConsumerStep(c) \/ ConsumerLeaves(c) \/ ConsumerCancelled(c)
      PROVE  RInv'
  BY <1>3, StartStreamKeepsRInv, GetTakesKeepsRInv, PullKeepsRInv, WakeKeepsRInv,
     OtherMovesKeepRInv DEF ConsumerStep
<1>4. CASE \/ \E w \in ModelCallers \cup NextCallers : StartModel(w)
           \/ \E w \in StopCallers : Stop(w)
           \/ \E w \in MetricsCallers : StartMetrics(w) \/ QueuedCancelled(w)
           \/ \E w \in Callers : Returns(w)
           \/ \E w \in NextCallers : NextCancelled(w)
           \/ \E w \in ModelCallers \cup MetricsCallers : WaiterCancelled(w)
  BY <1>4, CallersKeepRInv
<1>5. CASE UNCHANGED allVars
  <2>1. UNCHANGED <<vars, requestVars, bufferVars, consumerVars, callerVars>>
    BY <1>5 DEF allVars, responseVars
  <2>2. CallerTypes' /\ LoadInv'
    BY <2>1, SameRequest, LoadKept DEF RInv, CallerTypes, callerVars, bufferVars
  <2> QED
    BY <2>1, <2>2, SameRequest, QuietKeepsRInv
<1> QED
  BY <1>1, <1>2, <1>3, <1>4, <1>5 DEF NextResponse

LEMMA AlwaysRInv == SpecResponse => [](IInv /\ RInv)
<1>1. SpecResponse => []IInv
  BY ResponseSpecIsRequestSpec, AlwaysIInv, PTL
<1> QED
  BY <1>1, InitRInv, NextRInv, PTL DEF SpecResponse

(* The buffers, consumers and callers of a response stay in their types. *)
THEOREM ResponseTypeCorrect == SpecResponse => []ResponseTypeOK
<1>1. RInv => ResponseTypeOK
  BY DEF RInv, RequestTypes, BufferTypes, ConsumerTypes, CallerTypes, ResponseTypeOK
<1> QED
  BY <1>1, AlwaysRInv, PTL

(* A caller is told there are no metrics of a task that completed with a result
   only after a loader was interrupted. *)
THEOREM MetricsAreReported == SpecResponse => []MetricsReported
<1>1. RInv => MetricsReported
  BY DEF RInv, LoadInv, MetricsReported, Callers
<1> QED
  BY <1>1, AlwaysRInv, PTL

LEMMA ReceivedIsDelivered ==
  ASSUME IInv
  PROVE  Elems(delivered) \cap Content = Received
<1>1. /\ delivered \in Seq(Start + 1 .. Last) /\ cursor \in Start .. Last
      /\ Len(delivered) = cursor - Start
      /\ \A i \in 1 .. Len(delivered) : delivered[i] = Start + i
  BY DEF IInv, TypeOK, ExactlyOnceInOrder
<1>2. Elems(delivered) = {delivered[i] : i \in 1 .. Len(delivered)}
  BY <1>1, ElemsOfSeq
<1>3. \A e \in Content : e \in Nat /\ Start + 1 <= e
  BY ContentAssumption DEF Content
<1>4. ASSUME NEW e \in Content, e <= cursor PROVE e \in Elems(delivered)
  <2>1. e - Start \in 1 .. Len(delivered) /\ Start + (e - Start) = e
    BY <1>1, <1>3, <1>4
  <2> QED
    BY <1>1, <1>2, <2>1
<1>5. ASSUME NEW e \in Elems(delivered) PROVE e <= cursor
  BY <1>1, <1>2
<1> QED
  BY <1>4, <1>5 DEF Received

(* Each consumer that was cancelled in its wait takes one event with it. *)
THEOREM CancelledConsumersTakeOne == SpecResponse => []CancelledTakesOne
<1>1. IInv /\ RInv => CancelledTakesOne
  <2> DEFINE lost == {e \in Elems(delivered) \cap Content :
                        /\ e \notin Elems(queue)
                        /\ \A c \in Consumers : e \notin Elems(seen[c])
                        /\ \A c \in Consumers : at[c] = "waiting" => e # get[c]}
             gone == {c \in Consumers : at[c] = "cancelled"}
             taken == {get[c] : c \in gone}
             takes == [c \in gone |-> get[c]]
  <2> SUFFICES ASSUME IInv, RInv, streaming
               PROVE  Cardinality(lost) <= Cardinality(gone)
    BY DEF CancelledTakesOne, Elems
  <2>1. ASSUME NEW e \in lost PROVE e \in taken
    <3>1. e \in Received
      BY ReceivedIsDelivered
    <3>2. PICK c \in Consumers : get[c] = e
      BY <3>1 DEF RInv, Accounted, Given
    <3>3. Place(c) /\ e # NoTask /\ at[c] # "waiting"
      BY <3>1, <3>2, ContentIsNatural DEF RInv, ConsumerInv, Received
    <3> QED
      BY <3>2, <3>3 DEF Place
  <2>2. IsFiniteSet(gone)
    BY UsersAssumption, FS_Subset
  <2>3. takes \in Surjection(gone, taken)
    BY DEF Surjection
  <2>4. IsFiniteSet(taken) /\ Cardinality(taken) <= Cardinality(gone)
    <3> HIDE DEF gone, taken, takes
    <3> QED
      BY <2>2, <2>3, FS_Surjection
  <2>5. IsFiniteSet(lost) /\ Cardinality(lost) <= Cardinality(taken)
    <3> HIDE DEF lost, taken
    <3> QED
      BY <2>1, <2>4, FS_Subset
  <2>6. Cardinality(lost) \in Nat /\ Cardinality(taken) \in Nat /\ Cardinality(gone) \in Nat
    <3> HIDE DEF lost, taken, gone
    <3> QED
      BY <2>2, <2>4, <2>5, FS_CardinalityType
  <2> QED
    <3> HIDE DEF lost, taken, gone
    <3> QED
      BY <2>4, <2>5, <2>6
<1> QED
  BY <1>1, AlwaysRInv, PTL

(* What a program shows is the content after the last reset, in order. *)
LEMMA ShownElems ==
  ASSUME NEW s \in Seq(Content), Increasing(s)
  PROVE  /\ Shown(s) \in Seq(Content) /\ Increasing(Shown(s))
         /\ Elems(Shown(s)) = {e \in Elems(s) \cap Deltas : \A r \in Elems(s) \cap Resets : r < e}
<1> DEFINE resets == {i \in 1 .. Len(s) : s[i] \in Resets}
           from == IF resets = {} THEN 1 ELSE Seqs!Max(resets) + 1
<1>1. /\ Len(s) \in Nat
      /\ \A i \in 1 .. Len(s) : s[i] \in Content /\ s[i] \in Nat
      /\ \A i, j \in 1 .. Len(s) : i < j => s[i] < s[j]
      /\ Elems(s) = {s[i] : i \in 1 .. Len(s)}
  <2>1. Elems(s) = {s[i] : i \in 1 .. Len(s)}
    BY ElemsOfSeq
  <2>2. \A i \in 1 .. Len(s) : s[i] \in Content
    OBVIOUS
  <2>3. \A i \in 1 .. Len(s) : s[i] \in Nat
    BY <2>2, ContentIsNatural
  <2> QED
    BY <2>1, <2>2, <2>3 DEF Increasing
<1>2. /\ from \in 1 .. Len(s) + 1
      /\ \A i \in 1 .. Len(s) : s[i] \in Resets => i < from
      /\ from # 1 => from - 1 \in 1 .. Len(s) /\ s[from - 1] \in Resets
  <2>1. CASE resets = {}
    BY <1>1, <2>1
  <2>2. CASE resets # {}
    <3>1. resets \subseteq 0 .. Len(s)
      OBVIOUS
    <3>2. \E x \in resets : \A y \in resets : x >= y
      <4> HIDE DEF resets
      <4> QED
        BY <1>1, <2>2, <3>1, LargestNatural
    <3>3. Seqs!Max(resets) \in resets /\ \A y \in resets : Seqs!Max(resets) >= y
      <4> HIDE DEF resets
      <4> QED
        BY <3>2 DEF Seqs!Max
    <3> DEFINE last == Seqs!Max(resets)
    <3> HIDE DEF last
    <3>4. last \in 1 .. Len(s) /\ s[last] \in Resets /\ from = last + 1
      BY <2>2, <3>3 DEF last
    <3>5. \A i \in 1 .. Len(s) : s[i] \in Resets => last >= i
      BY <3>3 DEF last
    <3> HIDE DEF from
    <3> QED
      BY <1>1, <3>4, <3>5
  <2> QED
    BY <2>1, <2>2
<1> DEFINE r == SubSeq(s, from, Len(s))
<1>3. Shown(s) = r
  BY DEF Shown
<1> HIDE DEF from
<1>4. /\ r \in Seq(Content) /\ Len(r) = Len(s) - from + 1
      /\ \A i \in 1 .. Len(r) : r[i] = s[from + i - 1] /\ from + i - 1 \in from .. Len(s)
  <2>1. from \in 1 .. Len(s) + 1 /\ Len(s) \in Nat
    BY <1>1, <1>2
  <2> QED
    BY <2>1
<1> HIDE DEF r
<1>5. Elems(r) = {r[i] : i \in 1 .. Len(r)}
  BY <1>4, ElemsOfSeq
<1>6. Increasing(r)
  BY <1>1, <1>2, <1>4 DEF Increasing
<1>7. \A e : e \in Elems(r) <=> \E i \in from .. Len(s) : e = s[i]
  <2>1. \A i \in from .. Len(s) : i - from + 1 \in 1 .. Len(r) /\ r[i - from + 1] = s[i]
    <3> TAKE i \in from .. Len(s)
    <3>1. i - from + 1 \in 1 .. Len(r) /\ from + (i - from + 1) - 1 = i
      BY <1>1, <1>2, <1>4
    <3> QED
      BY <1>4, <3>1
  <2>2. \A i \in 1 .. Len(r) : \E j \in from .. Len(s) : r[i] = s[j]
    BY <1>4
  <2> QED
    BY <1>5, <2>1, <2>2, Zenon
<1>8. \A i \in 1 .. Len(s) :
        i >= from <=> s[i] \in Deltas /\ \A r0 \in Elems(s) \cap Resets : r0 < s[i]
  <2> TAKE i \in 1 .. Len(s)
  <2>1. ASSUME i >= from PROVE s[i] \in Deltas /\ \A r0 \in Elems(s) \cap Resets : r0 < s[i]
    <3>1. s[i] \in Deltas
      BY <1>1, <1>2, <2>1 DEF Content
    <3>2. ASSUME NEW j \in 1 .. Len(s), s[j] \in Resets PROVE s[j] < s[i]
      BY <1>1, <1>2, <2>1, <3>2
    <3> QED
      BY <1>1, <3>1, <3>2
  <2>2. ASSUME i < from, \A r0 \in Elems(s) \cap Resets : r0 < s[i] PROVE FALSE
    <3>1. from - 1 \in 1 .. Len(s) /\ s[from - 1] \in Resets /\ i <= from - 1
      BY <1>1, <1>2, <2>2
    <3>2. s[from - 1] < s[i] /\ (i = from - 1 \/ s[i] < s[from - 1])
      BY <1>1, <2>2, <3>1
    <3> QED
      BY <1>1, <3>1, <3>2
  <2> QED
    BY <1>1, <1>2, <2>1, <2>2
<1>9. Elems(r) = {e \in Elems(s) \cap Deltas : \A r0 \in Elems(s) \cap Resets : r0 < e}
  <2>1. \A i \in from .. Len(s) : i \in 1 .. Len(s) /\ i >= from
    BY <1>1, <1>2
  <2>2. \A i \in 1 .. Len(s) : i >= from => i \in from .. Len(s)
    BY <1>1, <1>2
  <2> QED
    BY <1>1, <1>7, <1>8, <2>1, <2>2
<1> QED
  BY <1>3, <1>4, <1>6, <1>9

(* A consumer that iterated to the end has seen all of the content, or replays it. *)
THEOREM EveryConsumerSeesAll == SpecResponse => []ConsumersSeeAll
<1>1. IInv /\ RInv => ConsumersSeeAll
  <2> SUFFICES ASSUME IInv, RInv, NEW c \in Consumers
               PROVE  /\ Increasing(seen[c])
                      /\ streaming /\ at[c] = "ended" /\ Alone(c) =>
                           /\ Shown(seen[c]) = replay
                           /\ Given(c) = Elems(delivered) \cap Content \/ seen[c] = replay
    BY DEF ConsumersSeeAll, Increasing, Given, Elems
  <2>1. /\ Place(c) /\ SeenInv(c)
        /\ seen[c] \in Seq(Content) /\ replay \in Seq(Deltas) /\ Increasing(replay)
        /\ streaming => Elems(replay) = {e \in Received \cap Deltas : \A r \in Received \cap Resets : r < e}
    BY DEF RInv, ConsumerInv, ConsumerTypes, BufferTypes, BuffersInv
  <2>2. Increasing(seen[c])
    BY <2>1 DEF SeenInv
  <2> SUFFICES ASSUME streaming, at[c] = "ended", Alone(c)
               PROVE  /\ Shown(seen[c]) = replay
                      /\ Given(c) = Elems(delivered) \cap Content \/ seen[c] = replay
    BY <2>2
  <2>3. /\ Shown(seen[c]) \in Seq(Content) /\ Increasing(Shown(seen[c]))
        /\ Elems(Shown(seen[c])) = {e \in Given(c) \cap Deltas : \A r \in Given(c) \cap Resets : r < e}
    BY <2>1, <2>2, ShownElems DEF Given
  <2>4. CASE queue = << >>
    <3>1. \A d \in Consumers : at[d] # "waiting" /\ at[d] # "cancelled"
      BY DEF Alone
    <3>2. \A d \in Consumers \ {c} : seen[d] = << >>
      BY DEF Alone, RInv, ConsumerInv, Place
    <3>3. \A d \in Consumers : get[d] = NoTask
      BY <3>1 DEF RInv, ConsumerInv, Place
    <3>4. Elems(<< >>) = {}
      BY ElemsOfSeq, EmptySeq
    <3>5. Received \subseteq Given(c)
      BY <2>4, <3>2, <3>3, <3>4, ContentIsNatural DEF RInv, Accounted, Given, Received
    <3>6. Given(c) = Received
      BY <2>1, <3>5 DEF SeenInv
    <3>7. Elems(Shown(seen[c])) = Elems(replay)
      BY <2>1, <2>3, <3>6
    <3>8. Shown(seen[c]) \in Seq(Nat) /\ replay \in Seq(Nat)
      BY <2>1, <2>3, ContentIsNatural DEF Content
    <3>9. Shown(seen[c]) = replay
      BY <2>1, <2>3, <3>7, <3>8, SameOrder
    <3> QED
      BY <3>6, <3>9, ReceivedIsDelivered
  <2>5. CASE seen[c] = replay
    <3>1. Given(c) \subseteq Deltas
      BY <2>1, <2>5, ElemsOfSeq DEF Given
    <3>2. Elems(Shown(seen[c])) = Elems(replay)
      BY <2>3, <2>5, <3>1, ContentAssumption DEF Given
    <3>3. Shown(seen[c]) \in Seq(Nat) /\ replay \in Seq(Nat)
      BY <2>1, <2>3, ContentIsNatural DEF Content
    <3>4. Shown(seen[c]) = replay
      BY <2>1, <2>3, <3>2, <3>3, SameOrder
    <3> QED
      BY <2>5, <3>4
  <2> QED
    BY <2>1, <2>4, <2>5 DEF SeenInv
<1> QED
  BY <1>1, AlwaysRInv, PTL
=============================================================================
