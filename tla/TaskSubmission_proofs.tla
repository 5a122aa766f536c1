------------------------ MODULE TaskSubmission_proofs ------------------------
(***************************************************************************)
(* Proofs about CircuitBreaker, and about TaskSubmission which extends it, *)
(* for any set of calls, threshold, recovery window and clock bound, any   *)
(* set of submissions and any endings of a run.                            *)
(*                                                                         *)
(* The first half is about the breaker alone.  Its inductive invariant     *)
(* IInv adds to the type invariant and the two safety invariants what they *)
(* rest on: no attempt carries a generation the breaker has not reached,   *)
(* and the window that is in force covers every probe that was not         *)
(* ignored.  The second half is about the SDK.  Seen from the breaker a    *)
(* step of it is a step of CircuitBreaker or one of two that are not: a    *)
(* run that ends marks and completes its attempt at once, and a run whose  *)
(* caller is gone is admitted and given back at once.  BreakerSteps says   *)
(* so, and the rest reuses the invariant and the refinement of the first.  *)
(***************************************************************************)
EXTENDS TaskSubmission, FiniteSetTheorems, TLAPS

-----------------------------------------------------------------------------
(* The breaker: its inductive invariant *)

\* No attempt belongs to a generation the breaker has not reached.
GenerationsReached == \A c \in Calls : attempt[c].generation <= generation

\* Admissions are in the past.
AdmittedBefore == \A c \in Calls : attempt[c].at <= clock

\* A call that still runs has no verdict yet.
RunningIsPending == \A c \in Calls : Running(c) => attempt[c].verdict = "pending"

\* The recovery window of every probe that was not ignored is over, or the
\* breaker refuses callers at least until it is.
WindowCoversProbe ==
  \A c \in Calls :
    attempt[c].probe /\ attempt[c].verdict # "ignored" =>
      /\ phase = "half_open" =>
           \/ attempt[c].at + Recovery <= clock
           \/ Counts(c) /\ attempt[c].at + Recovery <= probeUntil
      /\ phase = "open" =>
           \/ attempt[c].at + Recovery <= clock
           \/ attempt[c].at + Recovery <= openUntil

IInv ==
  /\ TypeOK
  /\ GenerationsReached
  /\ SingleProbe
  /\ AdmittedBefore
  /\ RunningIsPending
  /\ WindowCoversProbe
  /\ ProbeSpacing

-----------------------------------------------------------------------------
\* An ended attempt has one of the three verdicts, whatever its marks and exit.
LEMMA VerdictType ==
  ASSUME TypeOK, NEW c \in Calls, NEW exit \in Exits
  PROVE  VerdictOf(attempt[c].outcome, exit) \in Verdicts \ {"pending"}
<1>1. attempt[c].outcome \in Outcomes
  BY DEF TypeOK, Attempts
<1>2. CASE exit = "cancelled"
  BY <1>2 DEF VerdictOf, Verdicts
<1>3. CASE exit # "cancelled" /\ attempt[c].outcome # "unmarked"
  BY <1>1, <1>3 DEF VerdictOf, Verdicts, Outcomes
<1>4. CASE exit # "cancelled" /\ attempt[c].outcome = "unmarked"
  BY <1>4 DEF VerdictOf, Verdicts, Exits
<1> QED
  BY <1>2, <1>3, <1>4

\* What a verdict does to the breaker: exactly one of five effects.
LEMMA VerdictEffect ==
  ASSUME TypeOK, NEW c \in Calls, NEW verdict \in Verdicts, Counts(c),
         RecordVerdict(verdict)
  PROVE  \/ phase = "half_open" /\ verdict = "ignored" /\ ReleaseProbe
         \/ phase # "half_open" /\ verdict = "ignored" /\ UNCHANGED breakerVars
         \/ /\ verdict = "failure"
            /\ Open
            /\ consecutiveFailures' \in Nat
            /\ phase = "half_open" \/ consecutiveFailures + 1 >= Failures
         \/ phase = "half_open" /\ verdict = "success" /\ Close
         \/ /\ phase # "half_open"
            /\ verdict = "failure" \/ verdict = "success"
            /\ consecutiveFailures' = IF verdict = "success" THEN 0
                                      ELSE consecutiveFailures + 1
            /\ verdict = "failure" => consecutiveFailures + 1 < Failures
            /\ UNCHANGED <<phase, generation, openUntil, probeUntil>>
  BY FailuresAssumption DEF RecordVerdict, TypeOK

\* The initial state satisfies the inductive invariant.
LEMMA InitIInv == Init => IInv
  BY DEF Init, IInv, TypeOK, GenerationsReached, SingleProbe, AdmittedBefore,
         RunningIsPending,
         WindowCoversProbe, ProbeSpacing, Counts, Running, Idle, Attempts,
         Phases, Outcomes, Verdicts

\* What an admission writes is an attempt.
LEMMA AdmittedType ==
  ASSUME TypeOK, NEW c \in Calls, NEW gen \in Nat, NEW isProbe \in BOOLEAN,
         Admitted(c, gen, isProbe)
  PROVE  attempt' \in [Calls -> Attempts]
<1>1. [Idle EXCEPT !.status = "running", !.generation = gen,
                   !.probe = isProbe, !.at = clock] \in Attempts
  BY DEF TypeOK, Idle, Attempts, Outcomes, Verdicts
<1> QED
  BY <1>1 DEF TypeOK, Admitted

-----------------------------------------------------------------------------
\* A running call ends with a verdict, which the breaker takes if the call
\* counts and discards otherwise.
Takes(c, verdict) ==
  /\ Running(c)
  /\ Ends(c, verdict)
  /\ clock' = clock
  /\ IF Counts(c) THEN RecordVerdict(verdict) ELSE UNCHANGED breakerVars

\* A verdict leaves every value with its type.
LEMMA EndingType ==
  ASSUME TypeOK, NEW c \in Calls, NEW verdict \in Verdicts, Takes(c, verdict)
  PROVE  TypeOK'
<1> USE DEF TypeOK
<1>1. Ends(c, verdict) /\ clock' = clock
  BY DEF Takes
<1>2. attempt' \in [Calls -> Attempts]
  BY <1>1 DEF Ends, Attempts
<1>3. verdicts' \in Seq([generation : Nat, verdict : Verdicts])
  <2>1. [generation |-> attempt[c].generation, verdict |-> verdict]
          \in [generation : Nat, verdict : Verdicts]
    BY DEF Attempts
  <2> QED
    BY <1>1, <2>1 DEF Ends
<1>4. CASE UNCHANGED breakerVars
  BY <1>1, <1>2, <1>3, <1>4 DEF breakerVars
<1>5. CASE Counts(c) /\ RecordVerdict(verdict)
  BY <1>1, <1>2, <1>3, <1>5, VerdictEffect, RecoveryAssumption
     DEF Open, Close, ReleaseProbe, Phases, breakerVars
<1> QED
  BY <1>4, <1>5 DEF Takes

-----------------------------------------------------------------------------
\* Types are preserved by every step.
LEMMA TypeStep ==
  ASSUME TypeOK, [Next]_vars
  PROVE  TypeOK'
<1> USE DEF TypeOK
<1>1. CASE Tick
  BY <1>1 DEF Tick, breakerVars
<1>2. ASSUME NEW c \in Calls, AdmitClosed(c)
      PROVE  TypeOK'
  BY <1>2, AdmittedType DEF AdmitClosed, breakerVars
<1>3. ASSUME NEW c \in Calls, Reject(c)
      PROVE  TypeOK'
  BY <1>3 DEF Reject, Idle, Attempts, Outcomes, Verdicts, breakerVars
<1>4. ASSUME NEW c \in Calls, AdmitProbe(c)
      PROVE  TypeOK'
  <2>1. generation + 1 \in Nat
    OBVIOUS
  <2>2. attempt' \in [Calls -> Attempts]
    BY <1>4, <2>1, AdmittedType, Zenon DEF AdmitProbe
  <2> QED
    BY <1>4, <2>1, <2>2, RecoveryAssumption DEF AdmitProbe, Phases
<1>5. ASSUME NEW c \in Calls, NEW outcome \in {"failure", "ignored"}, Mark(c, outcome)
      PROVE  TypeOK'
  BY <1>5 DEF Mark, Attempts, Outcomes, breakerVars
<1>6. ASSUME NEW c \in Calls, NEW exit \in Exits,
             CompleteStale(c, exit) \/ CompleteCurrent(c, exit)
      PROVE  TypeOK'
  <2> DEFINE v == VerdictOf(attempt[c].outcome, exit)
  <2>1. v \in Verdicts
    BY VerdictType
  <2>2. Takes(c, v)
    BY <1>6 DEF CompleteStale, CompleteCurrent, Counts, Takes
  <2> HIDE DEF v
  <2> QED
    BY <2>1, <2>2, EndingType
<1>7. CASE UNCHANGED vars
  BY <1>7 DEF vars, breakerVars
<1> QED
  BY <1>1, <1>2, <1>3, <1>4, <1>5, <1>6, <1>7 DEF Next

-----------------------------------------------------------------------------
(* What a step leaves in the attempts. *)

LEMMA AdmittedShape ==
  ASSUME TypeOK, NEW c \in Calls, NEW gen \in Nat, NEW isProbe \in BOOLEAN,
         Admitted(c, gen, isProbe)
  PROVE  /\ attempt'[c].status = "running"
         /\ attempt'[c].generation = gen
         /\ attempt'[c].probe = isProbe
         /\ attempt'[c].at = clock
         /\ \A d \in Calls \ {c} : attempt'[d] = attempt[d]
  BY DEF TypeOK, Admitted, Idle

LEMMA EndsShape ==
  ASSUME TypeOK, NEW c \in Calls, NEW verdict, Ends(c, verdict)
  PROVE  /\ attempt'[c].status = "done"
         /\ attempt'[c].verdict = verdict
         /\ attempt'[c].generation = attempt[c].generation
         /\ attempt'[c].probe = attempt[c].probe
         /\ attempt'[c].at = attempt[c].at
         /\ \A d \in Calls \ {c} : attempt'[d] = attempt[d]
<1>1. attempt \in [Calls -> Attempts] /\ attempt[c] \in Attempts
  BY DEF TypeOK
<1>2. attempt' = [attempt EXCEPT ![c] = [attempt[c] EXCEPT !.status = "done",
                                                          !.verdict = verdict]]
  BY <1>1 DEF Ends
<1>3. attempt'[c] = [attempt[c] EXCEPT !.status = "done", !.verdict = verdict]
  BY <1>1, <1>2
<1> QED
  BY <1>1, <1>2, <1>3 DEF Attempts

\* A step that moves the breaker to the open phase with a new generation and a
\* window that covers the probes re-establishes the invariant.
LEMMA OpeningStep ==
  ASSUME IInv, TypeOK', NEW c \in Calls, NEW verdict \in Verdicts,
         Counts(c), Ends(c, verdict), clock' = clock,
         phase' = "open", generation' = generation + 1, openUntil' \in Nat,
         \/ openUntil' = clock + Recovery
         \/ phase = "half_open" /\ verdict = "ignored"
  PROVE  IInv'
<1> USE DEF TypeOK, Attempts
<1>1. TypeOK /\ GenerationsReached /\ SingleProbe /\ AdmittedBefore
      /\ RunningIsPending /\ WindowCoversProbe /\ ProbeSpacing
  BY DEF IInv
<1>2. /\ attempt'[c].status = "done"
      /\ attempt'[c].verdict = verdict
      /\ \A d \in Calls : /\ attempt'[d].generation = attempt[d].generation
                          /\ attempt'[d].probe = attempt[d].probe
                          /\ attempt'[d].at = attempt[d].at
                          /\ d # c => attempt'[d] = attempt[d]
  BY <1>1, EndsShape
<1>3. GenerationsReached'
  BY <1>1, <1>2 DEF GenerationsReached
<1>4. SingleProbe'
  BY <1>1, <1>2 DEF SingleProbe, Counts, Running, GenerationsReached
<1>5. AdmittedBefore' /\ RunningIsPending'
  BY <1>1, <1>2 DEF AdmittedBefore, RunningIsPending, Running
<1>6. WindowCoversProbe'
  <2> SUFFICES ASSUME NEW d \in Calls,
                      attempt'[d].probe, attempt'[d].verdict # "ignored"
               PROVE  \/ attempt'[d].at + Recovery <= clock'
                      \/ attempt'[d].at + Recovery <= openUntil'
    BY DEF WindowCoversProbe
  <2>1. CASE openUntil' = clock + Recovery
    BY <1>1, <1>2, <2>1, RecoveryAssumption DEF AdmittedBefore
  <2>2. CASE phase = "half_open" /\ verdict = "ignored"
    <3>1. d # c /\ attempt[d].probe /\ attempt[d].verdict # "ignored"
      BY <1>2, <2>2
    <3>2. ~Counts(d)
      BY <1>1, <2>2, <3>1 DEF SingleProbe
    <3> QED
      BY <1>1, <1>2, <2>2, <3>1, <3>2 DEF WindowCoversProbe
  <2> QED
    BY <2>1, <2>2
<1>7. ProbeSpacing'
  <2> SUFFICES ASSUME NEW d \in Calls, NEW e \in Calls,
                      attempt'[d].probe, attempt'[e].probe,
                      attempt'[d].generation < attempt'[e].generation,
                      attempt'[d].verdict # "ignored"
               PROVE  attempt'[e].at >= attempt'[d].at + Recovery
    BY DEF ProbeSpacing
  <2>1. attempt[d].verdict # "ignored" \/ d = c
    BY <1>2
  <2>2. CASE d # c
    BY <1>1, <1>2, <2>1, <2>2 DEF ProbeSpacing
  <2>3. CASE d = c
    BY <1>1, <1>2, <2>3 DEF Counts, GenerationsReached
  <2> QED
    BY <2>2, <2>3
<1> QED
  BY <1>3, <1>4, <1>5, <1>6, <1>7 DEF IInv

\* Leaving the half-open phase for the closed one discards every attempt.
LEMMA ClosingStep ==
  ASSUME IInv, TypeOK', NEW c \in Calls, NEW verdict \in Verdicts,
         Counts(c), Ends(c, verdict), clock' = clock, Close
  PROVE  IInv'
<1> USE DEF TypeOK, Attempts
<1>1. TypeOK /\ GenerationsReached /\ AdmittedBefore /\ RunningIsPending
      /\ ProbeSpacing
  BY DEF IInv
<1>2. /\ attempt'[c].status = "done"
      /\ \A d \in Calls : /\ attempt'[d].generation = attempt[d].generation
                          /\ attempt'[d].probe = attempt[d].probe
                          /\ attempt'[d].at = attempt[d].at
                          /\ d # c => attempt'[d] = attempt[d]
  BY <1>1, EndsShape
<1>3. phase' = "closed" /\ generation' = generation + 1
  BY DEF Close
<1>4. GenerationsReached'
  BY <1>1, <1>2, <1>3 DEF GenerationsReached
<1>5. AdmittedBefore' /\ RunningIsPending'
  BY <1>1, <1>2 DEF AdmittedBefore, RunningIsPending, Running
<1>6. SingleProbe' /\ WindowCoversProbe'
  BY <1>3 DEF SingleProbe, WindowCoversProbe
<1>7. ProbeSpacing'
  <2> SUFFICES ASSUME NEW d \in Calls, NEW e \in Calls,
                      attempt'[d].probe, attempt'[e].probe,
                      attempt'[d].generation < attempt'[e].generation,
                      attempt'[d].verdict # "ignored"
               PROVE  attempt'[e].at >= attempt'[d].at + Recovery
    BY DEF ProbeSpacing
  <2>1. CASE d # c
    BY <1>1, <1>2, <2>1 DEF ProbeSpacing
  <2>2. CASE d = c
    BY <1>1, <1>2, <2>2 DEF Counts, GenerationsReached
  <2> QED
    BY <2>1, <2>2
<1> QED
  BY <1>4, <1>5, <1>6, <1>7 DEF IInv

\* An attempt that ends and leaves the breaker's phase, generation and windows
\* alone: a discarded result, or a result of the closed period that does not
\* reach the threshold.
LEMMA QuietEnd ==
  ASSUME IInv, TypeOK', NEW c \in Calls, NEW verdict \in Verdicts,
         Running(c), Ends(c, verdict), clock' = clock,
         UNCHANGED <<phase, generation, openUntil, probeUntil>>,
         phase = "closed" \/ attempt[c].generation # generation
  PROVE  IInv'
<1> USE DEF TypeOK, Attempts
<1>1. TypeOK /\ GenerationsReached /\ SingleProbe /\ AdmittedBefore
      /\ RunningIsPending /\ WindowCoversProbe /\ ProbeSpacing
  BY DEF IInv
<1>2. /\ attempt'[c].status = "done"
      /\ attempt'[c].verdict = verdict
      /\ \A d \in Calls : /\ attempt'[d].generation = attempt[d].generation
                          /\ attempt'[d].probe = attempt[d].probe
                          /\ attempt'[d].at = attempt[d].at
                          /\ d # c => attempt'[d] = attempt[d]
  BY <1>1, EndsShape
<1>3. GenerationsReached' /\ AdmittedBefore' /\ RunningIsPending'
  BY <1>1, <1>2 DEF GenerationsReached, AdmittedBefore, RunningIsPending, Running
<1>4. ASSUME phase # "closed", NEW d \in Calls
      PROVE  Counts(d)' <=> Counts(d)
  BY <1>1, <1>2, <1>4 DEF Counts, Running
<1>5. SingleProbe'
  BY <1>1, <1>2, <1>4 DEF SingleProbe
<1>6. \A d \in Calls : attempt'[d].verdict # "ignored" => attempt[d].verdict # "ignored"
  BY <1>1, <1>2 DEF RunningIsPending
<1>7. WindowCoversProbe'
  <2> SUFFICES ASSUME NEW d \in Calls, phase # "closed",
                      attempt'[d].probe, attempt'[d].verdict # "ignored"
               PROVE  /\ phase = "half_open" =>
                           \/ attempt[d].at + Recovery <= clock
                           \/ Counts(d) /\ attempt[d].at + Recovery <= probeUntil
                      /\ phase = "open" =>
                           \/ attempt[d].at + Recovery <= clock
                           \/ attempt[d].at + Recovery <= openUntil
    BY <1>2, <1>4 DEF WindowCoversProbe
  <2> QED
    BY <1>1, <1>2, <1>6 DEF WindowCoversProbe
<1>8. ProbeSpacing'
  BY <1>1, <1>2, <1>6 DEF ProbeSpacing
<1> QED
  BY <1>1, <1>3, <1>5, <1>7, <1>8 DEF IInv

-----------------------------------------------------------------------------
(* Every step preserves the inductive invariant. *)

LEMMA TickStep == ASSUME IInv, Tick PROVE IInv'
<1>1. TypeOK'
  BY TypeStep DEF IInv, Next
<1>2. clock' = clock + 1 /\ attempt' = attempt /\ UNCHANGED breakerVars
  BY DEF Tick
<1>3. AdmittedBefore'
  BY <1>2 DEF IInv, TypeOK, Attempts, AdmittedBefore
<1>4. WindowCoversProbe'
  BY <1>2, RecoveryAssumption
     DEF IInv, TypeOK, Attempts, breakerVars, WindowCoversProbe, Counts, Running
<1>5. GenerationsReached' /\ SingleProbe' /\ RunningIsPending' /\ ProbeSpacing'
  BY <1>2 DEF IInv, breakerVars, GenerationsReached, SingleProbe, RunningIsPending,
       ProbeSpacing, Counts, Running
<1> QED
  BY <1>1, <1>3, <1>4, <1>5 DEF IInv

LEMMA AdmitClosedStep ==
  ASSUME IInv, NEW c \in Calls, AdmitClosed(c)
  PROVE  IInv'
<1> USE DEF TypeOK, Attempts
<1>1. TypeOK'
  BY TypeStep DEF IInv, Next
<1>2. /\ attempt'[c].generation = generation
      /\ attempt'[c].probe = FALSE
      /\ attempt'[c].at = clock
      /\ attempt'[c].verdict = "pending"
      /\ \A d \in Calls \ {c} : attempt'[d] = attempt[d]
  BY DEF IInv, AdmitClosed, Admitted, Idle
<1>3. phase = "closed" /\ UNCHANGED <<phase, generation, clock>>
  BY DEF AdmitClosed, breakerVars
<1>4. GenerationsReached'
  BY <1>2, <1>3 DEF IInv, GenerationsReached
<1>5. AdmittedBefore' /\ RunningIsPending'
  <2>1. \A d \in Calls : attempt'[d].at <= clock'
    BY <1>2, <1>3 DEF IInv, AdmittedBefore
  <2>2. \A d \in Calls \ {c} : Running(d)' => attempt'[d].verdict = "pending"
    BY <1>2 DEF IInv, RunningIsPending, Running
  <2> QED
    BY <1>2, <2>1, <2>2 DEF AdmittedBefore, RunningIsPending
<1>6. SingleProbe' /\ WindowCoversProbe'
  BY <1>3 DEF SingleProbe, WindowCoversProbe
<1>7. ProbeSpacing'
  BY <1>2 DEF IInv, ProbeSpacing
<1> QED
  BY <1>1, <1>4, <1>5, <1>6, <1>7 DEF IInv

LEMMA RejectStep ==
  ASSUME IInv, NEW c \in Calls, Reject(c)
  PROVE  IInv'
<1> USE DEF TypeOK, Attempts
<1>1. TypeOK'
  BY TypeStep DEF IInv, Next
<1>2. /\ attempt'[c].status = "rejected"
      /\ attempt'[c].generation = 0
      /\ attempt'[c].probe = FALSE
      /\ attempt'[c].at = 0
      /\ \A d \in Calls \ {c} : attempt'[d] = attempt[d]
  BY DEF IInv, Reject, Idle
<1>3. UNCHANGED <<phase, generation, openUntil, probeUntil, clock>> /\ ~Running(c)
  BY DEF Reject, breakerVars, Asking, Running
<1>4. GenerationsReached' /\ AdmittedBefore' /\ RunningIsPending'
  BY <1>2, <1>3 DEF IInv, GenerationsReached, AdmittedBefore, RunningIsPending, Running
<1>5. \A d \in Calls : Counts(d)' <=> Counts(d)
  BY <1>2, <1>3 DEF Counts, Running
<1>6. SingleProbe'
  BY <1>2, <1>3, <1>5 DEF IInv, SingleProbe, Counts
<1>7. WindowCoversProbe'
  BY <1>2, <1>3, <1>5 DEF IInv, WindowCoversProbe
<1>8. ProbeSpacing'
  BY <1>2 DEF IInv, ProbeSpacing
<1> QED
  BY <1>1, <1>4, <1>6, <1>7, <1>8 DEF IInv

LEMMA AdmitProbeStep ==
  ASSUME IInv, NEW c \in Calls, AdmitProbe(c)
  PROVE  IInv'
<1> USE DEF TypeOK, Attempts
<1>1. TypeOK'
  BY TypeStep DEF IInv, Next
<1>2. /\ attempt'[c].status = "running"
      /\ attempt'[c].generation = generation + 1
      /\ attempt'[c].probe = TRUE
      /\ attempt'[c].at = clock
      /\ attempt'[c].verdict = "pending"
      /\ \A d \in Calls \ {c} : attempt'[d] = attempt[d]
  BY DEF IInv, AdmitProbe, Admitted, Idle
<1>3. /\ phase' = "half_open" /\ generation' = generation + 1
      /\ probeUntil' = clock + Recovery /\ clock' = clock
  BY DEF AdmitProbe
<1>4. GenerationsReached' /\ AdmittedBefore' /\ RunningIsPending'
  <2>1. GenerationsReached'
    BY <1>2, <1>3 DEF IInv, GenerationsReached
  <2>2. AdmittedBefore'
    BY <1>2, <1>3 DEF IInv, AdmittedBefore
  <2>3. \A d \in Calls \ {c} : Running(d)' => attempt'[d].verdict = "pending"
    BY <1>2 DEF IInv, RunningIsPending, Running
  <2> QED
    BY <1>2, <2>1, <2>2, <2>3 DEF RunningIsPending
<1>5. \A d \in Calls : Counts(d)' <=> d = c
  BY <1>2, <1>3 DEF IInv, Counts, Running, GenerationsReached
<1>6. SingleProbe'
  BY <1>2, <1>3, <1>5 DEF SingleProbe
<1>7. \A d \in Calls \ {c} : attempt[d].probe /\ attempt[d].verdict # "ignored"
                             => attempt[d].at + Recovery <= clock
  <2> SUFFICES ASSUME NEW d \in Calls \ {c},
                      attempt[d].probe, attempt[d].verdict # "ignored"
               PROVE  attempt[d].at + Recovery <= clock
    OBVIOUS
  <2>1. CASE phase = "open"
    BY <2>1, RecoveryAssumption DEF IInv, WindowCoversProbe, AdmitProbe, RefusesUntil
  <2>2. CASE phase = "half_open"
    BY <2>2, RecoveryAssumption DEF IInv, WindowCoversProbe, AdmitProbe, RefusesUntil
  <2> QED
    BY <2>1, <2>2 DEF IInv, AdmitProbe, Phases
<1>8. WindowCoversProbe'
  <2> SUFFICES ASSUME NEW d \in Calls,
                      attempt'[d].probe, attempt'[d].verdict # "ignored"
               PROVE  \/ attempt'[d].at + Recovery <= clock'
                      \/ Counts(d)' /\ attempt'[d].at + Recovery <= probeUntil'
    BY <1>3 DEF WindowCoversProbe
  <2>1. CASE d = c
    <3>1. clock + Recovery <= clock + Recovery
      BY RecoveryAssumption DEF IInv
    <3> QED
      BY <1>2, <1>3, <1>5, <2>1, <3>1
  <2>2. CASE d # c
    BY <1>2, <1>3, <1>7, <2>2
  <2> QED
    BY <2>1, <2>2
<1>9. ProbeSpacing'
  <2> SUFFICES ASSUME NEW d \in Calls, NEW e \in Calls,
                      attempt'[d].probe, attempt'[e].probe,
                      attempt'[d].generation < attempt'[e].generation,
                      attempt'[d].verdict # "ignored"
               PROVE  attempt'[e].at >= attempt'[d].at + Recovery
    BY DEF ProbeSpacing
  <2>1. d # c
    <3>1. attempt'[e].generation <= generation + 1
      <4>1. CASE e = c
        BY <1>2, <4>1 DEF IInv
      <4>2. CASE e # c
        BY <1>2, <4>2 DEF IInv, GenerationsReached
      <4> QED
        BY <4>1, <4>2
    <3>2. attempt'[e].generation \in Nat /\ generation \in Nat
      BY <1>1 DEF IInv
    <3> QED
      BY <1>2, <3>1, <3>2
  <2>2. CASE e = c
    BY <1>2, <1>7, <2>1, <2>2, RecoveryAssumption DEF IInv
  <2>3. CASE e # c
    BY <1>2, <2>1, <2>3 DEF IInv, ProbeSpacing
  <2> QED
    BY <2>2, <2>3
<1> QED
  BY <1>1, <1>4, <1>6, <1>8, <1>9 DEF IInv

LEMMA MarkStep ==
  ASSUME IInv, NEW c \in Calls, NEW outcome \in {"failure", "ignored"},
         Mark(c, outcome)
  PROVE  IInv'
<1> USE DEF TypeOK, Attempts
<1>1. TypeOK'
  BY TypeStep DEF IInv, Next
<1>2. /\ UNCHANGED <<phase, generation, openUntil, probeUntil, clock>>
      /\ \A d \in Calls : /\ attempt'[d].status = attempt[d].status
                          /\ attempt'[d].generation = attempt[d].generation
                          /\ attempt'[d].verdict = attempt[d].verdict
                          /\ attempt'[d].probe = attempt[d].probe
                          /\ attempt'[d].at = attempt[d].at
  BY DEF IInv, Mark, breakerVars
<1>3. GenerationsReached' /\ AdmittedBefore' /\ RunningIsPending'
  BY <1>2 DEF IInv, GenerationsReached, AdmittedBefore, RunningIsPending, Running
<1>4. \A d \in Calls : Counts(d)' <=> Counts(d)
  BY <1>2 DEF Counts, Running
<1>5. SingleProbe' /\ WindowCoversProbe' /\ ProbeSpacing'
  BY <1>2, <1>4 DEF IInv, SingleProbe, WindowCoversProbe, ProbeSpacing
<1> QED
  BY <1>1, <1>3, <1>5 DEF IInv

\* A verdict that is taken or discarded preserves the invariant.
LEMMA EndingStep ==
  ASSUME IInv, NEW c \in Calls, NEW verdict \in Verdicts, Takes(c, verdict)
  PROVE  IInv'
<1>1. TypeOK /\ TypeOK'
  BY EndingType DEF IInv
<1>2. Ends(c, verdict) /\ clock' = clock /\ Running(c)
  BY DEF Takes
<1>3. CASE ~Counts(c)
  <2>1. /\ UNCHANGED <<phase, generation, openUntil, probeUntil>>
        /\ attempt[c].generation # generation
    BY <1>2, <1>3 DEF Takes, Counts, breakerVars
  <2> QED
    BY <1>1, <1>2, <2>1, QuietEnd
<1>4. CASE Counts(c)
  <2>1. RecordVerdict(verdict)
    BY <1>4 DEF Takes
  <2>2. phase # "open"
    BY <1>4 DEF IInv, SingleProbe
  <2>3. CASE UNCHANGED <<phase, generation, openUntil, probeUntil>> /\ phase # "half_open"
    <3>1. phase = "closed"
      BY <1>1, <2>2, <2>3 DEF TypeOK, Phases
    <3> QED
      BY <1>1, <1>2, <2>3, <3>1, QuietEnd
  <2>4. CASE ReleaseProbe /\ phase = "half_open" /\ verdict = "ignored"
    BY <1>1, <1>2, <1>4, <2>4, OpeningStep DEF ReleaseProbe, TypeOK
  <2>5. CASE Open
    BY <1>1, <1>2, <1>4, <2>5, OpeningStep DEF Open, TypeOK
  <2>6. CASE Close
    BY <1>1, <1>2, <1>4, <2>6, ClosingStep
  <2> QED
    BY <1>1, <1>4, <2>1, <2>3, <2>4, <2>5, <2>6, VerdictEffect DEF breakerVars
<1> QED
  BY <1>3, <1>4

LEMMA CompleteStep ==
  ASSUME IInv, NEW c \in Calls, NEW exit \in Exits,
         CompleteStale(c, exit) \/ CompleteCurrent(c, exit)
  PROVE  IInv'
<1> DEFINE v == VerdictOf(attempt[c].outcome, exit)
<1>1. v \in Verdicts
  BY VerdictType DEF IInv
<1>2. Takes(c, v)
  BY DEF CompleteStale, CompleteCurrent, Counts, Takes
<1> HIDE DEF v
<1> QED
  BY <1>1, <1>2, EndingStep

LEMMA IInvStep == IInv /\ [Next]_vars => IInv'
<1> SUFFICES ASSUME IInv, [Next]_vars PROVE IInv'
  OBVIOUS
<1>1. CASE UNCHANGED vars
  <2>1. TypeOK'
    BY TypeStep DEF IInv
  <2> QED
    BY <1>1, <2>1 DEF IInv, vars, breakerVars, GenerationsReached, SingleProbe,
         AdmittedBefore, RunningIsPending, WindowCoversProbe, ProbeSpacing,
         Counts, Running
<1> QED
  BY <1>1, TickStep, AdmitClosedStep, RejectStep, AdmitProbeStep, MarkStep,
     CompleteStep DEF Next

-----------------------------------------------------------------------------
(* The theorems *)

LEMMA AlwaysIInv == Spec => []IInv
<1>1. Init => IInv
  BY InitIInv
<1>2. IInv /\ [Next]_vars => IInv'
  BY IInvStep
<1> QED
  BY <1>1, <1>2, PTL DEF Spec

\* Every value the breaker keeps has its type.
THEOREM TypeCorrect == Spec => []TypeOK
<1>1. IInv => TypeOK
  BY DEF IInv
<1> QED
  BY <1>1, AlwaysIInv, PTL

\* At most one running call counts while half open, and it is the probe; none
\* counts while open.
THEOREM ProbeIsSingle == Spec => []SingleProbe
<1>1. IInv => SingleProbe
  BY DEF IInv
<1> QED
  BY <1>1, AlwaysIInv, PTL

\* Probes that were not ignored are a recovery window apart.
THEOREM ProbesAreSpaced == Spec => []ProbeSpacing
<1>1. IInv => ProbeSpacing
  BY DEF IInv
<1> QED
  BY <1>1, AlwaysIInv, PTL

\* Only the success of the call admitted last closes the breaker.
THEOREM ClosedByLatestProbe == Spec => ClosesOnLatestProbe
<1> DEFINE ClosingCall(c) ==
      /\ Running(c) /\ attempt'[c].verdict = "success"
      /\ attempt[c].probe
      /\ \A d \in Calls : attempt[d].generation <= attempt[c].generation
<1>1. ASSUME IInv, Next, phase # "closed", phase' = "closed"
      PROVE  \E c \in Calls : ClosingCall(c)
  <2>1. PICK c \in Calls : \E exit \in Exits : CompleteCurrent(c, exit)
    BY <1>1 DEF Next, Tick, AdmitClosed, Reject, AdmitProbe, Mark, CompleteStale,
         breakerVars
  <2>2. PICK exit \in Exits : CompleteCurrent(c, exit)
    BY <2>1
  <2> DEFINE v == VerdictOf(attempt[c].outcome, exit)
  <2>3. TypeOK /\ v \in Verdicts
    BY <1>1, VerdictType DEF IInv
  <2>4. Counts(c) /\ RecordVerdict(v) /\ Ends(c, v)
    BY <2>2 DEF CompleteCurrent
  <2> HIDE DEF v
  <2>5. phase = "half_open" /\ v = "success"
    BY <1>1, <2>3, <2>4, VerdictEffect DEF breakerVars, Open, ReleaseProbe
  <2>6. attempt'[c].verdict = "success"
    BY <2>3, <2>4, <2>5, EndsShape
  <2>7. attempt[c].probe
    BY <1>1, <2>4, <2>5 DEF IInv, SingleProbe
  <2>8. \A d \in Calls : attempt[d].generation <= attempt[c].generation
    BY <1>1, <2>4 DEF IInv, GenerationsReached, Counts
  <2> QED
    BY <2>4, <2>6, <2>7, <2>8 DEF Counts
<1>2. IInv /\ [Next]_vars =>
        [phase # "closed" /\ phase' = "closed" => \E c \in Calls : ClosingCall(c)]_vars
  BY <1>1
<1> QED
  BY <1>2, AlwaysIInv, PTL DEF Spec, ClosesOnLatestProbe

-----------------------------------------------------------------------------
(* The failure counter and the history of the verdicts *)

\* No verdict belongs to a generation the breaker has not reached; so the history
\* of a generation begins empty.
VerdictsReached == \A i \in 1 .. Len(verdicts) : verdicts[i].generation <= generation

StreakInv == VerdictsReached /\ StreakIsHistory

LEMMA StreakAtFirst == Init => StreakInv
<1> SUFFICES ASSUME Init PROVE StreakInv
  OBVIOUS
<1>1. Len(verdicts) = 0
  BY DEF Init
<1>2. FailuresInARow = {}
  BY <1>1 DEF FailuresInARow, CountedVerdicts
<1> QED
  BY <1>1, <1>2, FS_EmptySet, FailuresAssumption
  DEF Init, StreakInv, VerdictsReached, StreakIsHistory

LEMMA HistoryTyped ==
  ASSUME TypeOK
  PROVE  \A i \in 1 .. Len(verdicts) :
           verdicts[i] \in [generation : Nat, verdict : Verdicts] /\ verdicts[i].generation \in Nat
<1> DEFINE R == [generation : Nat, verdict : Verdicts]
<1>1. \A v \in R : v.generation \in Nat
  OBVIOUS
<1>2. verdicts \in Seq(R)
  BY DEF TypeOK
<1> HIDE DEF R
<1>3. \A i \in 1 .. Len(verdicts) : verdicts[i] \in R
  BY <1>2
<1> QED
  BY <1>1, <1>3 DEF R

\* No verdict, and the same closed period or none.
LEMMA StreakKept ==
  ASSUME TypeOK, StreakInv, verdicts' = verdicts,
         \/ UNCHANGED <<phase, generation, consecutiveFailures>>
         \/ phase' # "closed" /\ generation' \in Nat /\ generation <= generation'
  PROVE  StreakInv'
<1>1. \A i \in 1 .. Len(verdicts) : verdicts[i].generation \in Nat
  BY HistoryTyped
<1>2. VerdictsReached'
  BY <1>1 DEF TypeOK, StreakInv, VerdictsReached
<1>3. StreakIsHistory'
  BY DEF StreakInv, StreakIsHistory, FailuresInARow, CountedVerdicts
<1> QED
  BY <1>2, <1>3 DEF StreakInv

\* What a verdict that is appended to the history adds to the counted ones.
LEMMA AppendVerdict ==
  ASSUME TypeOK, NEW v \in [generation : Nat, verdict : Verdicts],
         verdicts' = Append(verdicts, v)
  PROVE  /\ Len(verdicts) \in Nat /\ Len(verdicts') = Len(verdicts) + 1
         /\ verdicts'[Len(verdicts) + 1] = v
         /\ \A i \in 1 .. Len(verdicts) :
              verdicts'[i] = verdicts[i] /\ verdicts[i].generation \in Nat
         /\ 1 .. Len(verdicts') = (1 .. Len(verdicts)) \cup {Len(verdicts) + 1}
<1> DEFINE R == [generation : Nat, verdict : Verdicts]
<1>1. verdicts \in Seq(R) /\ v \in R
  BY DEF TypeOK
<1> HIDE DEF R
<1>2. /\ Len(verdicts) \in Nat /\ Len(verdicts') = Len(verdicts) + 1
      /\ verdicts'[Len(verdicts) + 1] = v
      /\ \A i \in 1 .. Len(verdicts) : verdicts'[i] = verdicts[i]
  BY <1>1
<1>3. 1 .. Len(verdicts) + 1 = (1 .. Len(verdicts)) \cup {Len(verdicts) + 1}
  BY <1>2
<1> QED
  BY <1>2, <1>3, HistoryTyped

LEMMA StreakAppend ==
  ASSUME TypeOK, TypeOK', StreakInv,
         NEW v \in [generation : Nat, verdict : Verdicts],
         verdicts' = Append(verdicts, v),
         v.generation <= generation', generation <= generation',
         \/ phase' # "closed"
         \/ generation < generation' /\ v.generation < generation' /\ consecutiveFailures' = 0
         \/ /\ UNCHANGED <<phase, generation, consecutiveFailures>>
            /\ v.generation # generation \/ v.verdict = "ignored"
         \/ /\ UNCHANGED <<phase, generation>>
            /\ v.generation = generation /\ v.verdict = "failure"
            /\ consecutiveFailures' = consecutiveFailures + 1
            /\ consecutiveFailures + 1 < Failures
         \/ /\ UNCHANGED <<phase, generation>>
            /\ v.generation = generation /\ v.verdict = "success"
            /\ consecutiveFailures' = 0
  PROVE  StreakInv'
<1> DEFINE last == Len(verdicts) + 1
<1>1. /\ Len(verdicts) \in Nat
      /\ verdicts'[last] = v
      /\ \A i \in 1 .. Len(verdicts) :
           verdicts'[i] = verdicts[i] /\ verdicts[i].generation \in Nat /\ i < last
      /\ 1 .. Len(verdicts') = (1 .. Len(verdicts)) \cup {last}
      /\ last \notin 1 .. Len(verdicts) /\ last \in Nat
  BY AppendVerdict
<1>2. generation \in Nat /\ generation' \in Nat /\ consecutiveFailures \in Nat
  BY DEF TypeOK
<1> HIDE DEF last
<1>3. VerdictsReached'
  BY <1>1, <1>2 DEF StreakInv, VerdictsReached
<1>4. /\ FailuresInARow \subseteq 1 .. Len(verdicts)
      /\ IsFiniteSet(FailuresInARow)
      /\ last \notin FailuresInARow
  <2>1. FailuresInARow \subseteq 1 .. Len(verdicts)
    BY DEF FailuresInARow, CountedVerdicts
  <2>2. IsFiniteSet(1 .. Len(verdicts))
    BY <1>1, FS_Interval
  <2> QED
    BY <1>1, <2>1, <2>2, FS_Subset
<1>5. phase' = "closed" =>
        consecutiveFailures' = Cardinality(FailuresInARow') /\ consecutiveFailures' < Failures
  <2> SUFFICES ASSUME phase' = "closed"
               PROVE  consecutiveFailures' = Cardinality(FailuresInARow')
                      /\ consecutiveFailures' < Failures
    OBVIOUS
  <2>1. CASE generation < generation' /\ v.generation < generation' /\ consecutiveFailures' = 0
    <3>1. CountedVerdicts' = {}
      BY <1>1, <1>2, <2>1 DEF CountedVerdicts, StreakInv, VerdictsReached
    <3>2. FailuresInARow' = {}
      BY <3>1 DEF FailuresInARow
    <3> QED
      BY <2>1, <3>2, FS_EmptySet, FailuresAssumption
  <2>2. CASE /\ UNCHANGED <<phase, generation, consecutiveFailures>>
             /\ v.generation # generation \/ v.verdict = "ignored"
    <3>1. CountedVerdicts' = CountedVerdicts
      BY <1>1, <2>2 DEF CountedVerdicts
    <3>2. \A i \in CountedVerdicts : verdicts'[i] = verdicts[i]
      BY <1>1 DEF CountedVerdicts
    <3>3. FailuresInARow' = FailuresInARow
      BY <3>1, <3>2 DEF FailuresInARow
    <3> QED
      BY <2>2, <3>3 DEF StreakInv, StreakIsHistory
  <2>3. CASE /\ UNCHANGED <<phase, generation>>
             /\ v.generation = generation /\ v.verdict = "failure"
             /\ consecutiveFailures' = consecutiveFailures + 1
             /\ consecutiveFailures + 1 < Failures
    <3>1. CountedVerdicts' = CountedVerdicts \cup {last}
      BY <1>1, <2>3 DEF CountedVerdicts
    <3>2. \A i \in CountedVerdicts : verdicts'[i] = verdicts[i] /\ i < last /\ i \in Nat
      BY <1>1 DEF CountedVerdicts
    <3>3. FailuresInARow' = FailuresInARow \cup {last}
      <4>1. \A j \in CountedVerdicts' : j = last \/ (j \in CountedVerdicts /\ j < last /\ ~(last <= j))
        BY <1>1, <3>1, <3>2
      <4>2. last \in FailuresInARow'
        BY <1>1, <2>3, <3>1, <4>1 DEF FailuresInARow
      <4>3. ASSUME NEW i \in CountedVerdicts PROVE i \in FailuresInARow' <=> i \in FailuresInARow
        BY <1>1, <2>3, <3>1, <3>2 DEF FailuresInARow
      <4> QED
        BY <3>1, <4>2, <4>3 DEF FailuresInARow
    <3>4. Cardinality(FailuresInARow') = Cardinality(FailuresInARow) + 1
      BY <1>4, <3>3, FS_AddElement
    <3> QED
      BY <2>3, <3>4 DEF StreakInv, StreakIsHistory
  <2>4. CASE /\ UNCHANGED <<phase, generation>>
             /\ v.generation = generation /\ v.verdict = "success"
             /\ consecutiveFailures' = 0
    <3>1. last \in CountedVerdicts' /\ verdicts'[last].verdict # "failure"
      BY <1>1, <2>4 DEF CountedVerdicts
    <3>2. \A i \in CountedVerdicts' : i <= last
      BY <1>1 DEF CountedVerdicts
    <3>3. FailuresInARow' = {}
      BY <3>1, <3>2 DEF FailuresInARow
    <3> QED
      BY <2>4, <3>3, FS_EmptySet, FailuresAssumption
  <2> QED
    BY <2>1, <2>2, <2>3, <2>4
<1> QED
  BY <1>3, <1>5 DEF StreakInv, StreakIsHistory

\* A verdict the breaker takes or discards.
LEMMA StreakOfEnding ==
  ASSUME IInv, StreakInv, NEW c \in Calls, NEW verdict \in Verdicts, Takes(c, verdict)
  PROVE  StreakInv'
<1> DEFINE v == [generation |-> attempt[c].generation, verdict |-> verdict]
<1>1. TypeOK /\ TypeOK' /\ generation \in Nat /\ consecutiveFailures \in Nat
  BY EndingType DEF IInv, TypeOK
<1>2. /\ v \in [generation : Nat, verdict : Verdicts]
      /\ v.generation = attempt[c].generation /\ v.verdict = verdict
      /\ v.generation <= generation
  BY <1>1 DEF TypeOK, Attempts, IInv, GenerationsReached
<1>3. verdicts' = Append(verdicts, v)
  BY DEF Takes, Ends
<1> HIDE DEF v
<1>4. CASE ~Counts(c)
  <2>1. UNCHANGED <<phase, generation, consecutiveFailures>> /\ v.generation # generation
    BY <1>2, <1>4 DEF Takes, breakerVars, Counts
  <2> QED
    BY <1>1, <1>2, <1>3, <2>1, StreakAppend
<1>5. CASE Counts(c)
  <2>1. RecordVerdict(verdict) /\ v.generation = generation
    BY <1>2, <1>5 DEF Takes, Counts
  <2>2. \/ phase' = "open" /\ generation' = generation + 1
        \/ UNCHANGED <<phase, generation, consecutiveFailures>> /\ verdict = "ignored"
        \/ generation' = generation + 1 /\ consecutiveFailures' = 0
        \/ /\ UNCHANGED <<phase, generation>>
           /\ verdict = "failure" \/ verdict = "success"
           /\ consecutiveFailures' = IF verdict = "success" THEN 0 ELSE consecutiveFailures + 1
           /\ verdict = "failure" => consecutiveFailures + 1 < Failures
    BY <1>1, <1>5, <2>1, VerdictEffect DEF ReleaseProbe, Open, Close, breakerVars
  <2> QED
    BY <1>1, <1>2, <1>3, <2>1, <2>2, StreakAppend
<1> QED
  BY <1>4, <1>5

\* Admissions and the clock do not touch the history.
LEMMA StreakOfOthers ==
  ASSUME TypeOK, StreakInv,
         \/ UNCHANGED vars
         \/ Tick
         \/ \E c \in Calls : AdmitClosed(c) \/ AdmitProbe(c) \/ Reject(c)
         \/ \E c \in Calls, outcome \in {"failure", "ignored"} : Mark(c, outcome)
  PROVE  StreakInv'
<1>1. generation \in Nat
  BY DEF TypeOK
<1>2. \/ verdicts' = verdicts /\ UNCHANGED <<phase, generation, consecutiveFailures>>
      \/ verdicts' = verdicts /\ phase' = "half_open" /\ generation' = generation + 1
  BY DEF vars, breakerVars, Tick, AdmitClosed, AdmitProbe, Reject, Mark
<1> QED
  BY <1>1, <1>2, StreakKept

LEMMA StreakStep == IInv /\ StreakInv /\ [Next]_vars => StreakInv'
<1> SUFFICES ASSUME IInv, StreakInv, [Next]_vars PROVE StreakInv'
  OBVIOUS
<1>1. TypeOK
  BY DEF IInv
<1>2. ASSUME NEW c \in Calls, NEW exit \in Exits,
             CompleteStale(c, exit) \/ CompleteCurrent(c, exit)
      PROVE  StreakInv'
  <2> DEFINE v == VerdictOf(attempt[c].outcome, exit)
  <2>1. v \in Verdicts
    BY <1>1, VerdictType
  <2>2. Takes(c, v)
    BY <1>2 DEF CompleteStale, CompleteCurrent, Counts, Takes
  <2> HIDE DEF v
  <2> QED
    BY <2>1, <2>2, StreakOfEnding
<1> QED
  BY <1>1, <1>2, StreakOfOthers DEF Next

\* The counter is the number of failures in a row among the verdicts the closed
\* period has counted, and the breaker opens at its threshold.
THEOREM CounterIsHistory == Spec => []StreakIsHistory
<1>1. StreakInv => StreakIsHistory
  BY DEF StreakInv
<1> QED
  BY <1>1, StreakAtFirst, StreakStep, AlwaysIInv, PTL DEF Spec

-----------------------------------------------------------------------------
(* The breaker implements the abstract one.  Each lemma maps one kind of    *)
(* step; the state functions of the mapping have names of their own here.   *)

InCounting == {c \in Calls : Counts(c)}
Streak == IF phase = "closed" THEN consecutiveFailures ELSE 0
mapped == <<phase, Streak, InCounting, Waiting>>

\* What is left of the window, phase by phase.
LEMMA WaitingByPhase ==
  ASSUME TypeOK
  PROVE  /\ phase = "closed" => Waiting = 0
         /\ phase = "open" => Waiting = IF clock < openUntil THEN openUntil - clock ELSE 0
         /\ phase = "half_open" => Waiting = IF clock < probeUntil THEN probeUntil - clock ELSE 0
  BY DEF TypeOK, Phases, Waiting, RefusesUntil

LEMMA MapTick ==
  ASSUME IInv, Tick
  PROVE  Promise!Tick \/ UNCHANGED mapped
<1>1. UNCHANGED <<phase, Streak, InCounting>>
  BY DEF Tick, breakerVars, Streak, InCounting, Counts, Running
<1>2. RefusesUntil' = RefusesUntil /\ clock' = clock + 1
  BY DEF Tick, breakerVars, RefusesUntil
<1>3. RefusesUntil \in Nat /\ clock \in Nat
  BY DEF IInv, TypeOK, Phases, RefusesUntil
<1>4. CASE clock < RefusesUntil
  BY <1>1, <1>2, <1>3, <1>4 DEF Promise!Tick, Waiting, Streak, InCounting
<1>5. CASE ~(clock < RefusesUntil)
  BY <1>1, <1>2, <1>3, <1>5 DEF mapped, Waiting
<1> QED
  BY <1>4, <1>5

LEMMA MapAdmitClosed ==
  ASSUME IInv, NEW c \in Calls, AdmitClosed(c)
  PROVE  Promise!Admit(c)
<1>1. /\ attempt'[c].status = "running" /\ attempt'[c].generation = generation
      /\ \A d \in Calls \ {c} : attempt'[d] = attempt[d]
  BY DEF IInv, TypeOK, AdmitClosed, Admitted, Idle
<1>2. phase = "closed" /\ ~Counts(c) /\ UNCHANGED breakerVars /\ clock' = clock
  BY DEF AdmitClosed, Asking, Counts, Running
<1>3. InCounting' = InCounting \cup {c}
  BY <1>1, <1>2 DEF InCounting, Counts, Running, breakerVars
<1>4. UNCHANGED <<phase, Streak, Waiting>>
  BY <1>2 DEF Streak, Waiting, RefusesUntil, breakerVars
<1> QED
  BY <1>2, <1>3, <1>4 DEF Promise!Admit, Promise!AdmitFreely, InCounting, Streak

LEMMA MapAdmitProbe ==
  ASSUME IInv, IInv', NEW c \in Calls, AdmitProbe(c)
  PROVE  Promise!Admit(c)
<1>1. /\ attempt'[c].status = "running" /\ attempt'[c].generation = generation + 1
      /\ \A d \in Calls \ {c} : attempt'[d] = attempt[d]
  BY DEF IInv, TypeOK, AdmitProbe, Admitted, Idle
<1>2. /\ phase # "closed" /\ phase' = "half_open" /\ ~Counts(c)
      /\ generation' = generation + 1 /\ clock' = clock
      /\ probeUntil' = clock + Recovery
  BY DEF AdmitProbe, Asking, Counts, Running
<1>3. InCounting' = {c}
  BY <1>1, <1>2 DEF IInv, TypeOK, Attempts, GenerationsReached, InCounting, Counts, Running
<1>4. Streak' = Streak
  BY <1>2 DEF Streak
<1>5. Waiting = 0
  BY DEF AdmitProbe, Waiting, IInv, TypeOK, Phases, RefusesUntil
<1>6. Waiting' = Recovery
  BY <1>2, RecoveryAssumption DEF Waiting, RefusesUntil, IInv, TypeOK
<1> QED
  BY <1>2, <1>3, <1>4, <1>5, <1>6 DEF Promise!Admit, Promise!AdmitProbe, InCounting, Streak

\* Steps that only touch marks, rejections or discarded results.
LEMMA MapStutter ==
  ASSUME IInv, NEW c \in Calls,
         \/ Reject(c)
         \/ \E outcome \in {"failure", "ignored"} : Mark(c, outcome)
         \/ \E exit \in Exits : CompleteStale(c, exit)
  PROVE  UNCHANGED mapped
<1>1. UNCHANGED breakerVars /\ clock' = clock
  BY DEF Reject, Mark, CompleteStale
<1>2. attempt \in [Calls -> Attempts]
  BY DEF IInv, TypeOK
<1>3. \A d \in Calls : Counts(d)' <=> Counts(d)
  <2>1. CASE Reject(c)
    BY <1>1, <1>2, <2>1 DEF Reject, Asking, Counts, Running, Idle, breakerVars
  <2>2. CASE \E outcome \in {"failure", "ignored"} : Mark(c, outcome)
    BY <1>1, <1>2, <2>2 DEF Mark, Counts, Running, Attempts, breakerVars
  <2>3. CASE \E exit \in Exits : CompleteStale(c, exit)
    <3>1. PICK exit \in Exits : CompleteStale(c, exit)
      BY <2>3
    <3>2. Ends(c, VerdictOf(attempt[c].outcome, exit)) /\ ~Counts(c)
      BY <3>1 DEF CompleteStale, Counts
    <3> QED
      BY <1>1, <3>2, EndsShape DEF IInv, Counts, Running, breakerVars
  <2> QED
    BY <2>1, <2>2, <2>3
<1>4. InCounting' = InCounting
  BY <1>3 DEF InCounting
<1> QED
  BY <1>1, <1>4 DEF mapped, Streak, Waiting, RefusesUntil, breakerVars

\* A step with a new generation leaves nothing that counts.
LEMMA NothingCounts ==
  ASSUME IInv, NEW c \in Calls, NEW verdict \in Verdicts, Ends(c, verdict),
         generation' = generation + 1
  PROVE  InCounting' = {}
<1>1. \A d \in Calls : attempt'[d].generation = attempt[d].generation
  BY EndsShape DEF IInv
<1>2. \A d \in Calls : attempt[d].generation \in Nat /\ attempt[d].generation <= generation
  BY DEF IInv, TypeOK, Attempts, GenerationsReached
<1>3. generation \in Nat
  BY DEF IInv, TypeOK
<1> QED
  BY <1>1, <1>2, <1>3 DEF InCounting, Counts

\* A verdict that counts is one of the abstract outcomes.
LEMMA MapVerdict ==
  ASSUME IInv, NEW c \in Calls, NEW verdict \in Verdicts, Counts(c), Takes(c, verdict)
  PROVE  Promise!Fail(c) \/ Promise!Succeed(c) \/ Promise!Ignore(c)
<1>1. TypeOK
  BY DEF IInv
<1>2. Counts(c) /\ RecordVerdict(verdict) /\ Ends(c, verdict) /\ clock' = clock
  BY DEF Takes
<1>3. c \in InCounting /\ phase # "open"
  BY <1>2 DEF IInv, InCounting, SingleProbe
<1>4. phase = "half_open" => InCounting \ {c} = {}
  BY <1>2 DEF IInv, InCounting, SingleProbe
<1>5. phase # "half_open" => phase = "closed" /\ Waiting = 0
  BY <1>1, <1>3, WaitingByPhase DEF TypeOK, Phases
<1>6. ASSUME UNCHANGED generation PROVE InCounting' = InCounting \ {c}
  <2>1. /\ attempt'[c].status = "done"
        /\ \A d \in Calls \ {c} : attempt'[d] = attempt[d]
    BY <1>1, <1>2, EndsShape
  <2> QED
    BY <1>6, <2>1 DEF InCounting, Counts, Running
<1>7. ASSUME generation' = generation + 1 PROVE InCounting' = {}
  BY <1>1, <1>2, <1>7, NothingCounts
<1>8. CASE phase = "half_open" /\ verdict = "ignored" /\ ReleaseProbe
  <2>1. phase' = "open" /\ InCounting' = InCounting \ {c} /\ Streak' = Streak
    BY <1>4, <1>7, <1>8 DEF ReleaseProbe, Streak
  <2>2. Waiting' = 0
    BY <1>1, <1>2, <1>8 DEF ReleaseProbe, Waiting, RefusesUntil, TypeOK
  <2> QED
    BY <1>3, <1>8, <2>1, <2>2 DEF Promise!Ignore, InCounting, Streak
<1>9. CASE phase # "half_open" /\ verdict = "ignored" /\ UNCHANGED breakerVars
  <2>1. UNCHANGED <<phase, Streak, Waiting>> /\ InCounting' = InCounting \ {c}
    BY <1>2, <1>6, <1>9 DEF breakerVars, Streak, Waiting, RefusesUntil
  <2> QED
    BY <1>3, <1>5, <1>9, <2>1 DEF Promise!Ignore, InCounting, Streak
<1>10. CASE /\ verdict = "failure" /\ Open
            /\ phase = "half_open" \/ consecutiveFailures + 1 >= Failures
  <2>1. phase' = "open" /\ InCounting' = {} /\ Streak' = 0
    BY <1>7, <1>10 DEF Open, Streak
  <2>2. Waiting' = Recovery
    BY <1>1, <1>2, <1>10, RecoveryAssumption DEF Open, Waiting, RefusesUntil, TypeOK
  <2>3. phase = "half_open" \/ Streak + 1 >= Failures
    BY <1>5, <1>10 DEF Streak
  <2> QED
    BY <1>3, <2>1, <2>2, <2>3 DEF Promise!Fail, Promise!Trip, InCounting, Streak
<1>11. CASE phase = "half_open" /\ verdict = "success" /\ Close
  <2>1. phase' = "closed" /\ InCounting' = InCounting \ {c} /\ Streak' = 0
    BY <1>4, <1>7, <1>11 DEF Close, Streak
  <2>2. Waiting' = 0
    BY <1>1, <1>2, <1>11 DEF Close, Waiting, RefusesUntil, TypeOK
  <2> QED
    BY <1>3, <2>1, <2>2 DEF Promise!Succeed, InCounting, Streak
<1>12. CASE /\ phase # "half_open"
            /\ verdict = "failure" \/ verdict = "success"
            /\ consecutiveFailures' = IF verdict = "success" THEN 0
                                      ELSE consecutiveFailures + 1
            /\ verdict = "failure" => consecutiveFailures + 1 < Failures
            /\ UNCHANGED <<phase, generation, openUntil, probeUntil>>
  <2>1. phase' = phase /\ phase = "closed" /\ InCounting' = InCounting \ {c}
    BY <1>5, <1>6, <1>12
  <2>2. Waiting' = 0 /\ Waiting = 0
    BY <1>1, <1>2, <1>5, <1>12, <2>1 DEF Waiting, RefusesUntil, TypeOK
  <2>3. CASE verdict = "success"
    BY <1>3, <1>12, <2>1, <2>2, <2>3 DEF Promise!Succeed, InCounting, Streak
  <2>4. CASE verdict = "failure"
    <3>1. ~(phase = "half_open" \/ Streak + 1 >= Failures)
      BY <1>1, <1>12, <2>1, <2>4, FailuresAssumption DEF Streak, TypeOK
    <3>2. Streak' = Streak + 1
      BY <1>12, <2>1, <2>4 DEF Streak
    <3> QED
      BY <1>3, <2>1, <2>2, <3>1, <3>2 DEF Promise!Fail, InCounting, Streak
  <2> QED
    BY <1>12, <2>3, <2>4
<1> QED
  BY <1>1, <1>2, <1>8, <1>9, <1>10, <1>11, <1>12, VerdictEffect

LEMMA MapComplete ==
  ASSUME IInv, NEW c \in Calls, NEW exit \in Exits, CompleteCurrent(c, exit)
  PROVE  Promise!Fail(c) \/ Promise!Succeed(c) \/ Promise!Ignore(c)
<1> DEFINE v == VerdictOf(attempt[c].outcome, exit)
<1>1. v \in Verdicts
  BY VerdictType DEF IInv
<1>2. Counts(c) /\ Takes(c, v)
  BY DEF CompleteCurrent, Counts, Takes
<1> HIDE DEF v
<1> QED
  BY <1>1, <1>2, MapVerdict

\* A verdict that is discarded is no step of the abstract breaker.
LEMMA MapDiscarded ==
  ASSUME IInv, NEW c \in Calls, NEW verdict \in Verdicts, ~Counts(c), Takes(c, verdict)
  PROVE  UNCHANGED mapped
<1>1. UNCHANGED breakerVars /\ clock' = clock /\ Ends(c, verdict)
  BY DEF Takes
<1>2. \A d \in Calls : Counts(d)' <=> Counts(d)
  BY <1>1, EndsShape DEF IInv, Counts, Running, breakerVars
<1> QED
  BY <1>1, <1>2 DEF mapped, InCounting, Streak, Waiting, RefusesUntil, breakerVars

\* The breaker is the abstract breaker: generations and deadlines implement the
\* set of calls that count and the time that is left.
THEOREM RefinesPromise == Spec => ImplementsPromise
<1>1. Init => Promise!Init
  BY DEF Init, Promise!Init, Counts, Running, Idle, Waiting, RefusesUntil
<1>2. IInv /\ IInv' /\ [Next]_vars => [Promise!Next]_(Promise!promiseVars)
  <2> SUFFICES ASSUME IInv, IInv', [Next]_vars
               PROVE  Promise!Next \/ UNCHANGED mapped
    BY DEF Promise!promiseVars, mapped, Streak, InCounting
  <2>1. CASE UNCHANGED vars
    BY <2>1 DEF vars, breakerVars, mapped, Streak, InCounting, Counts, Running,
         Waiting, RefusesUntil
  <2>2. CASE Next
    BY <2>2, MapTick, MapAdmitClosed, MapAdmitProbe, MapStutter, MapComplete
       DEF Next, Promise!Next
  <2> QED
    BY <2>1, <2>2
<1> QED
  BY <1>1, <1>2, AlwaysIInv, PTL DEF Spec, ImplementsPromise, Promise!Spec

-----------------------------------------------------------------------------
(* Task submission: the inductive invariant *)

\* A caller that has not submitted yet has no runner.
IdleHasNoRunner == \A c \in Calls : caller[c] = "idle" => runner[c] = "none"

SdkInv ==
  /\ IInv
  /\ SdkTypeOK
  /\ IdleHasNoRunner
  /\ AttemptsHaveRunners

-----------------------------------------------------------------------------
(* What the breaker sees of the SDK *)

\* However a run ends, its attempt gets one of the three verdicts.
LEMMA EndingVerdict ==
  ASSUME NEW end \in Occurring
  PROVE  VerdictOf(MarkFor(end), ExitFor(end)) \in Verdicts \ {"pending"}
<1>1. end \in Endings
  BY OccurringAssumption
<1> QED
  BY <1>1 DEF VerdictOf, MarkFor, ExitFor, Endings, Terminals, Errors, Verdicts

\* Every step of the SDK is one of these for the breaker.
LEMMA BreakerSteps ==
  ASSUME SdkInv, [SdkNext]_allVars
  PROVE  \/ UNCHANGED vars
         \/ Tick
         \/ \E c \in Calls :
              \/ AdmitClosed(c) \/ AdmitProbe(c) \/ Reject(c)
              \/ RunAbandoned(c)
              \/ \E verdict \in Verdicts \ {"pending"} : Takes(c, verdict)
<1>1. CASE UNCHANGED allVars
  BY <1>1 DEF allVars
<1>2. ASSUME NEW c \in Calls, NEW end \in Occurring, RunEnds(c, end)
      PROVE  \E verdict \in Verdicts \ {"pending"} : Takes(c, verdict)
  <2> DEFINE v == VerdictOf(MarkFor(end), ExitFor(end))
  <2>1. v \in Verdicts \ {"pending"}
    BY EndingVerdict
  <2>2. Running(c)
    BY <1>2 DEF RunEnds, SdkInv, AttemptsHaveRunners
  <2>3. Takes(c, v)
    BY <1>2, <2>2 DEF RunEnds, Takes
  <2> QED
    BY <2>1, <2>3
<1>3. ASSUME NEW c \in Calls,
             SubmitInvalid(c) \/ ContinueInvalid(c) \/ Submit(c) \/ Continue(c) \/ CallerNext(c)
               \/ CancelCaller(c) \/ CancelResponse(c) \/ RunNeverStarts(c)
      PROVE  UNCHANGED vars
  BY <1>3 DEF SubmitInvalid, ContinueInvalid, Submit, Continue, SpawnRun, CallerNext, CallerAdmitted,
       CallerReturns, CallerRefused, CallerLeaves, CallerJoined, CancelCaller, CancelResponse,
       RunNeverStarts
<1>4. ASSUME NEW c \in Calls, RunAdmitted(c)
      PROVE  AdmitClosed(c) \/ AdmitProbe(c)
  BY <1>4 DEF RunAdmitted
<1>5. ASSUME NEW c \in Calls, RunRefused(c)
      PROVE  Reject(c)
  BY <1>5 DEF RunRefused
<1>6. ASSUME CleanupStarts \/ CleanupEnds
      PROVE  UNCHANGED vars
  BY <1>6 DEF CleanupStarts, CleanupEnds
<1>7. CASE SdkNext
  BY <1>2, <1>3, <1>4, <1>5, <1>6, <1>7 DEF SdkNext, RunnerStarts
<1> QED
  BY <1>1, <1>7

\* What an abandoned admission leaves: an attempt that is over and ignored, and a
\* breaker that is as it was or open for the next probe.
LEMMA AbandonedShape ==
  ASSUME IInv, NEW c \in Calls, RunAbandoned(c)
  PROVE  /\ attempt'[c].status = "done"
         /\ attempt'[c].verdict = "ignored"
         /\ attempt'[c].at = clock
         /\ \A d \in Calls \ {c} : attempt'[d] = attempt[d]
         /\ ~Running(c) /\ clock' = clock
         /\ \/ /\ phase = "closed"
               /\ attempt'[c].generation = generation
               /\ attempt'[c].probe = FALSE
               /\ UNCHANGED breakerVars
            \/ /\ phase # "closed" /\ RefusesUntil <= clock
               /\ attempt'[c].generation = generation + 1
               /\ phase' = "open" /\ openUntil' = clock /\ probeUntil' = 0
               /\ generation' = generation + 2
               /\ consecutiveFailures' = consecutiveFailures
<1>1. attempt \in [Calls -> Attempts] /\ generation \in Nat /\ clock \in Nat /\ RefusesUntil \in Nat
  BY DEF IInv, TypeOK, RefusesUntil, Phases
<1>2. ~Running(c) /\ clock' = clock
  BY DEF RunAbandoned, Asking, Running
<1> DEFINE reached == IF phase # "closed" THEN generation + 1 ELSE generation
           given == [status |-> "done", generation |-> reached, outcome |-> "ignored",
                     verdict |-> "ignored", probe |-> phase # "closed", at |-> clock]
<1>3. attempt' = [attempt EXCEPT ![c] = given]
  BY DEF RunAbandoned
<1>4. attempt'[c] = given /\ \A d \in Calls \ {c} : attempt'[d] = attempt[d]
  BY <1>1, <1>3
<1>5. CASE phase = "closed"
  <2>1. UNCHANGED breakerVars
    BY <1>5 DEF RunAbandoned
  <2>2. given.probe = (phase # "closed") /\ given.generation = generation
    BY <1>5
  <2>3. (phase # "closed") = FALSE
    BY <1>5
  <2>4. attempt'[c].probe = FALSE /\ attempt'[c].generation = generation
    BY <1>4, <2>2, <2>3, Zenon
  <2> QED
    BY <1>2, <1>4, <1>5, <2>1, <2>4
<1>6. CASE phase # "closed"
  <2>1. ~(clock < RefusesUntil)
    BY <1>1, <1>6 DEF RunAbandoned
  <2>2. /\ phase' = "open" /\ openUntil' = clock /\ probeUntil' = 0
        /\ generation' = generation + 1 + 1
        /\ consecutiveFailures' = consecutiveFailures
    BY <1>6 DEF RunAbandoned
  <2> QED
    BY <1>1, <1>2, <1>4, <1>6, <2>1, <2>2
<1> QED
  BY <1>5, <1>6

LEMMA AbandonedType ==
  ASSUME IInv, NEW c \in Calls, RunAbandoned(c)
  PROVE  TypeOK'
<1> DEFINE reached == IF phase # "closed" THEN generation + 1 ELSE generation
<1>1. TypeOK /\ reached \in Nat
  BY DEF IInv, TypeOK
<1>2. [status |-> "done", generation |-> reached, outcome |-> "ignored",
       verdict |-> "ignored", probe |-> phase # "closed", at |-> clock] \in Attempts
  BY <1>1 DEF TypeOK, Attempts, Outcomes, Verdicts
<1>3. attempt' \in [Calls -> Attempts]
  BY <1>1, <1>2 DEF RunAbandoned, TypeOK
<1>4. verdicts' \in Seq([generation : Nat, verdict : Verdicts])
  <2>1. [generation |-> reached, verdict |-> "ignored"] \in [generation : Nat, verdict : Verdicts]
    BY <1>1 DEF Verdicts
  <2> QED
    BY <1>1, <2>1 DEF RunAbandoned, TypeOK
<1>5. /\ phase' \in Phases /\ generation' \in Nat /\ consecutiveFailures' \in Nat
      /\ openUntil' \in Nat /\ probeUntil' \in Nat /\ clock' \in Nat
  <2>1. CASE UNCHANGED breakerVars /\ clock' = clock
    BY <1>1, <2>1 DEF TypeOK, breakerVars
  <2>2. CASE /\ phase' = "open" /\ openUntil' = clock /\ probeUntil' = 0
             /\ generation' = generation + 2
             /\ consecutiveFailures' = consecutiveFailures /\ clock' = clock
    BY <1>1, <2>2 DEF TypeOK, Phases
  <2> QED
    BY <2>1, <2>2, AbandonedShape
<1> QED
  BY <1>3, <1>4, <1>5 DEF TypeOK

LEMMA AbandonedStep ==
  ASSUME IInv, NEW c \in Calls, RunAbandoned(c)
  PROVE  IInv'
<1> USE DEF TypeOK, Attempts
<1>1. TypeOK /\ TypeOK' /\ GenerationsReached /\ AdmittedBefore /\ RunningIsPending
      /\ SingleProbe /\ WindowCoversProbe /\ ProbeSpacing
  BY AbandonedType DEF IInv
<1>2. /\ attempt'[c].status = "done"
      /\ attempt'[c].verdict = "ignored"
      /\ attempt'[c].at = clock
      /\ \A d \in Calls \ {c} : attempt'[d] = attempt[d]
      /\ clock' = clock
  BY AbandonedShape
<1> HIDE DEF TypeOK
<1>8. /\ generation \in Nat /\ clock \in Nat
      /\ \A d \in Calls : attempt[d].generation \in Nat /\ attempt[d].at \in Nat
  BY <1>1 DEF TypeOK, Attempts
<1> HIDE DEF Attempts
<1>3. CASE phase = "closed" /\ attempt'[c].generation = generation
           /\ attempt'[c].probe = FALSE /\ UNCHANGED breakerVars
  <2>1. GenerationsReached' /\ AdmittedBefore' /\ RunningIsPending'
    BY <1>1, <1>2, <1>3, <1>8
       DEF GenerationsReached, AdmittedBefore, RunningIsPending, Running, breakerVars
  <2>2. SingleProbe' /\ WindowCoversProbe'
    BY <1>3 DEF SingleProbe, WindowCoversProbe, breakerVars
  <2>3. ProbeSpacing'
    BY <1>1, <1>2, <1>3, <1>8 DEF ProbeSpacing
  <2> QED
    BY <1>1, <2>1, <2>2, <2>3 DEF IInv
<1>4. CASE /\ phase # "closed" /\ RefusesUntil <= clock
           /\ attempt'[c].generation = generation + 1
           /\ phase' = "open" /\ openUntil' = clock
           /\ generation' = generation + 2
  <2>1. GenerationsReached' /\ AdmittedBefore' /\ RunningIsPending'
    BY <1>1, <1>2, <1>4, <1>8 DEF GenerationsReached, AdmittedBefore, RunningIsPending, Running
  <2>2. SingleProbe'
    BY <1>1, <1>2, <1>4, <1>8 DEF SingleProbe, Counts, GenerationsReached
  <2>3. \A d \in Calls : attempt[d].probe /\ attempt[d].verdict # "ignored" =>
          attempt[d].at + Recovery <= clock
    <3> SUFFICES ASSUME NEW d \in Calls, attempt[d].probe, attempt[d].verdict # "ignored"
                 PROVE  attempt[d].at + Recovery <= clock
      OBVIOUS
    <3>1. phase = "open" => RefusesUntil = openUntil
      BY DEF RefusesUntil
    <3>2. phase = "half_open" => RefusesUntil = probeUntil
      BY DEF RefusesUntil
    <3>3. openUntil \in Nat /\ probeUntil \in Nat /\ phase \in {"open", "half_open"}
      BY <1>1, <1>4 DEF TypeOK, Phases
    <3> QED
      BY <1>1, <1>4, <1>8, <3>1, <3>2, <3>3, RecoveryAssumption DEF WindowCoversProbe
  <2>4. WindowCoversProbe'
    BY <1>1, <1>2, <1>4, <1>8, <2>3 DEF WindowCoversProbe
  <2>5. ProbeSpacing'
    BY <1>1, <1>2, <1>4, <1>8, <2>3 DEF ProbeSpacing
  <2> QED
    BY <1>1, <2>1, <2>2, <2>4, <2>5 DEF IInv
<1> QED
  BY <1>3, <1>4, AbandonedShape

\* The breaker's invariant holds inside the SDK.
LEMMA BreakerStep ==
  ASSUME SdkInv, [SdkNext]_allVars
  PROVE  IInv'
<1>1. IInv
  BY DEF SdkInv
<1>2. ASSUME \/ UNCHANGED vars
             \/ Tick
             \/ \E c \in Calls : AdmitClosed(c) \/ AdmitProbe(c) \/ Reject(c)
      PROVE  IInv'
  BY <1>1, <1>2, IInvStep DEF Next
<1> QED
  BY <1>1, <1>2, BreakerSteps, AbandonedStep, EndingStep

-----------------------------------------------------------------------------
(* The caller, the runner and the table *)

LEMMA InitSdkInv == SdkInit => SdkInv
<1> SUFFICES ASSUME SdkInit PROVE SdkInv
  OBVIOUS
<1>1. IInv
  BY InitIInv DEF SdkInit
<1>2. SdkTypeOK
  BY <1>1 DEF IInv, SdkInit, SdkTypeOK, CallerStates, RunnerStates, Admissions
<1>3. IdleHasNoRunner /\ AttemptsHaveRunners
  BY DEF SdkInit, Init, Idle, IdleHasNoRunner, AttemptsHaveRunners, Running
<1> QED
  BY <1>1, <1>2, <1>3 DEF SdkInv

\* What leaves the table and the runner of a run that is over.
LEMMA LeaveType ==
  ASSUME SdkTypeOK, NEW c \in Calls, NEW end \in Endings \cup {"refused"}, Leave(c, end)
  PROVE  /\ runner' \in [Calls -> RunnerStates]
         /\ inflight' \in [TaskIds -> Calls \cup {NoCall}]
         /\ ending' \in [Calls -> Endings \cup {"none", "refused", "never_started"}]
  BY DEF Leave, SdkTypeOK, RunnerStates

LEMMA SdkTypeStep ==
  ASSUME SdkInv, [SdkNext]_allVars
  PROVE  SdkTypeOK'
<1>1. TypeOK' /\ SdkTypeOK
  BY BreakerStep DEF SdkInv, IInv
<1> USE DEF SdkTypeOK
<1>2. ASSUME UNCHANGED sdkVars PROVE SdkTypeOK'
  BY <1>1, <1>2 DEF sdkVars
<1>3. ASSUME NEW c \in Calls, SubmitInvalid(c) \/ ContinueInvalid(c) PROVE SdkTypeOK'
  BY <1>1, <1>3 DEF SubmitInvalid, ContinueInvalid, CallerStates
<1>4. ASSUME NEW c \in Calls, Submit(c) \/ Continue(c) PROVE SdkTypeOK'
  BY <1>1, <1>4, TaskIdAssumption
     DEF Submit, Continue, SpawnRun, CallerStates, RunnerStates, Admissions
<1>5. ASSUME NEW c \in Calls, CallerNext(c) PROVE SdkTypeOK'
  BY <1>1, <1>5 DEF CallerNext, CallerAdmitted, CallerReturns, CallerRefused, CallerLeaves,
       CallerJoined, CallerStates
<1>6. ASSUME NEW c \in Calls, CancelCaller(c) \/ CancelResponse(c) PROVE SdkTypeOK'
  BY <1>1, <1>6 DEF CancelCaller, CancelResponse, CallerStates, Admissions
<1>7. ASSUME NEW c \in Calls, RunAdmitted(c) PROVE SdkTypeOK'
  BY <1>1, <1>7 DEF RunAdmitted, RunnerStates, Admissions
<1>8. ASSUME NEW c \in Calls, RunAbandoned(c) PROVE SdkTypeOK'
  <2>1. Leave(c, "cancelled") /\ UNCHANGED <<caller, cancelled, admission, cleanup, swept>>
    BY <1>8 DEF RunAbandoned
  <2> QED
    BY <1>1, <2>1, LeaveType DEF Endings
<1>9. ASSUME NEW c \in Calls, RunRefused(c) PROVE SdkTypeOK'
  <2>1. Leave(c, "refused") /\ UNCHANGED <<caller, cancelled, cleanup, swept>>
        /\ admission' = [admission EXCEPT ![c] = IF @ = "pending" THEN "refused" ELSE @]
    BY <1>9 DEF RunRefused
  <2>2. admission' \in [Calls -> Admissions]
    BY <2>1, <1>1 DEF Admissions
  <2> QED
    BY <1>1, <2>1, <2>2, LeaveType
<1>10. ASSUME NEW c \in Calls, RunNeverStarts(c) PROVE SdkTypeOK'
  BY <1>1, <1>10 DEF RunNeverStarts, RunnerStates
<1>11. ASSUME NEW c \in Calls, NEW end \in Occurring, RunEnds(c, end) PROVE SdkTypeOK'
  <2>1. Leave(c, end) /\ UNCHANGED <<caller, cancelled, admission, cleanup, swept>>
    BY <1>11 DEF RunEnds
  <2>2. end \in Endings
    BY OccurringAssumption
  <2> QED
    BY <1>1, <2>1, <2>2, LeaveType
<1>12. ASSUME CleanupStarts PROVE SdkTypeOK'
  BY <1>1, <1>12 DEF CleanupStarts, Listed
<1>13. ASSUME CleanupEnds PROVE SdkTypeOK'
  BY <1>1, <1>13 DEF CleanupEnds
<1> QED
  BY <1>2, <1>3, <1>4, <1>5, <1>6, <1>7, <1>8, <1>9, <1>10, <1>11, <1>12, <1>13
     DEF SdkNext, RunnerStarts, allVars

\* A caller leaves the idle state for good, and only by a submission does a
\* runner come into being.
LEMMA IdleStep ==
  ASSUME SdkInv, [SdkNext]_allVars
  PROVE  IdleHasNoRunner'
<1>1. SdkTypeOK /\ IdleHasNoRunner
  BY DEF SdkInv
<1> SUFFICES ASSUME NEW d \in Calls, caller'[d] = "idle" PROVE runner'[d] = "none"
  BY DEF IdleHasNoRunner
<1>2. caller[d] = "idle" => runner[d] = "none"
  BY <1>1 DEF IdleHasNoRunner
<1> USE DEF SdkTypeOK
<1>3. ASSUME UNCHANGED <<caller, runner>> PROVE runner'[d] = "none"
  BY <1>2, <1>3
<1>4. ASSUME NEW c \in Calls,
             \/ SubmitInvalid(c) \/ ContinueInvalid(c) \/ CallerNext(c)
             \/ CancelCaller(c) \/ CancelResponse(c)
      PROVE  runner'[d] = "none"
  BY <1>1, <1>2, <1>4 DEF SubmitInvalid, ContinueInvalid, CallerNext, CallerAdmitted, CallerReturns,
       CallerRefused, CallerLeaves, CallerJoined, CancelCaller, CancelResponse
<1>5. ASSUME NEW c \in Calls, Submit(c) \/ Continue(c) PROVE runner'[d] = "none"
  BY <1>1, <1>2, <1>5 DEF Submit, Continue, SpawnRun
<1>6. ASSUME NEW c \in Calls, RunnerStarts(c) PROVE runner'[d] = "none"
  BY <1>1, <1>2, <1>6 DEF RunnerStarts, RunAdmitted, RunAbandoned, RunRefused, RunNeverStarts,
       Starts, Leave
<1>7. ASSUME NEW c \in Calls, NEW end \in Occurring, RunEnds(c, end) PROVE runner'[d] = "none"
  BY <1>1, <1>2, <1>7 DEF RunEnds, Leave
<1>8. ASSUME CleanupStarts \/ CleanupEnds PROVE UNCHANGED <<caller, runner>>
  BY <1>8 DEF CleanupStarts, CleanupEnds
<1> QED
  BY <1>3, <1>4, <1>5, <1>6, <1>7, <1>8 DEF SdkNext, allVars, sdkVars

\* An attempt runs from the admission of its runner to the end of it.
LEMMA AttemptsStep ==
  ASSUME SdkInv, [SdkNext]_allVars
  PROVE  AttemptsHaveRunners'
<1>1. SdkTypeOK /\ IInv /\ AttemptsHaveRunners /\ IdleHasNoRunner
  BY DEF SdkInv
<1>2. /\ attempt \in [Calls -> Attempts]
      /\ runner \in [Calls -> RunnerStates]
      /\ \A c \in Calls : attempt[c].status = "running" <=> runner[c] = "running"
  BY <1>1 DEF SdkTypeOK, IInv, TypeOK, AttemptsHaveRunners, Running
<1> SUFFICES ASSUME NEW d \in Calls
             PROVE  attempt'[d].status = "running" <=> runner'[d] = "running"
  BY DEF AttemptsHaveRunners, Running
<1> DEFINE Agree == attempt'[d].status = "running" <=> runner'[d] = "running"
<1>3. ASSUME UNCHANGED <<attempt, runner>> PROVE Agree
  BY <1>2, <1>3
<1>4. ASSUME NEW c \in Calls,
             \/ SubmitInvalid(c) \/ ContinueInvalid(c) \/ CallerNext(c)
             \/ CancelCaller(c) \/ CancelResponse(c)
      PROVE  Agree
  BY <1>3, <1>4 DEF SubmitInvalid, ContinueInvalid, CallerNext, CallerAdmitted, CallerReturns,
       CallerRefused, CallerLeaves, CallerJoined, CancelCaller, CancelResponse, vars
<1>5. ASSUME NEW c \in Calls, Submit(c) \/ Continue(c) PROVE Agree
  <2>1. runner[c] = "none" /\ runner' = [runner EXCEPT ![c] = "created"] /\ attempt' = attempt
    BY <1>1, <1>5 DEF Submit, Continue, SpawnRun, IdleHasNoRunner, vars
  <2> QED
    BY <1>2, <2>1
<1>6. ASSUME NEW c \in Calls, RunAdmitted(c) PROVE Agree
  <2>1. PICK gen, isProbe : Admitted(c, gen, isProbe)
    BY <1>6 DEF RunAdmitted, AdmitClosed, AdmitProbe
  <2>2. runner' = [runner EXCEPT ![c] = "running"]
    BY <1>6 DEF RunAdmitted
  <2> QED
    BY <1>2, <2>1, <2>2 DEF Admitted, Idle
<1>7. ASSUME NEW c \in Calls, RunAbandoned(c) PROVE Agree
  <2>1. runner' = [runner EXCEPT ![c] = "ended"]
    BY <1>7 DEF RunAbandoned, Leave
  <2>2. attempt'[c].status = "done" /\ \A e \in Calls \ {c} : attempt'[e] = attempt[e]
    BY <1>1, <1>7, AbandonedShape
  <2> QED
    BY <1>2, <2>1, <2>2
<1>8. ASSUME NEW c \in Calls, RunRefused(c) PROVE Agree
  <2>1. runner' = [runner EXCEPT ![c] = "ended"]
    BY <1>8 DEF RunRefused, Leave
  <2>2. attempt' = [attempt EXCEPT ![c] = [Idle EXCEPT !.status = "rejected"]]
    BY <1>8 DEF RunRefused, Reject
  <2> QED
    BY <1>2, <2>1, <2>2 DEF Idle
<1>9. ASSUME NEW c \in Calls, RunNeverStarts(c) PROVE Agree
  BY <1>2, <1>9 DEF RunNeverStarts, vars
<1>10. ASSUME NEW c \in Calls, NEW end \in Occurring, RunEnds(c, end) PROVE Agree
  <2>1. runner' = [runner EXCEPT ![c] = "ended"]
    BY <1>10 DEF RunEnds, Leave
  <2>2. PICK verdict : Ends(c, verdict)
    BY <1>10 DEF RunEnds
  <2>3. attempt'[c].status = "done" /\ \A e \in Calls \ {c} : attempt'[e] = attempt[e]
    BY <1>1, <2>2, EndsShape DEF IInv
  <2> QED
    BY <1>2, <2>1, <2>3
<1>11. ASSUME CleanupStarts \/ CleanupEnds \/ (Tick /\ UNCHANGED sdkVars)
       PROVE  Agree
  BY <1>3, <1>11 DEF CleanupStarts, CleanupEnds, Tick, vars, sdkVars
<1>12. ASSUME UNCHANGED allVars PROVE Agree
  BY <1>3, <1>12 DEF allVars, vars, sdkVars
<1> QED
  BY <1>4, <1>5, <1>6, <1>7, <1>8, <1>9, <1>10, <1>11, <1>12 DEF SdkNext, RunnerStarts

LEMMA SdkInvStep == SdkInv /\ [SdkNext]_allVars => SdkInv'
  BY BreakerStep, SdkTypeStep, IdleStep, AttemptsStep DEF SdkInv

LEMMA AlwaysSdkInv == SdkSpec => []SdkInv
<1>1. SdkInit => SdkInv
  BY InitSdkInv
<1>2. SdkInv /\ [SdkNext]_allVars => SdkInv'
  BY SdkInvStep
<1> QED
  BY <1>1, <1>2, PTL DEF SdkSpec, SdkSteps

\* Everything the SDK keeps of its submissions has its type.
THEOREM SubmissionsTyped == SdkSpec => []SdkTypeOK
<1>1. SdkInv => SdkTypeOK
  BY DEF SdkInv
<1> QED
  BY <1>1, AlwaysSdkInv, PTL

\* A breaker attempt is open exactly as long as its runner runs, whatever was
\* cancelled and however the run ended.
THEOREM AttemptsEndWithRunners == SdkSpec => []AttemptsHaveRunners
<1>1. SdkInv => AttemptsHaveRunners
  BY DEF SdkInv
<1> QED
  BY <1>1, AlwaysSdkInv, PTL

-----------------------------------------------------------------------------
(* The breaker's own properties inside the SDK *)

\* A run whose caller is gone adds an ignored verdict, and no failure.
LEMMA StreakOfAbandoned ==
  ASSUME IInv, StreakInv, NEW c \in Calls, RunAbandoned(c)
  PROVE  StreakInv'
<1> DEFINE reached == IF phase # "closed" THEN generation + 1 ELSE generation
           v == [generation |-> reached, verdict |-> "ignored"]
<1>1. TypeOK /\ TypeOK' /\ generation \in Nat
  BY AbandonedType DEF IInv, TypeOK
<1>2. /\ v \in [generation : Nat, verdict : Verdicts]
      /\ v.generation = reached /\ v.verdict = "ignored"
  BY <1>1 DEF Verdicts
<1>3. verdicts' = Append(verdicts, v)
  BY DEF RunAbandoned
<1>4. CASE phase = "closed" /\ UNCHANGED breakerVars
  <2>1. /\ v.generation <= generation' /\ generation <= generation'
        /\ UNCHANGED <<phase, generation, consecutiveFailures>>
    BY <1>1, <1>2, <1>4 DEF breakerVars
  <2> HIDE DEF v
  <2> QED
    BY <1>1, <1>2, <1>3, <2>1, StreakAppend
<1>5. CASE phase # "closed" /\ phase' = "open" /\ generation' = generation + 2
  <2>1. v.generation <= generation' /\ generation <= generation' /\ phase' # "closed"
    BY <1>1, <1>2, <1>5
  <2> HIDE DEF v
  <2> QED
    BY <1>1, <1>2, <1>3, <2>1, StreakAppend
<1> QED
  BY <1>4, <1>5, AbandonedShape

LEMMA SdkStreakStep == SdkInv /\ StreakInv /\ [SdkNext]_allVars => StreakInv'
<1> SUFFICES ASSUME SdkInv, StreakInv, [SdkNext]_allVars PROVE StreakInv'
  OBVIOUS
<1>1. IInv /\ TypeOK
  BY DEF SdkInv, IInv
<1> QED
  BY <1>1, BreakerSteps, StreakOfOthers, StreakOfAbandoned, StreakOfEnding

\* Submissions, refusals, cancellations and cleanup cannot break the breaker: it has
\* one probe at a time, keeps the window between two of them, and counts exactly the
\* failures in a row that its runs reported.
THEOREM BreakerHoldsInSdk == SdkSpec => [](SingleProbe /\ ProbeSpacing /\ StreakIsHistory)
<1>1. SdkInit => StreakInv
  BY StreakAtFirst DEF SdkInit
<1>2. SdkInv /\ StreakInv => SingleProbe /\ ProbeSpacing /\ StreakIsHistory
  BY DEF SdkInv, IInv, StreakInv
<1> QED
  BY <1>1, <1>2, SdkStreakStep, AlwaysSdkInv, PTL DEF SdkSpec, SdkSteps

-----------------------------------------------------------------------------
(* Cleanup and the table of runners.  The table is keyed by the id of the    *)
(* task; with two live submissions under one id it holds only the later.     *)

DistinctIds == \A c, d \in Calls : TaskId[c] = TaskId[d] => c = d

\* The table and the sweep hold spawned runners only.
ListedWereSpawned ==
  /\ \A id \in TaskIds : inflight[id] # NoCall => runner[inflight[id]] # "none"
  /\ \A c \in swept : runner[c] # "none"

TableInv == ListedWereSpawned /\ CleanupReachesRunners

\* A runner is created once, starts once and never comes back.
LEMMA RunnerProgress ==
  ASSUME SdkInv, [SdkNext]_allVars, NEW d \in Calls
  PROVE  \/ runner'[d] = runner[d]
         \/ runner[d] = "none" /\ runner'[d] = "created"
         \/ Live(d) /\ runner'[d] \in {"running", "ended"}
<1> DEFINE Progress == \/ runner'[d] = runner[d]
                       \/ runner[d] = "none" /\ runner'[d] = "created"
                       \/ Live(d) /\ runner'[d] \in {"running", "ended"}
<1>1. runner \in [Calls -> RunnerStates] /\ IdleHasNoRunner
  BY DEF SdkInv, SdkTypeOK
<1>2. ASSUME UNCHANGED runner PROVE Progress
  BY <1>2
<1>3. ASSUME NEW c \in Calls, Submit(c) \/ Continue(c) PROVE Progress
  BY <1>1, <1>3 DEF Submit, Continue, SpawnRun, IdleHasNoRunner
<1>4. ASSUME NEW c \in Calls, RunnerStarts(c) PROVE Progress
  BY <1>1, <1>4 DEF RunnerStarts, RunAdmitted, RunAbandoned, RunRefused, RunNeverStarts,
       Starts, Leave, Live
<1>5. ASSUME NEW c \in Calls, NEW end \in Occurring, RunEnds(c, end) PROVE Progress
  BY <1>1, <1>5 DEF RunEnds, Leave, Live
<1>6. ASSUME NEW c \in Calls,
             \/ SubmitInvalid(c) \/ ContinueInvalid(c) \/ CallerNext(c)
             \/ CancelCaller(c) \/ CancelResponse(c)
      PROVE  UNCHANGED runner
  BY <1>6 DEF SubmitInvalid, ContinueInvalid, CallerNext, CallerAdmitted, CallerReturns,
       CallerRefused, CallerLeaves, CallerJoined, CancelCaller, CancelResponse
<1>7. ASSUME CleanupStarts \/ CleanupEnds \/ UNCHANGED sdkVars PROVE UNCHANGED runner
  BY <1>7 DEF CleanupStarts, CleanupEnds, sdkVars
<1> QED
  BY <1>2, <1>3, <1>4, <1>5, <1>6, <1>7 DEF SdkNext, allVars

\* What happens to the table and to cleanup in a step.
LEMMA TableSteps ==
  ASSUME SdkInv, [SdkNext]_allVars
  PROVE  \/ UNCHANGED <<inflight, runner, cleanup, swept>>
         \/ /\ UNCHANGED <<cleanup, swept>>
            /\ \E c \in Calls :
                 \/ /\ runner' = [runner EXCEPT ![c] = "created"]
                    /\ inflight' = [inflight EXCEPT ![TaskId[c]] = c]
                 \/ /\ runner[c] = "created"
                    /\ runner' = [runner EXCEPT ![c] = "running"]
                    /\ UNCHANGED inflight
                 \/ /\ runner' = [runner EXCEPT ![c] = "ended"]
                    /\ inflight' = [inflight EXCEPT ![TaskId[c]] = NoCall]
                 \/ /\ runner' = [runner EXCEPT ![c] = "ended"]
                    /\ UNCHANGED inflight
         \/ CleanupStarts
         \/ CleanupEnds
<1> DEFINE Spawned(c) == /\ runner' = [runner EXCEPT ![c] = "created"]
                         /\ inflight' = [inflight EXCEPT ![TaskId[c]] = c]
           Ended(c) == /\ runner' = [runner EXCEPT ![c] = "ended"]
                       /\ inflight' = [inflight EXCEPT ![TaskId[c]] = NoCall]
<1>1. ASSUME NEW c \in Calls,
             \/ SubmitInvalid(c) \/ ContinueInvalid(c) \/ CallerNext(c)
             \/ CancelCaller(c) \/ CancelResponse(c)
      PROVE  UNCHANGED <<inflight, runner, cleanup, swept>>
  BY <1>1 DEF SubmitInvalid, ContinueInvalid, CallerNext, CallerAdmitted, CallerReturns,
       CallerRefused, CallerLeaves, CallerJoined, CancelCaller, CancelResponse
<1>2. ASSUME NEW c \in Calls, Submit(c) \/ Continue(c)
      PROVE  Spawned(c) /\ UNCHANGED <<cleanup, swept>>
  BY <1>2 DEF Submit, Continue, SpawnRun
<1>3. ASSUME NEW c \in Calls, RunAdmitted(c)
      PROVE  /\ runner[c] = "created" /\ runner' = [runner EXCEPT ![c] = "running"]
             /\ UNCHANGED <<inflight, cleanup, swept>>
  BY <1>3 DEF RunAdmitted, Starts
<1>4. ASSUME NEW c \in Calls, RunAbandoned(c) \/ RunRefused(c)
      PROVE  Ended(c) /\ UNCHANGED <<cleanup, swept>>
  BY <1>4 DEF RunAbandoned, RunRefused, Leave
<1>5. ASSUME NEW c \in Calls, RunNeverStarts(c)
      PROVE  /\ runner' = [runner EXCEPT ![c] = "ended"]
             /\ UNCHANGED <<inflight, cleanup, swept>>
  BY <1>5 DEF RunNeverStarts
<1>6. ASSUME NEW c \in Calls, NEW end \in Occurring, RunEnds(c, end)
      PROVE  Ended(c) /\ UNCHANGED <<cleanup, swept>>
  BY <1>6 DEF RunEnds, Leave
<1>7. ASSUME UNCHANGED sdkVars PROVE UNCHANGED <<inflight, runner, cleanup, swept>>
  BY <1>7 DEF sdkVars
<1> QED
  BY <1>1, <1>2, <1>3, <1>4, <1>5, <1>6, <1>7 DEF SdkNext, RunnerStarts, allVars

LEMMA SpawnedStep ==
  ASSUME SdkInv, ListedWereSpawned, [SdkNext]_allVars
  PROVE  ListedWereSpawned'
<1>1. /\ runner \in [Calls -> RunnerStates] /\ swept \subseteq Calls
      /\ inflight \in [TaskIds -> Calls \cup {NoCall}]
      /\ ListedWereSpawned
  BY DEF SdkInv, SdkTypeOK
<1>2. \A d \in Calls : runner[d] # "none" => runner'[d] # "none"
  BY RunnerProgress DEF Live
<1>3. \A id \in TaskIds : inflight'[id] # NoCall => runner'[inflight'[id]] # "none"
  <2> SUFFICES ASSUME NEW id \in TaskIds, inflight'[id] # NoCall
               PROVE  runner'[inflight'[id]] # "none"
    OBVIOUS
  <2>1. \/ inflight'[id] = inflight[id]
        \/ inflight'[id] = NoCall
        \/ \E c \in Calls : inflight'[id] = c /\ runner' = [runner EXCEPT ![c] = "created"]
    BY <1>1, TableSteps, TaskIdAssumption DEF CleanupStarts, CleanupEnds
  <2> QED
    BY <1>1, <1>2, <2>1 DEF ListedWereSpawned
<1>4. \A c \in swept' : runner'[c] # "none"
  <2>1. swept' = swept \/ (swept' = Listed /\ runner' = runner)
    BY TableSteps DEF CleanupStarts, CleanupEnds
  <2> QED
    BY <1>1, <1>2, <2>1 DEF ListedWereSpawned, Listed
<1> QED
  BY <1>3, <1>4 DEF ListedWereSpawned

LEMMA ReachedStep ==
  ASSUME DistinctIds, SdkInv, TableInv, [SdkNext]_allVars
  PROVE  CleanupReachesRunners'
<1>1. /\ runner \in [Calls -> RunnerStates] /\ swept \subseteq Calls
      /\ inflight \in [TaskIds -> Calls \cup {NoCall}]
      /\ CleanupReachesRunners /\ ListedWereSpawned
  BY DEF SdkInv, SdkTypeOK, TableInv
<1>2. ASSUME cleanup' = "idle", NEW d \in Calls, Live(d)'
      PROVE  inflight'[TaskId[d]] = d
  <2>1. cleanup = "idle" => (Live(d) => inflight[TaskId[d]] = d)
    BY <1>1 DEF CleanupReachesRunners
  <2>2. ~CleanupStarts /\ ~CleanupEnds
    BY <1>2 DEF CleanupStarts, CleanupEnds
  <2>3. \A c \in Calls : c # d => TaskId[c] # TaskId[d]
    BY DEF DistinctIds
  <2> QED
    BY <1>1, <1>2, <2>1, <2>2, <2>3, TableSteps, TaskIdAssumption DEF Live
<1>3. ASSUME cleanup' = "done", NEW d \in swept'
      PROVE  ~Live(d)'
  <2>1. CASE CleanupStarts
    BY <1>3, <2>1 DEF CleanupStarts
  <2>2. CASE CleanupEnds
    BY <1>3, <2>2 DEF CleanupEnds, Live
  <2>3. CASE UNCHANGED <<cleanup, swept>>
    <3>1. d \in Calls /\ ~Live(d) /\ runner[d] # "none"
      BY <1>1, <1>3, <2>3 DEF CleanupReachesRunners, ListedWereSpawned
    <3> QED
      BY <3>1, RunnerProgress DEF Live
  <2> QED
    BY <2>1, <2>2, <2>3, TableSteps
<1> QED
  BY <1>2, <1>3 DEF CleanupReachesRunners

\* If no two submissions share an id, cleanup finds every runner that lives, and
\* what it found has ended when it is over.
THEOREM CleanupReaches ==
  ASSUME DistinctIds
  PROVE  SdkSpec => []CleanupReachesRunners
<1>1. SdkInit => TableInv
  BY DEF SdkInit, TableInv, ListedWereSpawned, CleanupReachesRunners, Live
<1>2. SdkInv /\ TableInv /\ [SdkNext]_allVars => TableInv'
  BY SpawnedStep, ReachedStep DEF TableInv
<1>3. TableInv => CleanupReachesRunners
  BY DEF TableInv
<1> QED
  BY <1>1, <1>2, <1>3, AlwaysSdkInv, PTL DEF SdkSpec, SdkSteps

-----------------------------------------------------------------------------
(* Nobody waits in vain: who waits, waits for a runner that has a step to   *)
(* take.  This is what liveness rests on besides fairness.                  *)

(* A runner starts with an attempt that asks and an admission that is open or given
   up; its caller waits for an admission that is settled or that it will settle. *)
Stands(c) ==
  /\ runner[c] = "none" => Asking(c) /\ caller[c] \in {"idle", "raised"}
  /\ runner[c] = "created" => Asking(c) /\ admission[c] \in {"pending", "cancelled"}
  /\ ending[c] = "never_started" => runner[c] = "ended"
  /\ caller[c] = "waiting" =>
       \/ admission[c] = "granted"
       \/ admission[c] = "refused" /\ runner[c] = "ended"
       \/ admission[c] = "pending" /\ (runner[c] = "created" \/ ending[c] = "never_started")
  /\ caller[c] = "joining" => runner[c] = "ended" \/ (runner[c] = "running" /\ cancelled[c])
  /\ cleanup = "waiting" /\ c \in swept => runner[c] = "ended" \/ (Live(c) /\ cancelled[c])

WaitInv == ListedWereSpawned /\ \A c \in Calls : Stands(c)

(* The step of the loop that a waiting caller, a cancelled caller and cleanup
   wait for can be taken, or has been taken.  The one exception is a runner that
   cleanup cancelled before its first step. *)
NobodyWaitsInVain ==
  \A c \in Calls :
    /\ caller[c] = "waiting" =>
         \/ admission[c] = "granted"
         \/ admission[c] = "refused" /\ runner[c] = "ended"
         \/ runner[c] = "created" /\ Asking(c) /\ admission[c] = "pending"
         \/ ending[c] = "never_started"
    /\ caller[c] = "joining" => runner[c] = "ended" \/ (runner[c] = "running" /\ cancelled[c])
    /\ cleanup = "waiting" /\ c \in swept => runner[c] = "ended" \/ (Live(c) /\ cancelled[c])

\* What a submission can notice of a step is left alone.
Same(d) ==
  /\ caller'[d] = caller[d] /\ runner'[d] = runner[d] /\ cancelled'[d] = cancelled[d]
  /\ admission'[d] = admission[d] /\ ending'[d] = ending[d] /\ attempt'[d] = attempt[d]

LEMMA StandsKept ==
  ASSUME NEW d \in Calls, Stands(d), Same(d), UNCHANGED <<cleanup, swept>>
  PROVE  Stands(d)'
  BY DEF Stands, Same, Asking, Live

\* A step of one submission does not concern the others.
LEMMA CallerApart ==
  ASSUME SdkInv, NEW c \in Calls,
         \/ SubmitInvalid(c) \/ ContinueInvalid(c) \/ Submit(c) \/ Continue(c) \/ CallerNext(c)
           \/ CancelCaller(c) \/ CancelResponse(c)
  PROVE  (\A d \in Calls \ {c} : Same(d)) /\ UNCHANGED <<cleanup, swept>> /\ attempt' = attempt
<1>1. SdkTypeOK
  BY DEF SdkInv
<1> USE DEF SdkTypeOK, Same, vars
<1>2. CASE SubmitInvalid(c) \/ ContinueInvalid(c)
  BY <1>1, <1>2 DEF SubmitInvalid, ContinueInvalid
<1>3. CASE Submit(c) \/ Continue(c)
  BY <1>1, <1>3 DEF Submit, Continue, SpawnRun
<1>4. CASE CallerNext(c)
  BY <1>1, <1>4 DEF CallerNext, CallerAdmitted, CallerReturns, CallerRefused, CallerLeaves, CallerJoined
<1>5. CASE CancelCaller(c) \/ CancelResponse(c)
  BY <1>1, <1>5 DEF CancelCaller, CancelResponse
<1> QED
  BY <1>2, <1>3, <1>4, <1>5

LEMMA RunnerApart ==
  ASSUME SdkInv, NEW c \in Calls,
         RunnerStarts(c) \/ \E end \in Occurring : RunEnds(c, end)
  PROVE  (\A d \in Calls \ {c} : Same(d)) /\ UNCHANGED <<caller, cancelled, cleanup, swept>>
<1>1. SdkTypeOK /\ IInv /\ attempt \in [Calls -> Attempts]
  BY DEF SdkInv, IInv, TypeOK
<1> USE DEF SdkTypeOK, Same
<1>2. CASE RunAdmitted(c)
  BY <1>1, <1>2 DEF RunAdmitted, AdmitClosed, AdmitProbe, Admitted
<1>3. CASE RunAbandoned(c)
  BY <1>1, <1>3, AbandonedShape DEF RunAbandoned, Leave
<1>4. CASE RunRefused(c)
  BY <1>1, <1>4 DEF RunRefused, Reject, Leave
<1>5. CASE RunNeverStarts(c)
  BY <1>1, <1>5 DEF RunNeverStarts, vars
<1>6. ASSUME NEW end \in Occurring, RunEnds(c, end)
      PROVE  (\A d \in Calls \ {c} : Same(d)) /\ UNCHANGED <<caller, cancelled, cleanup, swept>>
  <2>1. PICK verdict : Ends(c, verdict)
    BY <1>6 DEF RunEnds
  <2>2. \A d \in Calls \ {c} : attempt'[d] = attempt[d]
    BY <1>1, <2>1, EndsShape DEF IInv
  <2> QED
    BY <1>1, <1>6, <2>2 DEF RunEnds, Leave
<1> QED
  BY <1>2, <1>3, <1>4, <1>5, <1>6 DEF RunnerStarts

\* The step of the caller.
LEMMA CallerStands ==
  ASSUME SdkInv, NEW c \in Calls, Stands(c),
         \/ SubmitInvalid(c) \/ ContinueInvalid(c) \/ Submit(c) \/ Continue(c) \/ CallerNext(c)
           \/ CancelCaller(c) \/ CancelResponse(c)
  PROVE  Stands(c)'
<1>1. SdkTypeOK /\ IdleHasNoRunner /\ attempt' = attempt /\ UNCHANGED <<cleanup, swept>>
  BY CallerApart DEF SdkInv
<1> USE DEF SdkTypeOK, Stands, Asking, Live
<1>2. CASE SubmitInvalid(c) \/ ContinueInvalid(c)
  BY <1>1, <1>2 DEF SubmitInvalid, ContinueInvalid, IdleHasNoRunner
<1>3. CASE Submit(c) \/ Continue(c)
  <2>1. /\ caller[c] = "idle" /\ runner[c] = "none"
        /\ caller'[c] = "waiting" /\ runner'[c] = "created" /\ admission'[c] = "pending"
        /\ ending' = ending /\ cancelled' = cancelled
    BY <1>1, <1>3 DEF Submit, Continue, SpawnRun, IdleHasNoRunner
  <2> QED
    BY <1>1, <2>1
<1>4. CASE CallerAdmitted(c) \/ CallerReturns(c) \/ CallerRefused(c) \/ CallerJoined(c)
  <2>1. /\ caller'[c] \in {"wrapping", "answered", "raised", "cancelled"}
        /\ caller[c] \notin {"idle", "raised"}
        /\ UNCHANGED <<runner, cancelled, admission, ending>>
    BY <1>1, <1>4 DEF CallerAdmitted, CallerReturns, CallerRefused, CallerJoined
  <2> QED
    BY <1>1, <2>1
<1>5. CASE CallerLeaves(c)
  <2>1. /\ caller[c] = "leaving" /\ runner[c] \in {"running", "ended"}
        /\ caller'[c] = "joining" /\ UNCHANGED <<runner, admission, ending>>
        /\ runner[c] = "running" => cancelled'[c]
    BY <1>1, <1>5 DEF CallerLeaves, RunnerStates
  <2> QED
    BY <1>1, <2>1
<1>6. CASE CancelCaller(c)
  <2>1. /\ caller[c] \in {"waiting", "wrapping"} /\ caller'[c] \in {"leaving", "cancelled"}
        /\ admission'[c] = admission[c] \/ admission'[c] = "cancelled"
        /\ UNCHANGED <<runner, cancelled, ending>>
    BY <1>1, <1>6 DEF CancelCaller
  <2> QED
    BY <1>1, <2>1
<1>7. CASE CancelResponse(c)
  <2>1. /\ caller[c] = "answered" /\ runner[c] = "running" /\ cancelled'[c] = TRUE
        /\ UNCHANGED <<caller, runner, admission, ending>>
    BY <1>1, <1>7 DEF CancelResponse
  <2> QED
    BY <1>1, <2>1
<1> QED
  BY <1>2, <1>3, <1>4, <1>5, <1>6, <1>7 DEF CallerNext

\* The step of the runner.
LEMMA RunnerStands ==
  ASSUME SdkInv, NEW c \in Calls, Stands(c),
         RunnerStarts(c) \/ \E end \in Occurring : RunEnds(c, end)
  PROVE  Stands(c)'
<1>1. SdkTypeOK /\ UNCHANGED <<caller, cancelled, cleanup, swept>>
  BY RunnerApart DEF SdkInv
<1>2. "never_started" \notin Occurring
  BY OccurringAssumption DEF Endings, Terminals, Errors
<1> USE DEF SdkTypeOK, Stands, Live
<1>3. CASE RunAdmitted(c)
  <2>1. /\ runner[c] = "created" /\ ~cancelled[c] /\ admission[c] = "pending"
        /\ admission'[c] = "granted" /\ runner'[c] = "running" /\ ending' = ending
    BY <1>1, <1>3 DEF RunAdmitted, Starts
  <2> QED
    BY <1>1, <2>1
<1>4. CASE RunAbandoned(c)
  <2>1. /\ runner[c] = "created" /\ admission[c] = "cancelled" /\ admission' = admission
        /\ runner'[c] = "ended" /\ ending'[c] = "cancelled"
    BY <1>1, <1>4 DEF RunAbandoned, Starts, Leave
  <2> QED
    BY <1>1, <2>1
<1>5. CASE RunRefused(c)
  <2>1. /\ runner[c] = "created" /\ runner'[c] = "ended" /\ ending'[c] = "refused"
        /\ admission'[c] = IF admission[c] = "pending" THEN "refused" ELSE admission[c]
    BY <1>1, <1>5 DEF RunRefused, Starts, Leave
  <2> QED
    BY <1>1, <2>1
<1>6. CASE RunNeverStarts(c)
  <2>1. /\ runner[c] = "created" /\ runner'[c] = "ended" /\ ending'[c] = "never_started"
        /\ admission' = admission
    BY <1>1, <1>6 DEF RunNeverStarts
  <2> QED
    BY <1>1, <2>1
<1>7. ASSUME NEW end \in Occurring, RunEnds(c, end) PROVE Stands(c)'
  <2>1. /\ runner[c] = "running" /\ runner'[c] = "ended" /\ ending'[c] = end
        /\ admission' = admission
    BY <1>1, <1>7 DEF RunEnds, Leave
  <2> QED
    BY <1>1, <1>2, <2>1
<1> QED
  BY <1>3, <1>4, <1>5, <1>6, <1>7 DEF RunnerStarts

\* Cleanup asks every runner it is going to wait for.
LEMMA CleanupStands ==
  ASSUME SdkInv, WaitInv, CleanupStarts \/ CleanupEnds, NEW d \in Calls
  PROVE  Stands(d)'
<1>1. SdkTypeOK /\ Stands(d)
  BY DEF SdkInv, WaitInv
<1>2. CASE CleanupEnds
  BY <1>1, <1>2 DEF CleanupEnds, Stands, Asking, Live, vars
<1>3. CASE CleanupStarts
  <2>1. /\ UNCHANGED <<caller, runner, admission, ending, attempt>> /\ swept' = Listed
        /\ cancelled'[d] <=> (cancelled[d] \/ (d \in Listed /\ Live(d)))
    BY <1>1, <1>3 DEF CleanupStarts, vars
  <2>2. d \in Listed => runner[d] # "none"
    BY DEF WaitInv, ListedWereSpawned, Listed
  <2>3. runner[d] \in RunnerStates
    BY <1>1 DEF SdkTypeOK
  <2> QED
    BY <1>1, <2>1, <2>2, <2>3 DEF Stands, Asking, Live, RunnerStates
<1> QED
  BY <1>2, <1>3

LEMMA WaitStep == SdkInv /\ WaitInv /\ [SdkNext]_allVars => WaitInv'
<1> SUFFICES ASSUME SdkInv, WaitInv, [SdkNext]_allVars PROVE WaitInv'
  OBVIOUS
<1>1. ListedWereSpawned'
  BY SpawnedStep DEF WaitInv
<1> SUFFICES ASSUME NEW d \in Calls PROVE Stands(d)'
  BY <1>1 DEF WaitInv
<1>2. \A c \in Calls : Stands(c)
  BY DEF WaitInv
<1>3. ASSUME NEW c \in Calls,
             \/ SubmitInvalid(c) \/ ContinueInvalid(c) \/ Submit(c) \/ Continue(c) \/ CallerNext(c)
               \/ CancelCaller(c) \/ CancelResponse(c)
      PROVE  Stands(d)'
  BY <1>2, <1>3, CallerApart, CallerStands, StandsKept
<1>4. ASSUME NEW c \in Calls, RunnerStarts(c) \/ \E end \in Occurring : RunEnds(c, end)
      PROVE  Stands(d)'
  BY <1>2, <1>4, RunnerApart, RunnerStands, StandsKept
<1>5. CASE CleanupStarts \/ CleanupEnds
  BY <1>5, CleanupStands
<1>6. CASE (Tick /\ UNCHANGED sdkVars) \/ UNCHANGED allVars
  <2>1. Same(d) /\ UNCHANGED <<cleanup, swept>>
    BY <1>6 DEF Tick, sdkVars, allVars, vars, Same
  <2> QED
    BY <1>2, <2>1, StandsKept
<1> QED
  BY <1>3, <1>4, <1>5, <1>6 DEF SdkNext

\* A caller that waits for its admission, a cancelled caller that waits for its runner
\* and a cleanup that waits for what it swept all wait for a runner that can take its
\* next step, whoever else was cancelled, refused or abandoned.
THEOREM WaitersAreServed == SdkSpec => []NobodyWaitsInVain
<1>1. SdkInit => WaitInv
  BY DEF SdkInit, Init, Idle, WaitInv, ListedWereSpawned, Stands, Asking
<1>2. WaitInv => NobodyWaitsInVain
  BY DEF WaitInv, Stands, NobodyWaitsInVain
<1> QED
  BY <1>1, <1>2, WaitStep, AlwaysSdkInv, PTL DEF SdkSpec, SdkSteps

-----------------------------------------------------------------------------
(* Cancellations, and the promise of the breaker *)

\* A cancellation adds no failure and opens nothing.
THEOREM CancelledRunsDoNotCount == SdkSpec => CancellationIsNeutral
<1> DEFINE Neutral == /\ consecutiveFailures' = consecutiveFailures
                      /\ phase = "closed" => phase' = "closed"
                      /\ phase' = "open" => openUntil' <= clock \/ UNCHANGED breakerVars
           Stops(d) == ending[d] = "none" /\ ending'[d] \in {"cancelled", "never_started"}
<1>1. ASSUME SdkInv, SdkNext, NEW d \in Calls, Stops(d)
      PROVE  Neutral
  <2> SUFFICES ASSUME ~UNCHANGED breakerVars PROVE Neutral
    BY DEF breakerVars
  <2>1. /\ IInv /\ clock \in Nat
        /\ ending \in [Calls -> Endings \cup {"none", "refused", "never_started"}]
    BY <1>1 DEF SdkInv, SdkTypeOK, IInv, TypeOK
  <2>2. ASSUME NEW c \in Calls, RunAbandoned(c)
        PROVE  Neutral
    <3>1. /\ phase # "closed" /\ openUntil' = clock
          /\ consecutiveFailures' = consecutiveFailures
      BY <2>1, <2>2, AbandonedShape
    <3> QED
      BY <2>1, <3>1
  <2>3. ASSUME NEW c \in Calls, NEW end \in Occurring, RunEnds(c, end)
        PROVE  Neutral
    <3>1. ending' = [ending EXCEPT ![c] = end]
      BY <2>3 DEF RunEnds, Leave
    <3>2. end = "cancelled"
      BY <1>1, <2>1, <3>1, OccurringAssumption DEF Endings, Terminals, Errors
    <3>3. VerdictOf(MarkFor(end), ExitFor(end)) = "ignored"
      BY <3>2 DEF VerdictOf, MarkFor, ExitFor, Terminals, Errors
    <3>4. Counts(c) /\ RecordVerdict("ignored")
      BY <2>3, <3>3 DEF RunEnds
    <3>5. phase = "half_open" /\ ReleaseProbe
      BY <3>4 DEF RecordVerdict
    <3> QED
      BY <2>1, <3>5 DEF ReleaseProbe
  <2>4. ASSUME NEW c \in Calls, RunAdmitted(c) PROVE UNCHANGED ending
    BY <2>4 DEF RunAdmitted
  <2>5. \/ UNCHANGED breakerVars
        \/ UNCHANGED ending
        \/ \E c \in Calls : RunAbandoned(c) \/ \E end \in Occurring : RunEnds(c, end)
    <3>1. ASSUME NEW c \in Calls,
                 \/ SubmitInvalid(c) \/ ContinueInvalid(c) \/ Submit(c) \/ Continue(c)
                 \/ CallerNext(c) \/ CancelCaller(c) \/ CancelResponse(c) \/ RunNeverStarts(c)
          PROVE  UNCHANGED breakerVars
      BY <3>1 DEF SubmitInvalid, ContinueInvalid, Submit, Continue, SpawnRun, CallerNext,
           CallerAdmitted, CallerReturns, CallerRefused, CallerLeaves, CallerJoined, CancelCaller,
           CancelResponse, RunNeverStarts, vars
    <3>2. ASSUME NEW c \in Calls, RunRefused(c) PROVE UNCHANGED breakerVars
      BY <3>2 DEF RunRefused, Reject
    <3>3. ASSUME CleanupStarts \/ CleanupEnds \/ Tick PROVE UNCHANGED breakerVars
      BY <3>3 DEF CleanupStarts, CleanupEnds, Tick, vars
    <3> QED
      BY <1>1, <2>4, <3>1, <3>2, <3>3 DEF SdkNext, RunnerStarts
  <2>6. ~UNCHANGED ending
    BY <1>1
  <2> QED
    BY <2>2, <2>3, <2>5, <2>6
<1>2. SdkInv /\ [SdkNext]_allVars =>
        [\A c \in Calls :
           ending[c] = "none" /\ ending'[c] \in {"cancelled", "never_started"} =>
             /\ consecutiveFailures' = consecutiveFailures
             /\ phase = "closed" => phase' = "closed"
             /\ phase' = "open" => openUntil' <= clock \/ UNCHANGED breakerVars]_allVars
  BY <1>1
<1> QED
  BY <1>2, AlwaysSdkInv, PTL DEF SdkSpec, SdkSteps, CancellationIsNeutral

\* An admission nobody waits for is, to the abstract breaker, nothing at all or
\* the end of a probe that outlived its window.
LEMMA MapAbandoned ==
  ASSUME IInv, NEW c \in Calls, RunAbandoned(c)
  PROVE  UNCHANGED mapped \/ \E d \in Calls : Promise!Ignore(d)
<1>1. /\ TypeOK /\ GenerationsReached /\ SingleProbe
      /\ generation \in Nat /\ clock \in Nat
      /\ \A d \in Calls : attempt[d].generation \in Nat
  BY DEF IInv, TypeOK, Attempts
<1>2. /\ attempt'[c].status = "done" /\ ~Running(c) /\ clock' = clock
      /\ \A d \in Calls \ {c} : attempt'[d] = attempt[d]
  BY AbandonedShape
<1>3. CASE phase = "closed" /\ UNCHANGED breakerVars
  <2>1. \A d \in Calls : Counts(d)' <=> Counts(d)
    BY <1>2, <1>3 DEF Counts, Running, breakerVars
  <2> QED
    BY <1>2, <1>3, <2>1 DEF mapped, InCounting, Streak, Waiting, RefusesUntil, breakerVars
<1>4. CASE /\ phase # "closed" /\ RefusesUntil <= clock
           /\ attempt'[c].generation = generation + 1
           /\ phase' = "open" /\ openUntil' = clock
           /\ generation' = generation + 2
  <2>1. InCounting' = {}
    BY <1>1, <1>2, <1>4 DEF InCounting, Counts, GenerationsReached
  <2>2. Streak = 0 /\ Streak' = 0
    BY <1>4 DEF Streak
  <2>3. RefusesUntil \in Nat
    BY <1>1 DEF TypeOK, RefusesUntil, Phases
  <2>4. Waiting = 0
    BY <1>1, <1>4, <2>3 DEF Waiting
  <2>5. Waiting' = 0
    BY <1>1, <1>2, <1>4 DEF Waiting, RefusesUntil
  <2>6. CASE phase = "open"
    <3>1. InCounting = {}
      BY <1>1, <2>6 DEF SingleProbe, InCounting
    <3> QED
      BY <1>4, <2>1, <2>2, <2>4, <2>5, <2>6, <3>1 DEF mapped
  <2>7. CASE phase = "half_open"
    <3>1. PICK d \in Calls : Counts(d)
      BY <1>1, <2>7 DEF SingleProbe
    <3>2. InCounting = {d}
      BY <1>1, <2>7, <3>1 DEF SingleProbe, InCounting
    <3>3. Promise!Ignore(d)
      BY <1>4, <2>1, <2>2, <2>5, <2>7, <3>2 DEF Promise!Ignore, InCounting, Streak
    <3> QED
      BY <3>3
  <2> QED
    BY <1>1, <1>4, <2>6, <2>7 DEF TypeOK, Phases
<1> QED
  BY <1>3, <1>4, AbandonedShape

\* Under the SDK, whatever its callers and its cleanup do, the breaker is still
\* the abstract breaker.
THEOREM SdkKeepsPromise == SdkSpec => ImplementsPromise
<1>1. SdkInit => Promise!Init
  BY DEF SdkInit, Init, Promise!Init, Counts, Running, Idle, Waiting, RefusesUntil
<1>2. SdkInv /\ SdkInv' /\ [SdkNext]_allVars => [Promise!Next]_(Promise!promiseVars)
  <2> SUFFICES ASSUME SdkInv, SdkInv', [SdkNext]_allVars
               PROVE  Promise!Next \/ UNCHANGED mapped
    BY DEF Promise!promiseVars, mapped, Streak, InCounting
  <2>1. IInv /\ IInv'
    BY DEF SdkInv
  <2>2. CASE UNCHANGED vars
    BY <2>2 DEF vars, breakerVars, mapped, Streak, InCounting, Counts, Running,
         Waiting, RefusesUntil
  <2>3. CASE Tick
    BY <2>1, <2>3, MapTick DEF Promise!Next
  <2>4. ASSUME NEW c \in Calls, AdmitClosed(c) \/ AdmitProbe(c) \/ Reject(c)
        PROVE  Promise!Next \/ UNCHANGED mapped
    BY <2>1, <2>4, MapAdmitClosed, MapAdmitProbe, MapStutter DEF Promise!Next
  <2>5. ASSUME NEW c \in Calls, RunAbandoned(c)
        PROVE  Promise!Next \/ UNCHANGED mapped
    BY <2>1, <2>5, MapAbandoned DEF Promise!Next
  <2>6. ASSUME NEW c \in Calls, NEW verdict \in Verdicts \ {"pending"}, Takes(c, verdict)
        PROVE  Promise!Next \/ UNCHANGED mapped
    BY <2>1, <2>6, MapVerdict, MapDiscarded DEF Promise!Next
  <2> QED
    BY <2>2, <2>3, <2>4, <2>5, <2>6, BreakerSteps
<1> QED
  BY <1>1, <1>2, AlwaysSdkInv, PTL DEF SdkSpec, SdkSteps, ImplementsPromise, Promise!Spec
=============================================================================
