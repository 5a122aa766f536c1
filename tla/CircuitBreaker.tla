--------------------------- MODULE CircuitBreaker ---------------------------
(***************************************************************************)
(* The process-local circuit breaker that guards task execution            *)
(* (src/src/dualeai/_circuit_breaker.py).  Calls are the tasks that enter  *)
(* `async with breaker.protect()`.  The asyncio lock is never held across  *)
(* a suspension, so `_admit` and `_complete` are one atomic step each.     *)
(*                                                                         *)
(* What an attempt remembers beyond the code's generation and outcome (the *)
(* clock at admission, whether it was the recovery probe, its verdict) and *)
(* `verdicts`, the order in which attempts ended, are history: no guard    *)
(* reads them, the properties do.                                          *)
(***************************************************************************)
EXTENDS Integers, Sequences, FiniteSets

CONSTANTS
  Calls,       \* protected calls; each enters the breaker at most once
  Failures,    \* failure threshold: `failures`
  Recovery,    \* length of the open window and of the probe window: `recovery_timeout`
  MaxTime      \* bound on the clock

ASSUME FailuresAssumption == Failures \in Nat \ {0}
ASSUME RecoveryAssumption == Recovery \in Nat \ {0}
ASSUME MaxTimeAssumption == MaxTime \in Nat

VARIABLES
  phase,                \* _phase
  generation,           \* _generation
  consecutiveFailures,  \* _consecutive_failures
  openUntil,            \* _open_until
  probeUntil,           \* _probe_until
  clock,                \* what _clock() returns, in whole ticks
  attempt,              \* the _Attempt of each call
  verdicts              \* history: generation and verdict of each ended attempt

breakerVars == <<phase, generation, consecutiveFailures, openUntil, probeUntil>>
vars == <<breakerVars, clock, attempt, verdicts>>

Phases == {"closed", "open", "half_open"}
Outcomes == {"unmarked", "failure", "ignored"}
Verdicts == {"pending", "success", "failure", "ignored"}

Attempts ==
  [status : {"idle", "rejected", "running", "done"}, generation : Nat,
   outcome : Outcomes, verdict : Verdicts, probe : BOOLEAN, at : Nat]

Idle == [status |-> "idle", generation |-> 0, outcome |-> "unmarked",
         verdict |-> "pending", probe |-> FALSE, at |-> 0]

Running(c) == attempt[c].status = "running"

\* A call that still runs and whose result _complete will not discard.
Counts(c) == Running(c) /\ attempt[c].generation = generation

-----------------------------------------------------------------------------
Init ==
  /\ phase = "closed"
  /\ generation = 0
  /\ consecutiveFailures = 0
  /\ openUntil = 0
  /\ probeUntil = 0
  /\ clock = 0
  /\ attempt = [c \in Calls |-> Idle]
  /\ verdicts = << >>

\* Time passes; nothing in the breaker reacts to it.
Tick ==
  /\ clock < MaxTime
  /\ clock' = clock + 1
  /\ UNCHANGED <<breakerVars, attempt, verdicts>>

-----------------------------------------------------------------------------
(* _admit *)

\* A rejected caller may ask again.
Asking(c) == attempt[c].status \in {"idle", "rejected"}

Admitted(c, gen, isProbe) ==
  attempt' = [attempt EXCEPT ![c] =
    [Idle EXCEPT !.status = "running", !.generation = gen,
                 !.probe = isProbe, !.at = clock]]

\* The end of the window in which the phase refuses every call.
RefusesUntil ==
  CASE phase = "open" -> openUntil
    [] phase = "half_open" -> probeUntil
    [] phase = "closed" -> 0

AdmitClosed(c) ==
  /\ Asking(c)
  /\ phase = "closed"
  /\ Admitted(c, generation, FALSE)
  /\ UNCHANGED <<breakerVars, clock, verdicts>>

\* _CircuitOpenError
Reject(c) ==
  /\ Asking(c)
  /\ phase # "closed"
  /\ clock < RefusesUntil
  /\ attempt' = [attempt EXCEPT ![c] = [Idle EXCEPT !.status = "rejected"]]
  /\ UNCHANGED <<breakerVars, clock, verdicts>>

\* _reserve_probe, from an expired open window or over an expired probe.
AdmitProbe(c) ==
  /\ Asking(c)
  /\ phase # "closed"
  /\ clock >= RefusesUntil
  /\ phase' = "half_open"
  /\ generation' = generation + 1
  /\ probeUntil' = clock + Recovery
  /\ Admitted(c, generation + 1, TRUE)
  /\ UNCHANGED <<consecutiveFailures, openUntil, clock, verdicts>>

-----------------------------------------------------------------------------
(* The body of the `async with`: fail() and ignore(); the first mark wins. *)
Mark(c, outcome) ==
  /\ Running(c)
  /\ attempt[c].outcome = "unmarked"
  /\ attempt' = [attempt EXCEPT ![c].outcome = outcome]
  /\ UNCHANGED <<breakerVars, clock, verdicts>>

-----------------------------------------------------------------------------
(* _complete *)

\* How the body of protect() can end.
Exits == {"return", "exception", "cancelled", "base_exception"}

\* ignore_cancellation() overrides an earlier mark; ignore() does not; an
\* Exception without a mark is a failure, a return without a mark a success.
VerdictOf(outcome, exit) ==
  CASE exit = "cancelled" -> "ignored"
    [] exit # "cancelled" /\ outcome # "unmarked" -> outcome
    [] exit = "base_exception" /\ outcome = "unmarked" -> "ignored"
    [] exit = "exception" /\ outcome = "unmarked" -> "failure"
    [] exit = "return" /\ outcome = "unmarked" -> "success"

\* _open
Open ==
  /\ phase' = "open"
  /\ openUntil' = clock + Recovery
  /\ probeUntil' = 0
  /\ generation' = generation + 1

\* Mutant: the failures that opened the breaker are carried over.
CloseKeepingFailures ==
  /\ phase' = "closed"
  /\ openUntil' = 0
  /\ probeUntil' = 0
  /\ generation' = generation + 1
  /\ UNCHANGED consecutiveFailures

\* _close
Close ==
  /\ phase' = "closed"
  /\ consecutiveFailures' = 0
  /\ openUntil' = 0
  /\ probeUntil' = 0
  /\ generation' = generation + 1

\* _record_ignored_probe: the slot is free again at once.
ReleaseProbe ==
  /\ phase' = "open"
  /\ openUntil' = clock
  /\ probeUntil' = 0
  /\ generation' = generation + 1
  /\ UNCHANGED consecutiveFailures

\* What a counting verdict does to the breaker.
RecordVerdict(verdict) ==
  \/ /\ verdict = "ignored"
     /\ IF phase = "half_open" THEN ReleaseProbe ELSE UNCHANGED breakerVars
  \/ /\ verdict = "failure"
     /\ phase = "half_open"
     /\ Open
     /\ UNCHANGED consecutiveFailures
  \/ /\ verdict = "failure"
     /\ phase # "half_open"
     /\ consecutiveFailures' = consecutiveFailures + 1
     /\ IF consecutiveFailures + 1 >= Failures
          THEN Open
          ELSE UNCHANGED <<phase, generation, openUntil, probeUntil>>
  \/ /\ verdict = "success"
     /\ phase = "half_open"
     /\ Close
  \/ /\ verdict = "success"
     /\ phase # "half_open"
     /\ consecutiveFailures' = 0
     /\ UNCHANGED <<phase, generation, openUntil, probeUntil>>

Ends(c, verdict) ==
  /\ attempt' = [attempt EXCEPT ![c].status = "done", ![c].verdict = verdict]
  /\ verdicts' = Append(verdicts, [generation |-> attempt[c].generation,
                                   verdict |-> verdict])

\* A result of an earlier generation is discarded.
CompleteStale(c, exit) ==
  /\ Running(c)
  /\ attempt[c].generation # generation
  /\ Ends(c, VerdictOf(attempt[c].outcome, exit))
  /\ UNCHANGED <<breakerVars, clock>>

CompleteCurrent(c, exit) ==
  /\ Counts(c)
  /\ RecordVerdict(VerdictOf(attempt[c].outcome, exit))
  /\ Ends(c, VerdictOf(attempt[c].outcome, exit))
  /\ UNCHANGED clock

-----------------------------------------------------------------------------
Next ==
  \/ Tick
  \/ \E c \in Calls :
       \/ AdmitClosed(c)
       \/ Reject(c)
       \/ AdmitProbe(c)
       \/ \E outcome \in {"failure", "ignored"} : Mark(c, outcome)
       \/ \E exit \in Exits : CompleteStale(c, exit) \/ CompleteCurrent(c, exit)

Spec == Init /\ [][Next]_vars

-----------------------------------------------------------------------------
(* Properties *)

TypeOK ==
  /\ phase \in Phases
  /\ generation \in Nat
  /\ consecutiveFailures \in Nat
  /\ openUntil \in Nat
  /\ probeUntil \in Nat
  /\ clock \in Nat
  /\ attempt \in [Calls -> Attempts]
  /\ verdicts \in Seq([generation : Nat, verdict : Verdicts])

\* One bounded recovery probe.  While the breaker is half open there is exactly
\* one running call whose result counts, it was admitted as a probe, and while
\* the breaker is open there is none: results of calls admitted before the
\* breaker opened, and of probes that were superseded, are all discarded.
SingleProbe ==
  /\ phase = "half_open" =>
       /\ \E c \in Calls : Counts(c) /\ attempt[c].probe
       /\ \A c, d \in Calls : Counts(c) /\ Counts(d) => c = d
  /\ phase = "open" => \A c \in Calls : ~Counts(c)

\* A dependency that may be down is probed at most once in a recovery window:
\* of any two probes the later was admitted at least Recovery after the earlier,
\* unless the earlier one was ignored (cancelled, stopped or a local error),
\* which gives its slot back at once.
ProbeSpacing ==
  \A c, d \in Calls :
    /\ attempt[c].probe /\ attempt[d].probe
    /\ attempt[c].generation < attempt[d].generation
    /\ attempt[c].verdict # "ignored"
    => attempt[d].at >= attempt[c].at + Recovery

\* The verdicts the current closed period has counted.
CountedVerdicts ==
  {i \in 1 .. Len(verdicts) :
     verdicts[i].generation = generation /\ verdicts[i].verdict # "ignored"}

\* Those of them since the last that was not a failure.
FailuresInARow ==
  {i \in CountedVerdicts :
     \A j \in CountedVerdicts : i <= j => verdicts[j].verdict = "failure"}

\* The counter is the number of failures since the last success of this closed
\* period, whatever stale and ignored results arrived in between, and a closed
\* breaker is always below its threshold: it opens on exactly the Failures-th
\* consecutive failure.
StreakIsHistory ==
  phase = "closed" =>
    /\ consecutiveFailures = Cardinality(FailuresInARow)
    /\ consecutiveFailures < Failures

\* The breaker leaves the half-open phase for the closed one only when the call
\* admitted last ends in success: an older call that succeeds late never
\* closes it.
ClosesOnLatestProbe ==
  [][phase # "closed" /\ phase' = "closed" =>
       \E c \in Calls :
         /\ Running(c) /\ attempt'[c].verdict = "success"
         /\ attempt[c].probe
         /\ \A d \in Calls : attempt[d].generation <= attempt[c].generation]_vars

-----------------------------------------------------------------------------
(* The abstract breaker *)

\* What is left of the window in which calls are refused.
Waiting == IF clock < RefusesUntil THEN RefusesUntil - clock ELSE 0

Promise == INSTANCE BreakerPromise WITH
  mode <- phase,
  streak <- IF phase = "closed" THEN consecutiveFailures ELSE 0,
  counting <- {c \in Calls : Counts(c)},
  wait <- Waiting

\* Generations and absolute deadlines implement the breaker as its docstring
\* describes it: only calls of the current period count, one probe per window.
ImplementsPromise == Promise!Spec
=============================================================================
