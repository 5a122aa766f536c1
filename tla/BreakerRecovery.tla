--------------------------- MODULE BreakerRecovery ---------------------------
(***************************************************************************)
(* The breaker together with the dependency it guards and callers that     *)
(* keep coming.  The abstract breaker has finitely many states however     *)
(* long it runs, so what must eventually happen is checked here.           *)
(***************************************************************************)
EXTENDS BreakerPromise

VARIABLE healthy  \* the dependency answers, with success, within a probe window

recoveryVars == <<promiseVars, healthy>>

RecoveryInit == Init /\ healthy = TRUE

\* The dependency fails and recovers as it pleases.
Turn == healthy' = ~healthy /\ UNCHANGED promiseVars

\* A healthy dependency answers the probe before its window is over.
Elapse ==
  /\ healthy /\ mode = "half_open" => wait > 1
  /\ Tick
  /\ UNCHANGED healthy

Ask == \E c \in Calls : Admit(c) /\ UNCHANGED healthy

AnswerWell == healthy /\ (\E c \in Calls : Succeed(c)) /\ UNCHANGED healthy

\* An unhealthy dependency may fail a call, or never answer it.
AnswerBadly == ~healthy /\ (\E c \in Calls : Fail(c)) /\ UNCHANGED healthy

Abandon == (\E c \in Calls : Ignore(c)) /\ UNCHANGED healthy

RecoveryNext == Turn \/ Elapse \/ Ask \/ AnswerWell \/ AnswerBadly \/ Abandon

(* Time passes and somebody asks: the monotonic clock and callers that retry.
   A healthy dependency answers in the end even if some callers give up first.
   Nothing makes an unhealthy dependency answer or recover.                   *)
RecoveryFairness ==
  /\ WF_recoveryVars(Elapse)
  /\ WF_recoveryVars(Ask)
  /\ SF_recoveryVars(AnswerWell)

RecoverySpec == RecoveryInit /\ [][RecoveryNext]_recoveryVars /\ RecoveryFairness

\* Once the dependency is healthy for good, the breaker closes and stays closed,
\* whatever failed, was cancelled or never answered before; and it never refuses for
\* ever: as long as some caller is outside, calls go on being admitted, also when the
\* probe it waits for never returns.
Recovers ==
  /\ <>[]healthy => <>[](mode = "closed")
  /\ []<><<Ask>>_recoveryVars \/ <>[](counting = Calls)
=============================================================================
