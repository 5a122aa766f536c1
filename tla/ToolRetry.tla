------------------------------ MODULE ToolRetry ------------------------------
(***************************************************************************)
(* The runs of registered tools: the semaphore, the retry loop inside the  *)
(* deadline and the thread pool of the sync tools (_execute_tool_use,      *)
(* _run_registered_tool, _invoke_registered_tool_with_retry and the        *)
(* executor wrapper of register_tool in src/src/dualeai/sdk.py).  A sync   *)
(* tool cannot be cancelled: its thread outlives the attempt that waits    *)
(* for it.  An async one can, and its attempt waits until it has stopped.  *)
(* Time is the estimated server time.                                      *)
(***************************************************************************)
EXTENDS Integers, FiniteSets

CONSTANTS
  Calls,     \* tool calls, one _execute_tool_use each
  Sync,      \* those whose tool is a plain def
  Deadline,  \* deadline_at of each call
  Timeout,   \* timeout_seconds of the tools
  Retries,   \* retries of the tools
  Backoff,   \* TOOL_RETRY_BACKOFF_MAX_SECONDS
  MaxTools,  \* permits of the semaphore and workers of the pool
  MaxTime    \* bound on the clock

ASSUME CallsAssumption ==
  /\ Sync \subseteq Calls
  /\ IsFiniteSet(Calls)
  /\ Deadline \in [Calls -> Nat]

ASSUME LimitsAssumption ==
  /\ Timeout \in Nat \ {0}
  /\ Retries \in Nat
  /\ Backoff \in Nat
  /\ MaxTools \in Nat \ {0}
  /\ MaxTime \in Nat

VARIABLES
  clock,   \* estimated server time
  call,    \* the run of each call
  pending, \* <<call, attempt>> submitted to the pool and not started
  threads  \* <<call, attempt>> running in a worker

vars == <<clock, call, pending, threads>>

\* until: when the attempt times out, or the backoff is over.  "stopping" is an async
\* attempt that timed out and whose coroutine has not ended.
States == {"queued", "attempt", "stopping", "backoff", "success", "error"}

Init ==
  /\ clock = 0
  /\ call = [c \in Calls |-> [state |-> "queued", attempts |-> 0, until |-> 0]]
  /\ pending = {}
  /\ threads = {}

-----------------------------------------------------------------------------
\* Those that wait for a timer, and those that have a permit.
Timed == {c \in Calls : call[c].state \in {"attempt", "backoff"}}
Holding == Timed \cup {c \in Calls : call[c].state = "stopping"}

Body(c) == <<c, call[c].attempts>>

\* Timers fire when they are due.
Tick ==
  /\ clock < MaxTime
  /\ \A c \in Timed : clock < call[c].until
  /\ clock' = clock + 1
  /\ UNCHANGED <<call, pending, threads>>

\* Mutant: the retry loop counts attempts and ignores the deadline.
StopsByCount(c, attempts) == attempts > Retries

\* stop_after_attempt(retries + 1) | stop_after_delay(deadline_budget), where the
\* budget is what was left of the deadline when the loop began.
Stops(c, attempts) == attempts > Retries \/ clock >= Deadline[c]

\* The attempt raised: the call's error result, or a backoff.
Raises(c, attempts) ==
  IF Stops(c, attempts)
    THEN call' = [call EXCEPT ![c] = [state |-> "error", attempts |-> attempts, until |-> clock]]
    ELSE \E wait \in 0 .. Backoff :
           call' = [call EXCEPT ![c] = [state |-> "backoff", attempts |-> attempts,
                                        until |-> clock + wait]]

\* One attempt, inside the tool's timeout and what is left of the deadline.
Begin(c, attempts) ==
  LET remaining == Deadline[c] - clock
  IN IF remaining <= 0
       THEN Raises(c, attempts) /\ UNCHANGED pending
       ELSE /\ call' = [call EXCEPT ![c] =
                 [state |-> "attempt", attempts |-> attempts,
                  until |-> clock + (IF Timeout < remaining THEN Timeout ELSE remaining)]]
            /\ pending' = IF c \in Sync THEN pending \cup {<<c, attempts>>} ELSE pending

\* A permit: the deadline budget starts and so does the first attempt.
Acquire(c) ==
  /\ call[c].state = "queued"
  /\ Cardinality(Holding) < MaxTools
  /\ Begin(c, 1)
  /\ UNCHANGED <<clock, threads>>

\* Arguments the tool does not accept: an error result without an attempt.
InvalidInput(c) ==
  /\ call[c].state = "queued"
  /\ Cardinality(Holding) < MaxTools
  /\ call' = [call EXCEPT ![c].state = "error"]
  /\ UNCHANGED <<clock, pending, threads>>

Retry(c) ==
  /\ call[c].state = "backoff"
  /\ clock = call[c].until
  /\ Begin(c, call[c].attempts + 1)
  /\ UNCHANGED <<clock, threads>>

\* The body that the attempt waits for is under way.
Executing(c) ==
  call[c].state = "attempt" /\ (c \in Sync => Body(c) \in threads)

\* tool_success_output: a value that is not JSON-serializable is an error.
Outputs == {"success", "error"}

Returns(c) ==
  /\ Executing(c)
  /\ \E output \in Outputs : call' = [call EXCEPT ![c].state = output]
  /\ threads' = threads \ {Body(c)}
  /\ UNCHANGED <<clock, pending>>

Fails(c) ==
  /\ Executing(c)
  /\ Raises(c, call[c].attempts)
  /\ threads' = threads \ {Body(c)}
  /\ UNCHANGED <<clock, pending>>

\* wait_for ends a sync attempt at its timer; it cancels an async body and goes on
\* only when that has ended.
GivesUp(c) ==
  IF c \in Sync THEN Raises(c, call[c].attempts)
                ELSE call' = [call EXCEPT ![c].state = "stopping"]

\* Mutant: the attempt waits for its thread before it gives up.
TimesOutAfterThread(c) ==
  /\ call[c].state = "attempt"
  /\ clock = call[c].until
  /\ Body(c) \notin threads
  /\ GivesUp(c)
  /\ pending' = pending \ {Body(c)}
  /\ UNCHANGED <<clock, threads>>

\* Mutant: a body still in the pool's queue is left there.
TimesOutQueued(c) ==
  /\ call[c].state = "attempt"
  /\ clock = call[c].until
  /\ GivesUp(c)
  /\ UNCHANGED <<clock, pending, threads>>

\* A thread that has not started is withdrawn; one that has goes on without anybody
\* waiting for it.
TimesOut(c) ==
  /\ call[c].state = "attempt"
  /\ clock = call[c].until
  /\ GivesUp(c)
  /\ pending' = pending \ {Body(c)}
  /\ UNCHANGED <<clock, threads>>

\* The cancelled body ends: with the cancellation or an exception of its own, or with
\* a value that it returns all the same.
Stopped(c) ==
  /\ call[c].state = "stopping"
  /\ \/ Raises(c, call[c].attempts)
     \/ \E output \in Outputs : call' = [call EXCEPT ![c].state = output]
  /\ UNCHANGED <<clock, pending, threads>>

\* A worker takes a body.
ThreadStarts(b) ==
  /\ b \in pending
  /\ Cardinality(threads) < MaxTools
  /\ pending' = pending \ {b}
  /\ threads' = threads \cup {b}
  /\ UNCHANGED <<clock, call>>

\* Nobody waits for the body any more: its result is discarded.
Orphaned(b) == call[b[1]].state # "attempt" \/ call[b[1]].attempts # b[2]

OrphanEnds(b) ==
  /\ b \in threads
  /\ Orphaned(b)
  /\ threads' = threads \ {b}
  /\ UNCHANGED <<clock, call, pending>>

-----------------------------------------------------------------------------
Steps(c) == Acquire(c) \/ InvalidInput(c) \/ Retry(c) \/ TimesOut(c)

Next ==
  \/ Tick
  \/ \E c \in Calls : Steps(c) \/ Returns(c) \/ Fails(c) \/ Stopped(c)
  \/ \E b \in pending : ThreadStarts(b)
  \/ \E b \in threads : OrphanEnds(b)

(* Time passes, the event loop runs, and an async tool ends once it is cancelled,
   as its author is told (decorators.py).  Nothing says that a tool returns before
   that, or that a thread ever starts or ends. *)
Fairness ==
  WF_vars(Tick) /\ \A c \in Calls : WF_vars(Steps(c)) /\ WF_vars(Stopped(c))

Spec == Init /\ [][Next]_vars

FairSpec == Spec /\ Fairness

-----------------------------------------------------------------------------
(* Properties *)

TypeOK ==
  /\ clock \in 0 .. MaxTime
  /\ call \in [Calls -> [state : States, attempts : 0 .. Retries + 1, until : Nat]]
  /\ pending \subseteq Sync \X (1 .. Retries + 1)
  /\ threads \subseteq Sync \X (1 .. Retries + 1)

\* "Total elapsed is bounded to the deadline plus at most one backoff interval": a
\* run holds its permit no longer than that.  What may hold it longer is an async tool
\* that has been cancelled, by the deadline at the latest, and has not ended.
ElapsedBounded ==
  \A c \in Holding :
    IF call[c].state = "stopping" THEN c \notin Sync /\ call[c].until <= Deadline[c]
                                  ELSE clock <= Deadline[c] + Backoff

\* A sync body starts only while its own attempt waits for it and never past the
\* deadline: a call that has been answered does not begin its side effect.
StartsWhileAwaited ==
  [][\A b \in threads' \ threads :
       /\ call[b[1]].state = "attempt" /\ call[b[1]].attempts = b[2]
       /\ clock <= Deadline[b[1]]]_vars

\* Every call gets a result, though its thread hang, all workers be taken and no async
\* tool end before it is cancelled.
CallsEnd == \A c \in Calls : <>(call[c].state \in {"success", "error"})
=============================================================================
