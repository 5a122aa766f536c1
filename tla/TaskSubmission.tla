--------------------------- MODULE TaskSubmission ---------------------------
(***************************************************************************)
(* Submitting a task (src/src/dualeai/sdk.py): the caller's half           *)
(* (`_spawn_run_task`, `_spawn_and_wrap_response`), the runner it spawns   *)
(* (`_run_task_with_circuit_breaker`), the admission future between them,  *)
(* the table of in-flight runners, and `cleanup` cancelling what it finds  *)
(* in that table.  Each runner is one protected call of CircuitBreaker.    *)
(*                                                                         *)
(* One action is what one coroutine does between two suspensions of the    *)
(* event loop.  The loop is first in, first out: a runner is queued when   *)
(* its caller starts to wait, so a caller that is cancelled while waiting  *)
(* resumes only after its runner has taken (or been denied) a first step.  *)
(***************************************************************************)
EXTENDS CircuitBreaker

CONSTANTS
  TaskIds,   \* the task ids in use
  TaskId,    \* the id of each submission: request_id, or a fresh uuid
  Children,  \* the submissions that continue a task, each under a fresh uuid
  NoCall,    \* an empty slot of the in-flight table
  Occurring  \* the endings of a run that are explored (a bound)

ASSUME TaskIdAssumption == TaskId \in [Calls -> TaskIds]
ASSUME ChildrenAssumption ==
  /\ Children \subseteq Calls
  /\ \A c \in Children : \A d \in Calls \ {c} : TaskId[c] # TaskId[d]
ASSUME NoCallAssumption == NoCall \notin Calls

VARIABLES
  caller,     \* where the code that called submit_task is
  runner,     \* where the spawned task is
  cancelled,  \* the runner has been asked to stop: task.cancel()
  admission,  \* the future the caller awaits
  inflight,   \* _inflight_tasks
  cleanup,    \* where cleanup() is
  swept,      \* the runners cleanup() waits for
  ending      \* history: how each run ended

sdkVars == <<caller, runner, cancelled, admission, inflight, cleanup, swept, ending>>
allVars == <<vars, sdkVars>>

CallerStates ==
  {"idle", "waiting", "wrapping", "answered",  \* the ways of a submission that is admitted
   "leaving", "joining",                       \* cancelled: not resumed yet; awaiting its runner
   "cancelled", "raised"}
RunnerStates == {"none", "created", "running", "ended"}
Admissions == {"none", "pending", "granted", "refused", "cancelled"}

\* How a run can end, seen from the runner: a terminal event, or what
\* CloudEventsClient.run_task raises.
Terminals == {"completed", "error_retryable", "error_final", "stopped"}
Errors ==
  {"connection",           \* DualeAIConnectionError
   "connection_final",     \* the same, and its problem details say not retryable
   "outage",               \* the transport gave up retrying: aiohttp's own error
   "other_error"}          \* authentication, rejection, a parse error, a defect
Endings == Terminals \cup Errors \cup {"cancelled"}

ASSUME OccurringAssumption == "cancelled" \in Occurring /\ Occurring \subseteq Endings

Live(c) == runner[c] \in {"created", "running"}

\* What the runner tells its attempt about the ending.
MarkFor(end) ==
  CASE end = "error_retryable" -> "failure"
    [] end \in {"error_final", "stopped", "connection_final", "outage", "other_error"} -> "ignored"
    [] end \in {"completed", "connection", "cancelled"} -> "unmarked"

\* Mutant: a cancellation is an exception like any other.
ExitForCaught(end) == IF end \in Terminals THEN "return" ELSE "exception"

\* How the ending leaves protect().
ExitFor(end) ==
  CASE end \in Terminals -> "return"
    [] end \in Errors -> "exception"
    [] end = "cancelled" -> "cancelled"

SdkInit ==
  /\ Init
  /\ caller = [c \in Calls |-> "idle"]
  /\ runner = [c \in Calls |-> "none"]
  /\ cancelled = [c \in Calls |-> FALSE]
  /\ admission = [c \in Calls |-> "none"]
  /\ inflight = [id \in TaskIds |-> NoCall]
  /\ cleanup = "idle"
  /\ swept = {}
  /\ ending = [c \in Calls |-> "none"]

-----------------------------------------------------------------------------
(* The caller *)

\* What the code refuses before it spawns or asks anything: an empty action, or
\* a request its model does not admit.
SubmitInvalid(c) ==
  /\ caller[c] = "idle" /\ c \notin Children
  /\ caller' = [caller EXCEPT ![c] = "raised"]
  /\ UNCHANGED <<vars, runner, cancelled, admission, inflight, cleanup, swept, ending>>

\* A deadline of a continuation without a time zone.
ContinueInvalid(c) ==
  /\ caller[c] = "idle" /\ c \in Children
  /\ caller' = [caller EXCEPT ![c] = "raised"]
  /\ UNCHANGED <<vars, runner, cancelled, admission, inflight, cleanup, swept, ending>>

\* Mutant: the table learns of the runner only once it is admitted.
SpawnRunUnlisted(c) ==
  /\ caller[c] = "idle"
  /\ caller' = [caller EXCEPT ![c] = "waiting"]
  /\ runner' = [runner EXCEPT ![c] = "created"]
  /\ admission' = [admission EXCEPT ![c] = "pending"]
  /\ UNCHANGED <<vars, cancelled, inflight, cleanup, swept, ending>>

\* _spawn_run_task up to `await admission`.  A second submission under the id of
\* a running one takes over its slot.
SpawnRun(c) ==
  /\ caller[c] = "idle"
  /\ caller' = [caller EXCEPT ![c] = "waiting"]
  /\ runner' = [runner EXCEPT ![c] = "created"]
  /\ admission' = [admission EXCEPT ![c] = "pending"]
  /\ inflight' = [inflight EXCEPT ![TaskId[c]] = c]
  /\ UNCHANGED <<vars, cancelled, cleanup, swept, ending>>

\* The request of a root or of a child is built without a suspension.
Submit(c) == c \notin Children /\ SpawnRun(c)
Continue(c) == c \in Children /\ SpawnRun(c)

\* The await returns: the response is built, then sleep(0).
CallerAdmitted(c) ==
  /\ caller[c] = "waiting"
  /\ admission[c] = "granted"
  /\ caller' = [caller EXCEPT ![c] = "wrapping"]
  /\ UNCHANGED <<vars, runner, cancelled, admission, inflight, cleanup, swept, ending>>

CallerReturns(c) ==
  /\ caller[c] = "wrapping"
  /\ caller' = [caller EXCEPT ![c] = "answered"]
  /\ UNCHANGED <<vars, runner, cancelled, admission, inflight, cleanup, swept, ending>>

\* The await raises; the runner has ended by then, and the error goes on.
CallerRefused(c) ==
  /\ caller[c] = "waiting"
  /\ admission[c] = "refused"
  /\ runner[c] = "ended"
  /\ caller' = [caller EXCEPT ![c] = "raised"]
  /\ UNCHANGED <<vars, runner, cancelled, admission, inflight, cleanup, swept, ending>>

\* Somebody cancels the caller's task.  Cancelling a wait for a future that is
\* not done cancels the future at once.  During sleep(0) there is no handler:
\* the response is lost and the runner goes on.
CancelCaller(c) ==
  /\ \/ /\ caller[c] = "waiting"
        /\ caller' = [caller EXCEPT ![c] = "leaving"]
        /\ admission' = [admission EXCEPT ![c] = IF @ = "pending" THEN "cancelled" ELSE @]
     \/ /\ caller[c] = "wrapping"
        /\ caller' = [caller EXCEPT ![c] = "cancelled"]
        /\ UNCHANGED admission
  /\ UNCHANGED <<vars, runner, cancelled, inflight, cleanup, swept, ending>>

\* `except CancelledError: task.cancel()`, then await the runner.
CallerLeaves(c) ==
  /\ caller[c] = "leaving"
  /\ runner[c] # "created"
  /\ caller' = [caller EXCEPT ![c] = "joining"]
  /\ cancelled' = [cancelled EXCEPT ![c] = runner[c] = "running"]
  /\ UNCHANGED <<vars, runner, admission, inflight, cleanup, swept, ending>>

\* Only CancelledError is suppressed: any other error of the runner is what the
\* cancelled caller gets.
CallerJoined(c) ==
  /\ caller[c] = "joining"
  /\ runner[c] = "ended"
  /\ caller' = [caller EXCEPT ![c] =
                  IF ending[c] \in Terminals \cup {"cancelled"} THEN "cancelled" ELSE "raised"]
  /\ UNCHANGED <<vars, runner, cancelled, admission, inflight, cleanup, swept, ending>>

\* response.task.cancel()
CancelResponse(c) ==
  /\ caller[c] = "answered"
  /\ runner[c] = "running"
  /\ ~cancelled[c]
  /\ cancelled' = [cancelled EXCEPT ![c] = TRUE]
  /\ UNCHANGED <<vars, caller, runner, admission, inflight, cleanup, swept, ending>>

-----------------------------------------------------------------------------
(* The runner *)

\* finally: the entry goes by key, whoever holds it.
Leave(c, end) ==
  /\ runner' = [runner EXCEPT ![c] = "ended"]
  /\ ending' = [ending EXCEPT ![c] = end]
  /\ inflight' = [inflight EXCEPT ![TaskId[c]] = NoCall]

Starts(c) == runner[c] = "created" /\ ~cancelled[c]

\* protect() admits the run and its caller still waits.
RunAdmitted(c) ==
  /\ Starts(c)
  /\ admission[c] = "pending"
  /\ AdmitClosed(c) \/ AdmitProbe(c)
  /\ admission' = [admission EXCEPT ![c] = "granted"]
  /\ runner' = [runner EXCEPT ![c] = "running"]
  /\ UNCHANGED <<caller, cancelled, inflight, cleanup, swept, ending>>

\* Mutant: the slot of an abandoned probe is blocked for a recovery window.
RunAbandonedLate(c) ==
  /\ Starts(c)
  /\ admission[c] = "cancelled"
  /\ Asking(c)
  /\ phase # "closed" /\ clock >= RefusesUntil
  /\ attempt' = [attempt EXCEPT ![c] = [Idle EXCEPT !.status = "done", !.verdict = "ignored"]]
  /\ phase' = "open"
  /\ openUntil' = clock + Recovery
  /\ probeUntil' = 0
  /\ generation' = generation + 2
  /\ UNCHANGED <<consecutiveFailures, verdicts>>
  /\ Leave(c, "cancelled")
  /\ UNCHANGED <<clock, caller, cancelled, admission, cleanup, swept>>

\* protect() admits the run, but the caller was cancelled: the attempt ends as
\* ignored in the same step, and a probe slot taken is given back.
RunAbandoned(c) ==
  /\ Starts(c)
  /\ admission[c] = "cancelled"
  /\ Asking(c)
  /\ phase # "closed" => clock >= RefusesUntil
  /\ LET probes == phase # "closed"
         reached == IF probes THEN generation + 1 ELSE generation
     IN /\ attempt' = [attempt EXCEPT ![c] =
              [status |-> "done", generation |-> reached, outcome |-> "ignored",
               verdict |-> "ignored", probe |-> probes, at |-> clock]]
        /\ verdicts' = Append(verdicts, [generation |-> reached, verdict |-> "ignored"])
        /\ IF probes
             THEN /\ phase' = "open"
                  /\ openUntil' = clock
                  /\ probeUntil' = 0
                  /\ generation' = reached + 1
                  /\ UNCHANGED consecutiveFailures
             ELSE UNCHANGED breakerVars
  /\ Leave(c, "cancelled")
  /\ UNCHANGED <<clock, caller, cancelled, admission, cleanup, swept>>

\* Mutant: the refusal is not passed to the admission.
RunRefusedSilently(c) ==
  /\ Starts(c)
  /\ Reject(c)
  /\ Leave(c, "refused")
  /\ UNCHANGED <<caller, cancelled, admission, cleanup, swept>>

\* protect() raises _CircuitOpenError, which the admission passes on.
RunRefused(c) ==
  /\ Starts(c)
  /\ Reject(c)
  /\ admission' = [admission EXCEPT ![c] = IF @ = "pending" THEN "refused" ELSE @]
  /\ Leave(c, "refused")
  /\ UNCHANGED <<caller, cancelled, cleanup, swept>>

\* Cancelled before its first step: the coroutine never runs, and neither does
\* its finally.
RunNeverStarts(c) ==
  /\ runner[c] = "created"
  /\ cancelled[c]
  /\ runner' = [runner EXCEPT ![c] = "ended"]
  /\ ending' = [ending EXCEPT ![c] = "never_started"]
  /\ UNCHANGED <<vars, caller, cancelled, admission, inflight, cleanup, swept>>

\* Mutant: protect() does not catch CancelledError.
RunEndsUnrecorded(c, end) ==
  /\ runner[c] = "running"
  /\ cancelled[c]
  /\ end = "cancelled"
  /\ Leave(c, end)
  /\ UNCHANGED <<vars, caller, cancelled, admission, cleanup, swept>>

\* The run ends: its attempt is classified and completed, and its entry leaves.
RunEnds(c, end) ==
  /\ runner[c] = "running"
  /\ cancelled[c] <=> end = "cancelled"
  /\ LET verdict == VerdictOf(MarkFor(end), ExitFor(end))
     IN /\ Ends(c, verdict)
        /\ IF Counts(c) THEN RecordVerdict(verdict) ELSE UNCHANGED breakerVars
  /\ Leave(c, end)
  /\ UNCHANGED <<clock, caller, cancelled, admission, cleanup, swept>>

-----------------------------------------------------------------------------
(* _cleanup_inflight_tasks.  Its wait_for does not cut the wait short: on a   *)
(* timeout it cancels the runners again and waits for them all the same.     *)

Listed == {inflight[id] : id \in TaskIds} \ {NoCall}

CleanupStarts ==
  /\ cleanup = "idle"
  /\ swept' = Listed
  /\ cancelled' = [c \in Calls |-> cancelled[c] \/ (c \in Listed /\ Live(c))]
  /\ cleanup' = IF Listed = {} THEN "done" ELSE "waiting"
  /\ UNCHANGED <<vars, caller, runner, admission, inflight, ending>>

CleanupEnds ==
  /\ cleanup = "waiting"
  /\ \A c \in swept : runner[c] = "ended"
  /\ cleanup' = "done"
  /\ inflight' = [id \in TaskIds |-> NoCall]
  /\ UNCHANGED <<vars, caller, runner, cancelled, admission, swept, ending>>

-----------------------------------------------------------------------------
CallerNext(c) ==
  CallerAdmitted(c) \/ CallerReturns(c) \/ CallerRefused(c) \/ CallerLeaves(c) \/ CallerJoined(c)

RunnerStarts(c) ==
  RunAdmitted(c) \/ RunAbandoned(c) \/ RunRefused(c) \/ RunNeverStarts(c)

SdkNext ==
  \/ Tick /\ UNCHANGED sdkVars
  \/ \E c \in Calls :
       \/ SubmitInvalid(c) \/ ContinueInvalid(c)
       \/ Submit(c) \/ Continue(c)
       \/ CallerNext(c)
       \/ CancelCaller(c)
       \/ CancelResponse(c)
       \/ RunnerStarts(c)
       \/ \E end \in Occurring : RunEnds(c, end)
  \/ CleanupStarts
  \/ CleanupEnds

(* The loop runs every ready coroutine, and delivers a cancellation.  Nothing
   makes a run end by itself, time pass, or a caller give up.               *)
SdkFairness ==
  /\ \A c \in Calls : /\ WF_allVars(CallerNext(c))
                      /\ WF_allVars(RunnerStarts(c))
                      /\ WF_allVars(RunEnds(c, "cancelled"))
  /\ WF_allVars(CleanupEnds)

SdkSteps == SdkInit /\ [][SdkNext]_allVars

SdkSpec == SdkSteps /\ SdkFairness

-----------------------------------------------------------------------------
(* Properties *)

SdkTypeOK ==
  /\ TypeOK
  /\ caller \in [Calls -> CallerStates]
  /\ runner \in [Calls -> RunnerStates]
  /\ cancelled \in [Calls -> BOOLEAN]
  /\ admission \in [Calls -> Admissions]
  /\ inflight \in [TaskIds -> Calls \cup {NoCall}]
  /\ cleanup \in {"idle", "waiting", "done"}
  /\ swept \in SUBSET Calls
  /\ ending \in [Calls -> Endings \cup {"none", "refused", "never_started"}]

\* No admission leaks: a breaker attempt is open exactly as long as its runner
\* runs, however the caller, the runner or cleanup was cancelled.
AttemptsHaveRunners == \A c \in Calls : Running(c) <=> runner[c] = "running"

\* While cleanup has not begun, every live runner is in the table cleanup reads,
\* under its own id, also when its caller was cancelled and nobody holds its
\* response; and once cleanup has finished, what it found there has ended.
CleanupReachesRunners ==
  /\ cleanup = "idle" => \A c \in Calls : Live(c) => inflight[TaskId[c]] = c
  /\ cleanup = "done" => \A c \in swept : ~Live(c)

\* A cancellation - by the caller, by the holder of the response or by cleanup -
\* says nothing about the dependency: it adds no failure and opens nothing.
CancellationIsNeutral ==
  [][\A c \in Calls :
       ending[c] = "none" /\ ending'[c] \in {"cancelled", "never_started"} =>
         /\ consecutiveFailures' = consecutiveFailures
         /\ phase = "closed" => phase' = "closed"
         /\ phase' = "open" => openUntil' <= clock \/ UNCHANGED breakerVars]_allVars

Settled(c) == caller[c] \in {"answered", "cancelled", "raised"}

\* A submission that was started comes to an end for its caller: a response, a
\* refusal or a cancellation.  The one exception is a runner that cleanup cancels
\* before its first step: no code of it runs, nothing settles the admission, and a
\* caller that is not cancelled itself waits for ever.
SubmissionsSettle ==
  \A c \in Calls : caller[c] # "idle" ~> Settled(c) \/ ending[c] = "never_started"
=============================================================================
