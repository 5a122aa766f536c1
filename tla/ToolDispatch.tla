---------------------------- MODULE ToolDispatch ----------------------------
(***************************************************************************)
(* Dispatch of the tool.use events of one task to the registered tools     *)
(* (_schedule_tool_use, _execute_tool_use, _submit_single_tool_result and  *)
(* _cleanup_tool_result_tasks in src/src/dualeai/sdk.py).  The task's      *)
(* stream is read by its runner and, from the cursor of the event it       *)
(* answers, by every result submission, so each event reaches the SDK      *)
(* several times; the table of scheduled tool uses keeps it from running   *)
(* twice.  The attempts of one run are in ToolRetry.  The bridge and the   *)
(* platform are external.                                                  *)
(***************************************************************************)
EXTENDS Integers, Sequences, FiniteSets

CONSTANTS
  Uses,       \* the tool calls the platform makes in this task
  Registered, \* those whose tool this SDK has registered, with a deadline
  Ids,        \* tool_call_id values
  CallId,     \* the id of each call
  Turn,       \* the turn of the task each call belongs to
  Deadline,   \* deadline_at of each call, in server time
  Tools,      \* asyncio tasks of _tool_result_tasks, each used once
  Runner,     \* the task runner, which reads the main stream
  NoUse,      \* no tool call
  NoEntry,    \* no entry in the table
  MaxTools,   \* permits of _tool_execution_semaphore
  Margin,     \* TOOL_USE_DEDUP_REPLAY_MARGIN_SECONDS
  MaxSkew,    \* largest error of the estimated server time
  Graceful,   \* graceful_shutdown_timeout > 0
  MaxTime,    \* bound on the clock
  MaxRecord   \* bound on the events of the task

ASSUME CallsAssumption ==
  /\ Registered \subseteq Uses
  /\ CallId \in [Uses -> Ids]
  /\ Turn \in [Uses -> Nat]
  /\ Deadline \in [Uses -> Nat]
  /\ Runner \notin Tools
  /\ NoUse \notin Uses

ASSUME TimeAssumption ==
  /\ IsFiniteSet(Tools)
  /\ MaxTools \in Nat \ {0}
  /\ Margin \in Nat
  /\ MaxSkew \in Nat
  /\ MaxTime \in Nat
  /\ Graceful \in BOOLEAN

\* The estimate of the server time never moves by more than the replay margin.
ASSUME SkewAssumption == 2 * MaxSkew <= Margin

\* ScheduledToolUse; its result is its owner's.
Entry == [owner : Tools, expires : Int]

ASSUME EntryAssumption == NoEntry \notin Entry

VARIABLES
  clock,      \* server time
  skew,       \* error of the estimate, moved by heartbeats
  record,     \* platform: the tool.use events of the task so far
  answers,    \* platform: whose execution answered each call
  over,       \* platform: the task has its terminal event
  reading,    \* the runner still reads the main stream
  cursor,     \* events each stream has delivered or skipped
  scheduled,  \* _scheduled_tool_uses: the entry of each id
  tool,       \* the tasks of _tool_result_tasks
  cleanup,    \* "none", "draining", "cancelling" or "over"
  swept       \* the tasks _cleanup_tool_result_tasks waits for

platformVars == <<record, answers, over>>
timeVars == <<clock, skew>>
cleanupVars == <<cleanup, swept>>
vars == <<timeVars, platformVars, reading, cursor, scheduled, tool, cleanupVars>>

\* "queued" on the semaphore, "running" the tool, "submitting" its result,
\* "streaming" the task's events after it.  ran: the callable was invoked.
ToolStates == {"unborn", "queued", "running", "submitting", "streaming", "done"}

Task ==
  [state : ToolStates, use : Uses \cup {NoUse}, ran : BOOLEAN,
   result : Uses \cup {NoUse}]

Unborn ==
  [state |-> "unborn", use |-> NoUse, ran |-> FALSE, result |-> NoUse]

Init ==
  /\ clock = 0
  /\ skew = 0
  /\ record = << >>
  /\ answers = [u \in Uses |-> NoUse]
  /\ over = FALSE
  /\ reading = TRUE
  /\ cursor = [s \in Tools \cup {Runner} |-> 0]
  /\ scheduled = [id \in Ids |-> NoEntry]
  /\ tool = [t \in Tools |-> Unborn]
  /\ cleanup = "none"
  /\ swept = {}

-----------------------------------------------------------------------------
(* Time and the platform *)

EstimatedServerTime == clock + skew

Recorded == {record[i] : i \in 1 .. Len(record)}

\* A run may outlast its deadline, by a backoff or while a cancelled callable ends.
Tick ==
  /\ clock < MaxTime
  /\ clock' = clock + 1
  /\ UNCHANGED <<skew, platformVars, reading, cursor, scheduled, tool, cleanupVars>>

\* A heartbeat's answer replaces the clock offset.
UpdateClockOffset ==
  /\ skew' \in (-MaxSkew) .. MaxSkew
  /\ UNCHANGED <<clock, platformVars, reading, cursor, scheduled, tool, cleanupVars>>

Settled(u) == answers[u] # NoUse \/ Deadline[u] <= clock

\* A turn calls its tools when the earlier turns have their results or gave up.
Emit(u) ==
  /\ ~over
  /\ u \notin Recorded
  /\ \A w \in Uses : Turn[w] < Turn[u] => w \in Recorded /\ Settled(w)
  /\ record' = Append(record, u)
  /\ UNCHANGED <<timeVars, answers, over, reading, cursor, scheduled, tool, cleanupVars>>

\* Delivery is at least once: an event may be recorded again.
Redeliver(u) ==
  /\ ~over
  /\ u \in Recorded
  /\ Len(record) < MaxRecord
  /\ record' = Append(record, u)
  /\ UNCHANGED <<timeVars, answers, over, reading, cursor, scheduled, tool, cleanupVars>>

TaskEnds ==
  /\ ~over
  /\ \A u \in Recorded : Settled(u)
  /\ over' = TRUE
  /\ UNCHANGED <<timeVars, record, answers, reading, cursor, scheduled, tool, cleanupVars>>

-----------------------------------------------------------------------------
(* _schedule_tool_use *)

\* Mutant: an entry per task.
KeyOfTask(u) == CHOOSE id \in Ids : TRUE

\* The key of the table within the task.
DedupKey(u) == CallId[u]

\* _prune_scheduled_tool_uses, then the lookup.
Remembered ==
  [id \in Ids |->
     IF scheduled[id] # NoEntry /\ scheduled[id].expires <= EstimatedServerTime
       THEN NoEntry
       ELSE scheduled[id]]

\* Mutant: the replay margin counts from the delivery and not from the deadline.
ExpiresAfterDelivery(u) == EstimatedServerTime + Margin

\* _tool_use_dedup_expires_at
ExpiresAt(u) ==
  (IF Deadline[u] > EstimatedServerTime THEN Deadline[u] ELSE EstimatedServerTime) + Margin

\* A new task, whose submission will follow the event that stream s delivers.
Spawn(t, state, u, s, result) ==
  /\ tool[t].state = "unborn"
  /\ tool' = [tool EXCEPT ![t] = [Unborn EXCEPT !.state = state, !.use = u, !.result = result]]
  /\ cursor' = [cursor EXCEPT ![s] = @ + 1, ![t] = cursor[s] + 1]

\* Unknown to this SDK: the platform waits out the deadline.
IgnoreUnregistered(u) == u \notin Registered /\ UNCHANGED <<scheduled, tool>>

\* A call seen for the first time, as far as the table remembers.
ScheduleExecution(u, s) ==
  /\ u \in Registered
  /\ Remembered[DedupKey(u)] = NoEntry
  /\ \E t \in Tools :
       /\ Spawn(t, "queued", u, s, NoUse)
       /\ scheduled' = [Remembered EXCEPT ![DedupKey(u)] = [owner |-> t, expires |-> ExpiresAt(u)]]

\* A call that has its result: _schedule_tool_result_submission sends it again.
ScheduleResubmission(u, s) ==
  LET entry == Remembered[DedupKey(u)]
  IN /\ u \in Registered
     /\ entry # NoEntry
     /\ tool[entry.owner].result # NoUse
     /\ scheduled' = Remembered
     /\ \E t \in Tools : Spawn(t, "submitting", u, s, tool[entry.owner].result)

\* A call still being executed.
IgnoreDuplicate(u) ==
  LET entry == Remembered[DedupKey(u)]
  IN /\ u \in Registered
     /\ entry # NoEntry
     /\ tool[entry.owner].result = NoUse
     /\ scheduled' = Remembered
     /\ UNCHANGED tool

ScheduleToolUse(u, s) ==
  \/ ScheduleExecution(u, s)
  \/ ScheduleResubmission(u, s)
  \/ /\ IgnoreUnregistered(u) \/ IgnoreDuplicate(u)
     /\ cursor' = [cursor EXCEPT ![s] = @ + 1]

-----------------------------------------------------------------------------
(* The streams *)

\* The tasks cleanup has cancelled; each ends at the await it is suspended in.
IsCancelled(t) == cleanup = "cancelling" /\ t \in swept

Reads(s) ==
  IF s = Runner THEN reading ELSE tool[s].state = "streaming" /\ ~IsCancelled(s)

\* The next event of the task reaches the SDK through this stream.
Deliver(s) ==
  /\ Reads(s)
  /\ cursor[s] < Len(record)
  /\ ScheduleToolUse(record[cursor[s] + 1], s)
  /\ UNCHANGED <<timeVars, platformVars, reading, cleanupVars>>

Done(t) == tool' = [tool EXCEPT ![t].state = "done"]

\* The terminal event, or a failure the transport does not retry.
RunnerStops ==
  /\ reading
  /\ reading' = FALSE
  /\ UNCHANGED <<timeVars, platformVars, cursor, scheduled, tool, cleanupVars>>

SubmissionEnds(t) ==
  /\ tool[t].state = "streaming"
  /\ over /\ cursor[t] = Len(record)
  /\ Done(t)
  /\ UNCHANGED <<timeVars, platformVars, reading, cursor, scheduled, cleanupVars>>

SubmissionFails(t) ==
  /\ tool[t].state \in {"submitting", "streaming"}
  /\ Done(t)
  /\ UNCHANGED <<timeVars, platformVars, reading, cursor, scheduled, cleanupVars>>

-----------------------------------------------------------------------------
(* _execute_tool_use *)

\* Mutant: a cancelled callable keeps its permit.
RunningOrCancelled ==
  {t \in Tools : \/ tool[t].state = "running"
                 \/ tool[t].state = "done" /\ tool[t].ran /\ tool[t].result = NoUse}

\* The holders of a permit.
Running == {t \in Tools : tool[t].state = "running"}

\* A permit, and time left: the callable is invoked.
Invoke(t) ==
  LET remaining == Deadline[tool[t].use] - EstimatedServerTime
  IN /\ tool[t].state = "queued" /\ ~IsCancelled(t)
     /\ Cardinality(Running) < MaxTools
     /\ remaining > 0
     /\ tool' = [tool EXCEPT ![t].state = "running", ![t].ran = TRUE]
     /\ UNCHANGED <<timeVars, platformVars, reading, cursor, scheduled, cleanupVars>>

\* The call has its result, remembered before it is sent.
HasResult(t) == tool' = [tool EXCEPT ![t].state = "submitting", ![t].result = tool[t].use]

\* A permit, too late: an error result without invoking the callable.
DeadlineExpired(t) ==
  /\ tool[t].state = "queued" /\ ~IsCancelled(t)
  /\ Cardinality(Running) < MaxTools
  /\ Deadline[tool[t].use] <= EstimatedServerTime
  /\ HasResult(t)
  /\ UNCHANGED <<timeVars, platformVars, reading, cursor, scheduled, cleanupVars>>

\* The callable returns, raises or is timed out: a success or an error result.
ToolReturns(t) ==
  /\ tool[t].state = "running" /\ ~IsCancelled(t)
  /\ HasResult(t)
  /\ UNCHANGED <<timeVars, platformVars, reading, cursor, scheduled, cleanupVars>>

\* A callable that raises CancelledError ends the task without a result.
ToolCancelsItself(t) ==
  /\ tool[t].state = "running"
  /\ Done(t)
  /\ UNCHANGED <<timeVars, platformVars, reading, cursor, scheduled, cleanupVars>>

\* The POST is accepted: the bridge gives the result to the call of that id that
\* still waits for one, and streams what follows the triggering event.
Submit(t) ==
  LET waiting == {u \in Recorded : CallId[u] = CallId[tool[t].use] /\ answers[u] = NoUse}
  IN /\ tool[t].state = "submitting" /\ ~IsCancelled(t)
     /\ tool' = [tool EXCEPT ![t].state = "streaming"]
     /\ answers' = [u \in Uses |-> IF u \in waiting THEN tool[t].result ELSE answers[u]]
     /\ UNCHANGED <<timeVars, record, over, reading, cursor, scheduled, cleanupVars>>

-----------------------------------------------------------------------------
(* cleanup *)

Live == {t \in Tools : tool[t].state \notin {"unborn", "done"}}

\* Mutant: the tools are cleaned up before the runner.
CleanupStartsEarly ==
  /\ cleanup = "none"
  /\ swept' = Live
  /\ cleanup' = IF Live = {} THEN "over" ELSE IF Graceful THEN "draining" ELSE "cancelling"
  /\ UNCHANGED <<timeVars, platformVars, reading, cursor, scheduled, tool>>

\* The runner has been cancelled before; with nothing to wait for the table stays.
CleanupStarts ==
  /\ cleanup = "none"
  /\ reading' = FALSE
  /\ swept' = Live
  /\ cleanup' = IF Live = {} THEN "over" ELSE IF Graceful THEN "draining" ELSE "cancelling"
  /\ UNCHANGED <<timeVars, platformVars, cursor, scheduled, tool>>

\* The drained tasks are done, or the graceful window is over.
DrainEnds ==
  /\ cleanup = "draining"
  /\ cleanup' = "cancelling"
  /\ UNCHANGED <<timeVars, platformVars, reading, cursor, scheduled, tool, swept>>

\* CancelledError reaches a task.
Cancelled(t) ==
  /\ IsCancelled(t)
  /\ t \in Live
  /\ Done(t)
  /\ UNCHANGED <<timeVars, platformVars, reading, cursor, scheduled, cleanupVars>>

CleanupEnds ==
  /\ cleanup = "cancelling"
  /\ swept \cap Live = {}
  /\ cleanup' = "over"
  /\ swept' = {}
  /\ scheduled' = [id \in Ids |-> NoEntry]
  /\ UNCHANGED <<timeVars, platformVars, reading, cursor, tool>>

-----------------------------------------------------------------------------
Works(t) ==
  Invoke(t) \/ DeadlineExpired(t) \/ ToolReturns(t) \/ Submit(t) \/ Cancelled(t)

Next ==
  \/ Tick
  \/ UpdateClockOffset
  \/ \E u \in Uses : Emit(u) \/ Redeliver(u)
  \/ TaskEnds
  \/ \E s \in Tools \cup {Runner} : Deliver(s)
  \/ RunnerStops
  \/ \E t \in Tools : SubmissionEnds(t) \/ SubmissionFails(t)
  \/ \E t \in Tools : ToolCancelsItself(t)
  \/ \E t \in Tools : Works(t)
  \/ CleanupStarts
  \/ DrainEnds
  \/ CleanupEnds

(* Time passes, so that the platform ends the task; streams are read and the tasks of
   the event loop run, a callable that is timed out or cancelled among them. *)
Fairness ==
  /\ WF_vars(Tick)
  /\ WF_vars(TaskEnds)
  /\ \A t \in Tools :
       /\ WF_vars(Works(t))
       /\ WF_vars(SubmissionEnds(t))
       /\ WF_vars(Deliver(t))

Spec == Init /\ [][Next]_vars

FairSpec == Spec /\ Fairness

-----------------------------------------------------------------------------
(* Properties *)

TypeOK ==
  /\ clock \in 0 .. MaxTime
  /\ skew \in (-MaxSkew) .. MaxSkew
  /\ record \in Seq(Uses)
  /\ answers \in [Uses -> Uses \cup {NoUse}]
  /\ over \in BOOLEAN
  /\ reading \in BOOLEAN
  /\ cursor \in [Tools \cup {Runner} -> Nat]
  /\ scheduled \in [Ids -> Entry \cup {NoEntry}]
  /\ tool \in [Tools -> Task]
  /\ cleanup \in {"none", "draining", "cancelling", "over"}
  /\ swept \subseteq Tools

Ran(u) == {t \in Tools : tool[t].use = u /\ tool[t].ran}

\* "Replay resubmits the cached result without repeating the customer side
\* effect": one process invokes the callable of a call once, however many
\* streams deliver it, even after the table has forgotten it.
RunsOnce == \A u \in Uses : \A s, t \in Ran(u) : s = t

\* "Bound concurrent customer-tool execution."
ToolsBounded == Cardinality(Running) <= MaxTools

\* What an execution of this process has resulted in.
Executed(u) == \E t \in Tools : tool[t].use = u /\ tool[t].result = u

\* A call is answered with the result of an execution under its own id, however it was
\* delivered and resubmitted: its own execution where no other call has that id.
AnswersOwn ==
  \A u \in Uses :
    answers[u] # NoUse => Executed(answers[u]) /\ CallId[answers[u]] = CallId[u]

\* "Cancel and wait for in-flight tool result submissions": when cleanup is
\* over no task of this SDK still runs a tool or sends a result.
CleanupLeavesNothing == cleanup = "over" => Live = {}

\* Every scheduled execution and submission comes to an end.
ToolTasksEnd == \A t \in Tools : (t \in Live) ~> (tool[t].state = "done")
=============================================================================
