---------------------------- MODULE TaskResponse ----------------------------
(***************************************************************************)
(* The response of one task (src/src/dualeai/response.py) on top of the    *)
(* stream that feeds it: the buffers built by DualeAISDK, the consumers of *)
(* stream(), and the callers that wait for the result (model(), next(),    *)
(* cache_hit() and llm_metrics()).  The runner returns in the step in      *)
(* which its request ends, so the shared task is done when pc = "ended";   *)
(* whoever waits for it resumes in a later step.                           *)
(***************************************************************************)
EXTENDS StreamTransport, FiniteSets

Seqs == INSTANCE SequencesExt

CONSTANTS
  Deltas, Resets,  \* events that are content; the others do not reach the response
  Consumers,       \* callers of stream()
  ModelCallers, NextCallers, MetricsCallers, StopCallers,
  UserGroups       \* which of them may use one response together

ASSUME ContentAssumption ==
  /\ Deltas \cup Resets \subseteq Start + 1 .. Last - 1
  /\ Deltas \cap Resets = {}

Content == Deltas \cup Resets
Callers == ModelCallers \cup NextCallers \cup MetricsCallers \cup StopCallers

ASSUME UsersAssumption ==
  UserGroups \subseteq SUBSET (Consumers \cup Callers) /\ IsFiniteSet(Consumers)

VARIABLES
  users,        \* who uses this response
  streaming,    \* streaming deltas were asked for
  terminal,     \* the terminal event, "none" before it
  queue,        \* _delta_queue
  replay,       \* _deltas
  at,           \* where each consumer is
  get,          \* the get_task of each consumer: NoTask, Pending, or the event it took
  seen,         \* what each consumer was given
  caller,       \* where each caller of the other methods is
  loaded,       \* _llm_result_loaded
  hasResult,    \* _llm_result is not None
  interrupted   \* history: a loader was cancelled after the task was done

bufferVars == <<terminal, queue, replay>>
consumerVars == <<at, get, seen>>
callerVars == <<caller, loaded, hasResult, interrupted>>
requestVars == <<users, streaming>>
responseVars == <<requestVars, bufferVars, consumerVars, callerVars>>
allVars == <<vars, responseVars>>

NoTask == 0
Pending == -1

Terminals == {"llm_result", "other_result", "error", "stopped"}
TaskDone == pc = "ended"
Completed == outcome = "terminal" /\ terminal \in {"llm_result", "other_result"}

Succeeded == outcome = "terminal" /\ terminal = "llm_result"

InitResponse ==
  /\ Init
  /\ users \in UserGroups
  /\ streaming \in BOOLEAN
  /\ terminal = "none"
  /\ queue = << >>
  /\ replay = << >>
  /\ at = [c \in Consumers |-> "new"]
  /\ get = [c \in Consumers |-> NoTask]
  /\ seen = [c \in Consumers |-> << >>]
  /\ caller = [w \in Callers |-> "idle"]
  /\ loaded = FALSE
  /\ hasResult = FALSE
  /\ interrupted = FALSE

-----------------------------------------------------------------------------
(* The runner *)

OnDelta(e) ==
  /\ replay' = Append(replay, e)
  /\ queue' = Append(queue, e)

OnReset(e) ==
  /\ replay' = << >>
  /\ queue' = Append(queue, e)

\* _dispatch_stream_event: content goes to the buffers, if there are any.
Dispatch(e) ==
  IF ~streaming \/ e \notin Content
    THEN UNCHANGED <<queue, replay>>
    ELSE IF e \in Deltas THEN OnDelta(e) ELSE OnReset(e)

ReceiveEvent ==
  /\ Receive
  /\ Dispatch(Head(wire).position)
  /\ terminal' \in IF Head(wire).position = Last THEN Terminals ELSE {terminal}
  /\ UNCHANGED <<requestVars, consumerVars, callerVars>>

\* Everything else the request, the bridge and response.task.cancel() do.
StreamSteps ==
  /\ \/ RequestSettles
     \/ Resume
     \/ ChecksumFails
     \/ ParseFails
     \/ StreamCut
     \/ StreamEnds
     \/ Cancel
     \/ Emit
     \/ \E intact \in BOOLEAN : BridgeSends(intact)
  /\ UNCHANGED responseVars

-----------------------------------------------------------------------------
(* stream(): one action for what a consumer does between two suspensions.  A
   consumer that was given an event is "reading" until it asks for the next. *)

Moves(c, place) == at' = [at EXCEPT ![c] = place]
Yields(c, e) == seen' = [seen EXCEPT ![c] = Append(@, e)]
Finished == {"ended", "left", "cancelled"}

\* A consumer of a task that is done gets the replay list; without streaming a
\* consumer only waits.
StartStream(c) ==
  /\ at[c] = "new" /\ c \in users
  /\ \/ /\ ~streaming
        /\ Moves(c, IF TaskDone THEN "ended" ELSE "awaiting")
        /\ UNCHANGED seen
     \/ /\ streaming /\ TaskDone
        /\ Moves(c, "ended")
        /\ seen' = [seen EXCEPT ![c] = replay]
     \/ /\ streaming /\ ~TaskDone
        /\ Moves(c, "reading")
        /\ UNCHANGED seen
  /\ UNCHANGED <<vars, requestVars, bufferVars, get, callerVars>>

\* Mutant: the consumer looks at the task before it drains the queue.
EndBeforeDrain(c) ==
  /\ at[c] = "reading"
  /\ IF TaskDone
       THEN Moves(c, "ended") /\ UNCHANGED <<queue, get, seen>>
       ELSE IF queue # << >>
         THEN Yields(c, Head(queue)) /\ queue' = Tail(queue) /\ UNCHANGED <<at, get>>
         ELSE Moves(c, "waiting") /\ get' = [get EXCEPT ![c] = Pending] /\ UNCHANGED <<queue, seen>>
  /\ UNCHANGED <<vars, requestVars, terminal, replay, callerVars>>

\* The next queued event; or the end; or a wait for either.
Pull(c) ==
  /\ at[c] = "reading"
  /\ \/ /\ queue # << >>
        /\ Yields(c, Head(queue))
        /\ queue' = Tail(queue)
        /\ UNCHANGED <<at, get>>
     \/ /\ queue = << >> /\ TaskDone
        /\ Moves(c, "ended")
        /\ UNCHANGED <<queue, get, seen>>
     \/ /\ queue = << >> /\ ~TaskDone
        /\ Moves(c, "waiting")
        /\ get' = [get EXCEPT ![c] = Pending]
        /\ UNCHANGED <<queue, seen>>
  /\ UNCHANGED <<vars, requestVars, terminal, replay, callerVars>>

\* queue.get() of a get_task, also of one whose consumer is gone.
GetTakes(c) ==
  /\ get[c] = Pending
  /\ queue # << >>
  /\ get' = [get EXCEPT ![c] = Head(queue)]
  /\ queue' = Tail(queue)
  /\ UNCHANGED <<vars, requestVars, terminal, replay, at, seen, callerVars>>

\* Mutant: when the task is done the consumer does not look for an event its
\* get_task has taken meanwhile.
WakeOnTaskOnly(c) ==
  /\ at[c] = "waiting"
  /\ IF TaskDone
       THEN Moves(c, "retiring") /\ UNCHANGED seen
       ELSE get[c] # Pending /\ Yields(c, get[c]) /\ Moves(c, "reading")
  /\ get' = [get EXCEPT ![c] = NoTask]
  /\ UNCHANGED <<vars, requestVars, bufferVars, callerVars>>

\* asyncio.wait returns: the event is yielded, or the get_task is cancelled, which
\* leaves an event it has not taken in the queue.
Wake(c) ==
  /\ at[c] = "waiting"
  /\ \/ /\ get[c] # Pending
        /\ Yields(c, get[c])
        /\ Moves(c, "reading")
     \/ /\ get[c] = Pending /\ TaskDone
        /\ Moves(c, "retiring")
        /\ UNCHANGED seen
  /\ get' = [get EXCEPT ![c] = NoTask]
  /\ UNCHANGED <<vars, requestVars, bufferVars, callerVars>>

\* The cancelled get_task is awaited; a consumer cancelled here goes on as well.
Retire(c) ==
  /\ at[c] = "retiring"
  /\ Moves(c, "reading")
  /\ UNCHANGED <<vars, requestVars, bufferVars, get, seen, callerVars>>

AwaitEnds(c) ==
  /\ at[c] = "awaiting"
  /\ TaskDone
  /\ Moves(c, "ended")
  /\ UNCHANGED <<vars, requestVars, bufferVars, get, seen, callerVars>>

\* The program stops iterating between two events.
ConsumerLeaves(c) ==
  /\ at[c] = "reading"
  /\ Moves(c, "left")
  /\ UNCHANGED <<vars, requestVars, bufferVars, get, seen, callerVars>>

\* In the wait of the live path the get_task stays behind.  Without streaming the
\* task itself is awaited, and cancelled with its waiter.
ConsumerCancelled(c) ==
  /\ \/ /\ at[c] = "waiting"
        /\ UNCHANGED vars
     \/ /\ at[c] = "awaiting"
        /\ IF TaskDone THEN UNCHANGED vars ELSE Cancel
  /\ Moves(c, "cancelled")
  /\ UNCHANGED <<requestVars, bufferVars, get, seen, callerVars>>

ConsumerStep(c) == Pull(c) \/ Wake(c) \/ Retire(c) \/ AwaitEnds(c)

-----------------------------------------------------------------------------
(* model(), next() and the loader behind cache_hit() and llm_metrics() *)

Becomes(w, place) == caller' = [caller EXCEPT ![w] = place]
Answered == {"result", "no_result", "raised", "cancelled"}

\* _llm_result_lock is held by the loader that waits for the task.
LoaderWaits == \E w \in MetricsCallers : caller[w] = "waiting"
Metrics == IF hasResult THEN "result" ELSE "no_result"

StartModel(w) ==
  /\ caller[w] = "idle" /\ w \in users
  /\ Becomes(w, "waiting")
  /\ UNCHANGED <<vars, requestVars, bufferVars, consumerVars, loaded, hasResult, interrupted>>

\* Mutant: the flag is set before the wait instead of after it.
LoadedTooEarly(w) ==
  /\ w \in users /\ caller[w] \in {"idle", "queued"}
  /\ Becomes(w, IF loaded THEN Metrics ELSE IF LoaderWaits THEN "queued" ELSE "waiting")
  /\ caller'[w] # caller[w]
  /\ loaded' = TRUE
  /\ UNCHANGED <<vars, requestVars, bufferVars, consumerVars, hasResult, interrupted>>

\* _ensure_llm_result_loaded up to its wait, with the check repeated under the lock.
StartMetrics(w) ==
  /\ \/ caller[w] = "idle" /\ w \in users
     \/ caller[w] = "queued" /\ ~LoaderWaits
  /\ Becomes(w, IF loaded THEN Metrics ELSE IF LoaderWaits THEN "queued" ELSE "waiting")
  /\ UNCHANGED <<vars, requestVars, bufferVars, consumerVars, loaded, hasResult, interrupted>>

\* The types a result may be asked as, and what the platform may return: a value of
\* the model, its JSON text, a value that converts to the basic type, or neither.
Expected == {"none", "model", "basic"}
Shapes == {"fields", "json_text", "scalar", "misfit"}

\* _validate_pydantic_model with _try_json_validation; a basic type is no model.
IsModel(expected, shape) == expected = "model" /\ shape \in {"fields", "json_text"}

\* _validate_basic_type
IsBasic(expected, shape) == expected = "basic" /\ shape \in {"json_text", "scalar"}

Validated(expected, shape) ==
  expected = "none" \/ IsModel(expected, shape) \/ IsBasic(expected, shape)

\* _unwrap_llm_result keeps the result of a completed task, if it is one of a model.
Unwrap == hasResult' = (hasResult \/ Succeeded)

\* model() returns the result of a completed task as the type that was asked for,
\* and raises what any other end says.
ModelReturns(w) ==
  /\ caller[w] = "waiting"
  /\ TaskDone
  /\ \/ /\ Completed
        /\ \E expected \in Expected, shape \in Shapes :
             Becomes(w, IF Validated(expected, shape) THEN "result" ELSE "raised")
     \/ /\ ~Completed
        /\ Becomes(w, IF outcome = "cancelled" THEN "cancelled" ELSE "raised")
  /\ Unwrap
  /\ loaded' = (loaded \/ Succeeded)
  /\ UNCHANGED <<vars, requestVars, bufferVars, consumerVars, interrupted>>

\* Mutant: next() waits for the completion of the task and for nothing else.
NextAwaitsCompletion(w) ==
  /\ caller[w] = "waiting"
  /\ Completed
  /\ Becomes(w, "result")
  /\ UNCHANGED <<vars, requestVars, bufferVars, consumerVars, loaded, hasResult, interrupted>>

\* next() submits a child only for a task that completed.
NextReturns(w) ==
  /\ caller[w] = "waiting"
  /\ TaskDone
  /\ Becomes(w, IF Completed THEN "result" ELSE IF outcome = "cancelled" THEN "cancelled" ELSE "raised")
  /\ UNCHANGED <<vars, requestVars, bufferVars, consumerVars, loaded, hasResult, interrupted>>

\* The loader swallows what the task raised, except its cancellation.
MetricsReturn(w) ==
  /\ caller[w] = "waiting"
  /\ TaskDone
  /\ Unwrap
  /\ loaded' = TRUE
  /\ Becomes(w, IF outcome = "cancelled" THEN "cancelled" ELSE IF hasResult' THEN "result" ELSE "no_result")
  /\ UNCHANGED <<vars, requestVars, bufferVars, consumerVars, interrupted>>

\* next() waits behind a shield.
NextCancelled(w) ==
  /\ caller[w] = "waiting"
  /\ Becomes(w, "cancelled")
  /\ UNCHANGED <<vars, requestVars, bufferVars, consumerVars, loaded, hasResult, interrupted>>

\* A caller cancelled in its wait for the task cancels the task, and raises when
\* the task has ended; or the task is done and the caller has not resumed yet.
WaiterCancelled(w) ==
  /\ caller[w] = "waiting"
  /\ \/ /\ ~TaskDone /\ Cancel
        /\ UNCHANGED callerVars
     \/ /\ TaskDone
        /\ Becomes(w, "cancelled")
        /\ loaded' = (loaded \/ w \in MetricsCallers)
        /\ interrupted' = (interrupted \/ w \in MetricsCallers)
        /\ UNCHANGED <<vars, hasResult>>
  /\ UNCHANGED <<requestVars, bufferVars, consumerVars>>

\* stop_task: a reason is needed, and the request may fail.
StopAnswers(reasonGiven) == IF reasonGiven THEN {"result", "raised"} ELSE {"raised"}

\* stop() asks the platform and does not wait for the task.
Stop(w) ==
  /\ caller[w] = "idle" /\ w \in users
  /\ \E reasonGiven \in BOOLEAN : \E answer \in StopAnswers(reasonGiven) : Becomes(w, answer)
  /\ UNCHANGED <<vars, requestVars, bufferVars, consumerVars, loaded, hasResult, interrupted>>

QueuedCancelled(w) ==
  /\ caller[w] = "queued"
  /\ Becomes(w, "cancelled")
  /\ UNCHANGED <<vars, requestVars, bufferVars, consumerVars, loaded, hasResult, interrupted>>

-----------------------------------------------------------------------------
Returns(w) ==
  \/ w \in ModelCallers /\ ModelReturns(w)
  \/ w \in NextCallers /\ NextReturns(w)
  \/ w \in MetricsCallers /\ MetricsReturn(w)
  \/ w \in MetricsCallers /\ caller[w] = "queued" /\ StartMetrics(w)

NextResponse ==
  \/ ReceiveEvent
  \/ StreamSteps
  \/ \E c \in Consumers :
       StartStream(c) \/ GetTakes(c) \/ ConsumerStep(c) \/ ConsumerLeaves(c) \/ ConsumerCancelled(c)
  \/ \E w \in ModelCallers \cup NextCallers : StartModel(w)
  \/ \E w \in StopCallers : Stop(w)
  \/ \E w \in MetricsCallers : StartMetrics(w) \/ QueuedCancelled(w)
  \/ \E w \in Callers : Returns(w)
  \/ \E w \in NextCallers : NextCancelled(w)
  \/ \E w \in ModelCallers \cup MetricsCallers : WaiterCancelled(w)

(* Every request is answered or fails (connect and read timeouts), the retry
   timer fires, what arrives is read, and the platform finishes its task and
   sends it.  Nothing says that an attempt succeeds or an event arrives intact.
   get_tasks run, callers are resumed, and a program keeps iterating or leaves. *)
FairResponse ==
  /\ WF_allVars(RequestSettles /\ UNCHANGED responseVars)
  /\ WF_allVars(Resume /\ UNCHANGED responseVars)
  /\ WF_allVars(ReceiveEvent \/ (ChecksumFails /\ UNCHANGED responseVars))
  /\ WF_allVars(Emit /\ UNCHANGED responseVars)
  /\ WF_allVars((\E intact \in BOOLEAN : BridgeSends(intact)) /\ UNCHANGED responseVars)
  /\ WF_allVars(\E c \in Consumers : GetTakes(c))
  /\ \A c \in Consumers : WF_allVars(ConsumerStep(c))
  /\ \A w \in Callers : WF_allVars(Returns(w))

SpecResponse == InitResponse /\ [][NextResponse]_allVars

FairSpecResponse == SpecResponse /\ FairResponse

-----------------------------------------------------------------------------
(* Properties *)

ResponseTypeOK ==
  /\ users \in UserGroups
  /\ streaming \in BOOLEAN
  /\ terminal \in Terminals \cup {"none"}
  /\ queue \in Seq(Content)
  /\ replay \in Seq(Deltas)
  /\ at \in [Consumers -> Finished \cup {"new", "reading", "waiting", "retiring", "awaiting"}]
  /\ get \in [Consumers -> Content \cup {NoTask, Pending}]
  /\ seen \in [Consumers -> Seq(Content)]
  /\ caller \in [Callers -> Answered \cup {"idle", "queued", "waiting"}]
  /\ {loaded, hasResult, interrupted} \subseteq BOOLEAN

\* What a program shows that appends deltas and starts anew at a reset.
Shown(events) ==
  LET resets == {i \in 1 .. Len(events) : events[i] \in Resets}
      from == IF resets = {} THEN 1 ELSE Seqs!Max(resets) + 1
  IN SubSeq(events, from, Len(events))

Alone(c) == \A other \in Consumers \ {c} : at[other] = "new"

\* However the requests behind it were cut, repeated and resumed, the one consumer
\* of a response that iterated to the end has been given every content event the
\* SDK received, and shows the text that a later consumer replays.  Consumers that
\* share the queue are given its events in the order they came, and none twice.
ConsumersSeeAll ==
  \A c \in Consumers :
    /\ \A i, j \in 1 .. Len(seen[c]) : i < j => seen[c][i] < seen[c][j]
    /\ streaming /\ at[c] = "ended" /\ Alone(c) =>
         /\ Shown(seen[c]) = replay
         /\ Seqs!ToSet(seen[c]) = Seqs!ToSet(delivered) \cap Content \/ seen[c] = replay

\* A consumer cancelled in its wait costs the others at most one event, the one its
\* forgotten get_task takes.  Nothing else disappears between the stream and them.
CancelledTakesOne ==
  LET lost == {e \in Seqs!ToSet(delivered) \cap Content :
                 /\ e \notin Seqs!ToSet(queue)
                 /\ \A c \in Consumers : e \notin Seqs!ToSet(seen[c])
                 /\ \A c \in Consumers : at[c] = "waiting" => e # get[c]}
  IN streaming => Cardinality(lost) <= Cardinality({c \in Consumers : at[c] = "cancelled"})

\* The request is over within its attempts, every consumer comes to an end of its
\* iteration, whatever becomes of the others, and every caller gets an answer.
EverybodySettles ==
  <>[](/\ pc = "ended"
       /\ \A c \in Consumers : at[c] \in Finished \cup {"new"}
       /\ \A w \in Callers : caller[w] \in Answered \cup {"idle"})

\* Metrics of a task that completed with an LLM result are reported to everyone who
\* asks, unless a loader was cancelled between the end of the task and its resumption.
MetricsReported ==
  \A w \in MetricsCallers :
    caller[w] = "no_result" /\ Succeeded => interrupted
=============================================================================
