# dualeai-python in TLA+

A verification project for the DualeAI Python SDK (`src/src/dualeai/`). It
models the parts of the SDK whose correctness depends on the order in which
things happen: the circuit breaker, the submission of tasks, the streaming
transport with its parser and the response it feeds, local tools, the lifecycle
of a hosted agent, cached activities, the connection to the platform and the
upload of attachments. TLC checks each on a small instance, and TLAPS proves every
safety property the runs check for every value of the constants.

All file and line references are to `src/src/dualeai/` unless they say otherwise.

## 1. The system

The SDK is one Python process with one asyncio event loop. A program submits
*tasks*; each becomes a *runner* (an asyncio task) that POSTs a request to the
bridge and reads a stream of server-sent events until a terminal event. Events
on the way carry text deltas, which go to the response object, and tool calls,
which the SDK executes with functions the program registered and answers with a
new POST that opens a stream of its own. A program that hosts an agent also
registers its tools with the platform and sends heartbeats. It may run its own
functions as cached *activities*, and it may upload files. Python code between
two `await`s is atomic, so one action of a module is what one coroutine does
from one suspension to the next. Synchronous tools run in threads, and the
platform and the network do as they like.

| Component (source) | State | Operations | Correct when |
|---|---|---|---|
| Circuit breaker (`_circuit_breaker.py`) | phase, generation, failure streak, end of the open and of the probe window | `protect` = admit, mark, complete | one probe at a time, probes a window apart, late results change nothing, the dependency's recovery is noticed |
| Task submission (`sdk.py` 920-963, 1078-1547, 1695-1711) | `_inflight_tasks`, an admission future per submission | `submit_task`, `continue_task`, cancellation of caller or response, `_cleanup_inflight_tasks` | each caller gets an answer, cancellations count for nothing, cleanup reaches each runner |
| Streaming transport (`events/http_transport.py` 751-953) | attempt number, `stream_established`, `current_last_event_id` | `_stream_request` | each event once and in order across retries, no second publication after a 2xx, an end within the budget |
| SSE parser (`events/sse_parser.py`) | line buffer, fields of the current event | `parse_sse_stream` | events independent of chunk boundaries, damaged ones never yielded, memory bounded |
| Agent response (`response.py`) | delta queue, replay list, shared task, cached result | `stream`, `model`, `next`, `stop`, metrics | each consumer sees the deltas, none is lost, everyone gets an answer |
| Tool dispatch (`sdk.py` 538-690, 790-848, 1713-1739) | `_scheduled_tool_uses`, `_tool_result_tasks`, the semaphore | `_schedule_tool_use`, `_execute_tool_use`, `_submit_single_tool_result`, cleanup | a call runs once and is answered by its own result; limits hold; nothing left after cleanup |
| Tool runs (`sdk.py` 437-515, 706-788) | attempt, deadline, thread pool | `_invoke_registered_tool_with_retry` | within the deadline and one backoff; no late start; each call gets a result |
| Agent lifecycle (`lifecycle.py`, `sdk.py` `serve`) | `_startup_done`, `_startup_lock`, last registered hash, `_lifecycle_registered`, `_heartbeat_task` | `start`, heartbeat loop, `register_tool`, `aclose`, `serve` | heartbeats name a manifest the platform has; gives up only on a streak; shutdown deregisters and leaves no task |
| Activities and caches (`sdk.py` 373-421, 850-918, 1549-1557, `cache.py`) | backend, its connection, entries with an expiry, the job scheduler | `execute_activity`, `clear_cache`, `cleanup_expired_cache`, their part of `cleanup` | fresh results only, one run while a result is fresh, nothing left open |
| Connection (`events/client.py`, `http_transport.py`, `sdk.py` 396-411) | `_events_client`, its lock, `_session`, `_connected` | connect, disconnect, one-shot requests, polls | one session at a time and none lost, calls end with errors of the SDK |
| Attachments (`attachments.py`, `libraries.py`) | shared iterator, part semaphore, receipts | `upload_attachments`, `upload` | documents whole and once, receipts name what was created, nothing runs on |
| Facade (`sdk.py`) | the lazily built clients, executor, scheduler, cache | `__aenter__`, `cleanup` | cleanup releases everything, in whatever state it finds it |
| Configuration, models, observability, logging, decorators, orchestrator, testing | none that decides anything | conversions, forwarding, metrics | - |

How they interact: a runner enters the breaker, then calls the events client,
which reads the transport's generator; tool events call back into the dispatch
synchronously, from the runner's stream or from a submission's stream; deltas go
into the queue of the response, whose consumers read it beside the runner. Every
call of the platform first passes the single-flight connection. `cleanup()`
stops runners, then tool tasks, then the thread pool, then the lifecycle, the
scheduler, the client and the cache, each step relying on the one before it.

What is hard to get right is listed in `PROJECT.json` under `hazards`, at its
line, with the properties that would notice it going wrong.

## 2. Modules

| Module | Models | Lines up with the code |
|---|---|---|
| `CircuitBreaker` | the breaker | variables are the fields of `_CircuitBreaker`; `AdmitClosed`, `Reject`, `AdmitProbe` are the branches of `_admit`, `Mark` is `fail`/`ignore`, `CompleteStale`/`CompleteCurrent` are `_complete`. The lock is never held across a suspension, so each is one step |
| `BreakerPromise` | what the breaker promises, abstractly | no generations or deadlines: a set of calls that count and a countdown |
| `BreakerRecovery` | `BreakerPromise` with a dependency and callers | for liveness on a finite state space |
| `TaskSubmission` | submission around the breaker (extends `CircuitBreaker`) | caller: `Submit`, `Continue` and their refusals, then `SpawnRun` ... `CallerJoined`; runner: `RunAdmitted`, `RunAbandoned`, `RunRefused`, `RunNeverStarts`, `RunEnds`; cleanup: `CleanupStarts`, `CleanupEnds`. `MarkFor`/`ExitFor` are the `except` clauses of the runner |
| `StreamTransport` | one streaming request, and the bridge as far as it matters | each way an attempt ends is an action; `RetryOrGiveUp` is the tenacity loop |
| `EventDelivery` | what a request promises its consumer, abstractly | |
| `TaskResponse` | the response over the stream that fills it (extends `StreamTransport`) | `queue` and `replay` are `_delta_queue` and `_deltas`; `at[c]` is where a consumer of `stream()` is suspended, `get[c]` the `get_task` it may leave behind; `caller[w]` a caller of `model()`, `next()`, `stop()` or the metrics |
| `SSEParser` | the parser, line by line over chunks cut anywhere | `got` is `len(buffer)`; `id`, `type`, `data`, `dataBytes`, `checksum` are the event under way. `Decoded` and `Malformed` are the reference: they read a block as a whole, by where its lines of a kind stand (`Places`, `LastOf`, `Pieces`, `DataSize`) |
| `ToolDispatch` | tool events of one task, from delivery to the submitted result, and the cleanup of the tool tasks | `ScheduleExecution`, `ScheduleResubmission`, `IgnoreDuplicate`, `IgnoreUnregistered` are the branches of `_schedule_tool_use`; `Works` the life of a task |
| `ToolRetry` | the inside of one run: permits, attempts, waits, threads | `Begin`, `Raises`, `Stops` are the body and the stop condition of the retry loop; `TimesOut` is the timer of `wait_for`, `Stopped` the end of an async tool it cancelled; `ThreadStarts`, `OrphanEnds` the pool |
| `Lifecycle` | startup, registration, heartbeats, `aclose`, `serve` | `starter[s].pc` is where a `start()` is suspended; `loop` is `_heartbeat_loop`; `serve` is where `serve()` is |
| `CacheBackend` | the three backends through one key | `kind`, `handle`, `stored`: which backend a user made, its connection, what is stored where; `Jittered` is `_apply_ttl_jitter`, and `RedisTicks`, `SQLiteTicks`, `MockTicks` are how each backend reads the expiry that comes of it |
| `ActivityCache` | `execute_activity`, the cache calls and their part of cleanup (extends `CacheBackend`) | `pc[c]` is where a call is suspended; `job[c]` its aiojobs job; `stage` how far cleanup is |
| `Connection` | sessions, single-flight connection, requests with one reply, polls, and their part of cleanup | `Ensure`, `Locks`, `Connected`, `EntryFails` are `_ensure_events_client` and `connect`; `Answered`, `Refused`, `PollsAgain` a request; `CloseStarts` ... `SessionCloses` are `disconnect` |
| `Uploads` | one batch of attachments (extends `Connection`) | `file`, `digest`, `part` are where a worker, a digest and a part are; `TearsDown` is `_gather_related`, `BatchEnds` the end of `upload_attachments_to_library` |
| `*_proofs` | theorems | |
| `MC*` | instances for TLC | |

Definitions headed *Mutant* in a comment are not part of a model: each is a
definition of the code as a plausible bug would have it, and shows that the
property it belongs to can fail.

Abstractions shared by the modules. Time is a counter of whole ticks. Messages
are members of small sets. A request to the platform settles in one step, in
which a failed or cancelled one has reached the platform or not. Variables
marked *history* are read by properties only.

Decisions that need a word:

- *FIFO event loop* (`TaskSubmission`). `asyncio.create_task` queues a runner's
  first step before its caller starts to wait, so a caller that is cancelled
  while waiting resumes after that step. `CallerLeaves` has the guard
  `runner[c] # "created"` for it. A cleanup running in a third task is not
  ordered that way, and can cancel a runner that has not started.
- *The bridge* (`StreamTransport`) is external: it publishes what it receives
  and streams the record after the Last-Event-ID. `Start > 0` stands for the
  requests that resume (`submit_tool_results`). `MaxInFlight` bounds the events
  that are sent and not read.
- *The shared task* (`TaskResponse`). The runner returns in the step in which
  its request ends. Whoever awaits it resumes in a later step, and a caller that
  is cancelled in between is the case `MetricsReported` makes an exception of.
- *Lines* (`SSEParser`) are what the parser tells apart in them, with a size and
  the weight of their value. A checksum is the type and the data it was computed
  from, so equal checksums mean equal content; it does not cover the id, as in
  the code. What `BridgeSSEEvent` validates is whether the id is one of `Cursors`
  and whether the payload is one that lacks something its type asks for
  ("misfit"); an event without an id does not pass. A line that is not UTF-8 is
  an error like the others: the code raises `UnicodeDecodeError`, which ends the
  parser too.
- *Identity of tool tasks* (`ToolDispatch`): a finite set of task identities,
  each used once, bounds how many executions and submissions there are.
  The result of a call is represented by the call that produced it. Whatever runs
  inside an execution, attempts and waits, is left to `ToolRetry`; here it takes
  any time.
- *Cancelled tools* (`ToolRetry`). `asyncio.wait_for` does not return when its
  timer fires: it cancels the tool and waits for it. For a synchronous tool that
  is the future of a thread, which is cancelled at once; for an async one it is
  the coroutine, which keeps its permit ("stopping") until it has ended, by
  `Stopped`, in whatever time that takes.
- *Server time* (`ToolDispatch`): the error of the estimate moves freely within
  `MaxSkew`, because every heartbeat replaces the offset. `SkewAssumption`
  says that it moves by no more than the replay margin (300 s in the code).
  `ToolRetry` measures deadlines with the estimate itself.
- *Manifests* (`Lifecycle`) are numbered in the order tools are registered;
  tools are never unregistered. The cleanup that `serve()` ends in is the
  `aclose()` of the model, whoever called it first.
- *The cache* (`CacheBackend`, `ActivityCache`): one key of one tenant. A cached
  `None` is a miss, as in the code. What SQLite has not committed is not read by
  others. Time passes only between calls and while jobs run. The jitter is that
  of the code: a TTL of a second or more ends anywhere between its shortest and
  its longest length, in the ratio of `JitterPercent`. `JitterAssumption` asks for
  ticks fine enough for both ends to be whole ticks. A cancelled function ends
  within the close timeout.
- *Job timeouts* (`ActivityCache`) may fire as long as the call has not resumed,
  whatever its job has done since: the timer and the end of the job are two
  events of the loop, and the call resumes after both.
- *Clients* (`Connection`) are named by their number, and so is the transport a
  client makes for itself; the one an application injects is number 0.
  `cleanup()` runs once, so there are two clients at most. A disconnect fails in
  the exit of its session only.
- *Groups* (`TaskResponse`, `ActivityCache`, `Uploads`): all users of a component
  at once are beyond TLC. The instance names which of them take part together.

## 3. Runs

Four workers check everything in a few minutes. Deadlock checking is off in all
of them but `breaker_recovery`: a system whose calls are finished, or whose clock
has reached its bound, is allowed to stop. Types, and what a proof shows for all
constants and a run would add nothing to, are left to section 5.

| Run (module) | Instance | States | Shows |
|---|---|---|---|
| **breaker** (`MCCircuitBreaker`) | four calls, threshold 2, window 2, clock to 4: a stale call, a superseded probe, a current one and a refused caller at once, and two windows | 1.2M | `StreakIsHistory`: the failure counter is the number of failures in a row among the verdicts the closed period counted |
| **breaker_recovery** (`MCBreakerRecovery`) | four calls, threshold and window 3, no bound on time | 300 | `Recovers`: a dependency healthy for good closes the breaker, and it never refuses for ever |
| **submission** (`MCTaskSubmission`) | a submission and a continuation, all nine endings of a run, cancellation of caller and response at every suspension, one cleanup; threshold and window 1, so two calls reach every phase | 291k | `AttemptsHaveRunners`, `CleanupReachesRunners`, `CancellationIsNeutral`, `SubmissionsSettle`, and `ImplementsPromise`: the breaker's promise with the attempts the SDK makes |
| **stream** (`MCTaskResponse`) | four events (a delta, a reset, a delta, the terminal one), three attempts, every failure at every step, one event in flight; four groups of users of the response | 511k | `ExactlyOnceInOrder`, `NoRepublishAfterAccept`, `ImplementsDelivery` of the transport; `ConsumersSeeAll`, `CancelledTakesOne`, `MetricsReported`, `EverybodySettles` of the response |
| **sse_parser** (`MCSSEParser`) | blocks of five lines out of fourteen (intact, damaged and undecodable fields, data in one piece, in two or outside its schema, with an id and without, comments over the size bound), two lines ahead, chunks cut at every byte | 5.1M | `DecodesBlocks` |
| **tool_dispatch** (`MCToolDispatch`) | two calls of one turn and one of a later turn that has the id of the first, deadlines 1 and 2, one permit, three tool tasks, a record of two events that may repeat the first, clock error 1 either way, margin 2 (the least the assumption allows), cleanup at any moment | 6.6M | `RunsOnce`, `AnswersOwn`, `CleanupLeavesNothing` |
| **tool_dispatch_live** (same) | one registered call and one that is not, with a graceful window | 195k | `ToolTasksEnd` |
| **tool_retry** (`MCToolRetry`) | two sync calls and an async one, one retry each, one permit and one worker, deadlines 2 and 3, clock to 10, past the last of three serial runs | 78k | `ElapsedBounded`, `StartsWhileAwaited`, `CallsEnd` |
| **lifecycle** (`MCLifecycle`) | the startup task and `serve()` with its own `start()`, one tool registered on the way, four beats (two rejections, or three other failures after another result), both kinds of failure, `aclose()` at any moment | 252k | `BeatsReferenceKnown`, `GivesUpOnStreak`, `RegistrationRemembered`, `ClosedIsQuiet`, `StartsOnce`, `CloseSettles` |
| **activity** (`MCActivityCache`) | two calls, or a call and a clear, with the clock or with cleanup; every backend and fallback; TTLs of one and two seconds that the jitter halves or lengthens by half, and none; two ticks in a second, clock to 5, past every length of the shorter TTL and all but the longest of the other; place for one job, one retry | 2.7M | `FreshHits`, `RunsOnceWhileFresh`, `ResultKept`, `NothingLeftBehind`, `CallsAndCleanupEnd` |
| **uploads** (`MCUploads`) | a batch of three attachments, the first of two parts, two at a time, two attempts per part, with cleanup; or a Library call, a poll and a heartbeat in one connection with cleanup | 591k | `SessionsAccounted`, `HandsOutConnected`, `ErrorsTranslated`, `ReportsDocuments`, `WholeAndOnce`, `QuietWhenOver`, `CallsEnd` |

What is behind the less obvious ones:

- `CancelledTakesOne` measures what a cancelled consumer costs: its forgotten
  `get_task` takes one event from those who share its queue, and that is all
  that gets lost between the stream and its consumers.
- `ConsumersSeeAll` relates what the one consumer of a response was shown, resets
  applied, to what a later consumer replays, however often the request behind it
  was cut and resumed.
- `DecodesBlocks` includes the memory the parser holds while it waits, and that
  it raises by the end of a block that is damaged, too large, without a checksum
  or a valid id, or with a payload that does not fit its type, and for no other.
- `AnswersOwn` says that a call is answered with the result of an execution under
  its own id, on whatever stream it was delivered. Where ids repeat, that
  execution may be of an earlier call (see the limits below); `RunsOnce` holds of
  them too.
- `ElapsedBounded` bounds every run but those of an async tool that has been
  cancelled and has not ended; it says that those were cancelled by the deadline.
- `FreshHits` measures the age of a result against the longest jitter of its TTL,
  `RunsOnceWhileFresh` against the shortest: between the two an entry may be there
  or not. `stale` holds the kinds of backend that broke the first bound, so the
  exception for Redis does not cover the SQLite it falls back to.
- `ResultKept` is about calls that got to await the result. A timeout or a
  cancellation that comes before loses it with any backend.
- `RunsOnceWhileFresh` speaks of calls one after the other. Overlapping calls
  both run, and the code does not promise otherwise.
- `QuietWhenOver` follows every worker, part and digest through a teardown that
  is itself cancelled, with the two limits on what runs at once.

One run finds a violation of what the repository says of itself:

**lifecycle_aborted**. `aclose`: "Cancel the startup + heartbeat tasks and
deregister" (`lifecycle.py:420`). Awaiting a heartbeat loop that has given up
raises its error, so `aclose()` never deregisters, and `DualeAISDK.cleanup()`
does not get to the scheduler, the client and the cache.

### Known limits

Met while modelling, true of the code, and the reason some properties are
stated as narrowly as they are:

*Submission*
- `_spawn_run_task`: "Spawn one task and wait until the breaker admits or rejects
  it" (`sdk.py:1350`). If `cleanup()` cancels the runner before its first step,
  the body never runs, nobody settles the admission, and the caller waits for
  ever. `SubmissionsSettle` excepts it.
- `CloudEventsClient.run_task` documents `DualeAIConnectionError` for "other
  transport errors" (`events/client.py:262`), which the runner counts as
  failures. A transport that exhausts its retries re-raises aiohttp's own error,
  which nothing translates (`events/client.py:304`); the runner ignores the
  attempt (`sdk.py:1313`), and an unreachable bridge never opens the breaker.
- One `request_id` for two overlapping submissions makes them share an entry of
  `_inflight_tasks`, and cleanup then misses one of them. A submission made while
  cleanup waits is cleared from the table without being cancelled.
- Probes that always outlive the recovery window keep superseding each other,
  and none of their successes closes the breaker.

*Responses*
- A consumer of `stream()` that is cancelled in its wait takes one delta with it.
- A reader of the metrics that is cancelled between the end of the task and its
  own resumption leaves the result marked as loaded: later readers get nothing.

*Tools*
- `tool_context.py:10` warns that "provider-local ids can repeat across turns of
  one task". The table of tool uses is keyed by task and id only
  (`sdk.py:589`): the later call is not run and gets the earlier call's result.
- With a graceful window, a result submitted while `cleanup` drains can stream
  new tool uses. Their tasks are in no snapshot; they survive cleanup and,
  since the table is cleared, a redelivered call may run again. With
  `Graceful = TRUE`, `CleanupLeavesNothing` and `RunsOnce` fail.
- A synchronous tool that timed out keeps its thread while its permit goes to
  the next call, so more tool bodies than `max_concurrent_tools` may be running.
- "Total elapsed is bounded to the deadline plus at most one backoff interval"
  (`sdk.py:718`) is not so for an async tool that swallows or delays its
  cancellation: `wait_for` waits for it, and it keeps its permit. The documentation
  of the decorator asks tools not to (`decorators.py:207`), and the model assumes
  for liveness that they end, and throughout that a tool does not hold the event
  loop.

*Lifecycle*
- `aclose()` cancels the startup task but not an explicit `start()` in another
  task, which may create a heartbeat loop afterwards.

*Activities*
- First users that overlap open a backend each, and only one of them is closed.
- A TTL that the jitter takes below one second is written to Redis without an
  expiry, and the result is kept for ever. With the default factor of 0.1 that is
  so for TTLs below about 1.11 s, and always for those below a second.
- A result is served for as long as its TTL and the jitter on top, up to half of
  the TTL, since the jitter goes both ways.
- A call whose job timeout fires after its function returned and before the call
  resumes drops the result, with any backend. A function that is not async runs
  on the event loop, so one that takes longer than `job_timeout` always ends in
  `TimeoutError` although it returned.
- An error of SQLite on writing loses the result of a function that has run. The
  other backends swallow theirs.

*Connection and uploads*
- A transport that the application injected and whose entry failed once is stuck:
  `connect()` finds its session stored and returns at once, for ever.
- The posts of the lifecycle let aiohttp's errors through, and a poll that
  cleanup overtook gets a `RuntimeError`.
- Only `LibraryUploadError` carries receipts. A batch that ends with an error of
  the transport or a cancellation does not tell which documents exist.

## 4. Fairness

Safety needs none. Liveness assumes, weakly, that the event loop runs what is
ready and that timers fire; and beyond that:

- `BreakerRecovery`: some caller keeps asking, and a healthy dependency answers
  in the end though some callers give up first (strong fairness of
  `AnswerWell`). An unhealthy one need not answer, and nothing makes it recover.
- `TaskSubmission`: a runner that was asked to stop stops. A run need not end by
  itself, so `SubmissionsSettle` does not rest on the bridge.
- `TaskResponse`: a request is answered or fails, since connect and read timeouts
  are set; the platform finishes its task and sends it. No attempt needs to
  succeed, and no user needs to ask.
- `ToolDispatch`: time passes and the platform ends a task whose calls are
  answered or overdue.
- `ToolRetry`: no tool needs to return by itself and no thread to start or end; an
  async tool that was cancelled ends, as the documentation of the decorator asks.
- `Lifecycle`: requests settle. Nothing makes the loop wake or `aclose` be called.
- `ActivityCache`: operations of a backend settle, and a job that was told to stop
  stops; a function need not return by itself, because the job timeout closes it.
- `Uploads`: requests settle by their timeouts, the deadline of a poll fires, and
  a cleanup that has begun goes on. The document need never be ingested.

## 5. Proofs

All theorems hold for any values of the constants that satisfy the named
assumptions of the module; the sets of calls and the bounds on time and records
are not restricted to the values of the runs.

**TaskSubmission_proofs**, the breaker. `SingleProbe` and `ProbeSpacing` are not
inductive. The invariant adds that no attempt carries a generation the breaker
has not reached (`GenerationsReached`), so that a new generation makes every
running attempt stale; that running attempts have no verdict and were admitted in
the past; and that the window in force covers each probe that was not ignored
(`WindowCoversProbe`), which gives the spacing when the next probe is admitted.
`ClosedByLatestProbe` follows from it, and `RefinesPromise` is a step simulation
of `BreakerPromise`: an admission of a probe empties the set of counting calls,
a stale completion is a stutter. `CounterIsHistory` compares the counter with the
whole history of verdicts. `StreakInv` adds that no verdict of the history is of
a generation still to come (`VerdictsReached`), so a breaker that closes begins
with none that counts; `StreakAppend` follows the set of failures in a row as one
verdict is appended: a stale or ignored one leaves it, a failure adds one element,
a success empties it.

**TaskSubmission_proofs**, the SDK. `BreakerSteps` says that a step of the SDK is
a step of the breaker or one of two that are not: a run that ends marks and
completes its attempt at once (`Takes`), and a run whose caller is gone is
admitted and given back at once. With it the invariants and the refinement of the
breaker carry over to the SDK (`SdkKeepsPromise`, `BreakerHoldsInSdk`), and
`AttemptsEndWithRunners` and `CancelledRunsDoNotCount` follow. `CleanupReaches`
assumes that no two submissions share an id, which is where the known limit
lies, and adds that what the table lists was spawned (`ListedWereSpawned`).
`WaitersAreServed` is the part of `SubmissionsSettle` that fairness does not
give: whoever waits, waits for a runner that can take its next step. `Stands`
says where a submission is, seen from its caller, its runner and cleanup at once.

**TaskResponse_proofs**, the request. The invariant adds that what is on the wire
is what the record holds right after the cursor (`WireFollowsCursor`,
`WireWithinRecord`) and that a request still running has not delivered the
terminal event (`RunningIsOpen`). It yields `DeliveredOnceInOrder`;
`PublishedAtMostOnceAfterAccept` needs no invariant; `RefinesDelivery` maps
every attempt to the one delivery.

**TaskResponse_proofs**, the response, for any number of consumers and callers.
`ResponseIsRequest`: a step of the response is a step of the request or a stutter,
so all of the above holds below it (`ResponseKeepsRequest`). `RInv` then follows
the content from the stream to its consumers. The buffers are in order, and the
replay is the content after the last reset (`BuffersInv`); what a consumer has is
older than what its `get_task` took, and that older than what is queued
(`SeenInv`); every content event received is in the queue, in the hands of one
of them, or was given (`Accounted`); and the loader of the metrics ran only on a
task that is done (`LoadInv`). `EveryConsumerSeesAll` needs that two increasing
sequences over the same events are equal (`SameOrder`), which is where the least
position in which they differ takes the place of an induction.
`CancelledConsumersTakeOne` maps each lost event to the consumer whose forgotten
`get_task` holds it.

**SSEParser_proofs**, for any lines, sizes and bounds, and any way to cut the
stream. The fields of the event under way are what the reference reads in the
lines since the last blank one (`FieldsInv`), and the bytes that are buffered are
no more than what was sent (`StreamInv`). Its lemmas follow the reference over a
block that grows by one line: `AppendLastOf`, `AppendPieces`, `AppendDataSize`,
`AppendMalformed`. `Total` counts cells, one for a byte, so that sums are
cardinalities and what one more line adds to them is a fact about finite sets
(`TotalAppend`, `TotalTail`). `BlocksAreDecoded` is `DecodesBlocks`, types and the
memory bound included.

**ToolDispatch_proofs.** Four invariants, each on top of the one before.
`TableInv`: a task that exists has a call, an entry of the table belongs to a
task of that id, and results and answers are of calls with the id they were sent
under; `AnswersAreOwn` follows, whether ids repeat or not. `BoundInv` bounds the
permits. `CleanupInv`: after cleanup nothing lives and nothing is read, without
a graceful window. `OnceInv`: an execution whose entry is gone belongs to a call
whose deadline is past by more than the clock error, so another execution of it
would find no time left and not invoke the callable; `CallsRunOnce` rests on it.

**ToolRetry_proofs.** `RetryInv` adds to the types that a backoff has a retry left
(`AttemptsCounted`), that no timer is overdue and none is set beyond the deadline
and one backoff (`TimersSet`), and that the pool's queue holds bodies of attempts
that still wait for them (`PoolFollowsCalls`). `ElapsedIsBounded`, with its
exception for async tools that have been cancelled and go on, and
`StartsAreAwaited` are read off it. `LimitsAreKept` counts the permits and the
threads: only an acquisition below the limit makes one more run hold a permit.

**Lifecycle_proofs.** A chain of invariants. `BelowLimits` keeps the counters in
their types. `LockGuards`: whoever is past the lock holds it, which gives
`StartsAtMostOnce`. `KnownInv` follows the snapshots: they are never newer than
the manifest, a loop begins after its startup, and what a start or the loop is
about to name is what the platform has, or withdrawn by a close (`BeatsAreKnown`,
`RegistrationsAreRemembered`). `StartupOver` orders the end of `aclose()`
(`ClosedQuietly`), and `StreakCounted` says that the counters are the lengths of
the runs that the history of beats ends with (`GivesUpOnStreaks`).

**Uploads_proofs.** `ConnInv` holds for any callers: who holds the lock is the one
that enters a session, or cleanup (`LockHeld`); an open session belongs to the
injected transport or the current client (`SessionsOwned`), so the number of
sessions entered and not left is 0 or 1 (`LiveCounted`); a stored session that
nobody enters is broken (`StoredIsBroken`); and a call keeps a client with a
transport until cleanup (`HeldIsBound`). It yields `SessionsAreAccounted`,
`ClientsAreConnected`, `ErrorsAreTranslated` and `LockIsReleased`: whoever holds
the lock has a step to take. `BatchInv`, on top of it:
attachments are taken in order (`TakenInOrder`), a creation under way or done has
its parts and digest (`CreatedWhole`), receipts are of what is done, and a
document without one is being received or was cut off (`ReceiptsOfDone`,
`ReportInv`). Its step goes through `BatchMoves`: whatever happens, each
attachment makes one of ten moves. `DocumentsAreWhole` and `ReportsAreComplete`
follow for any batch and any number of workers. `QuietInv` adds what may run in
each state of an attachment (`FileQuiet`), that a part waiting for a place has an
attempt left, and that a worker takes an attachment only when it is done with the
last; `NothingRunsOn` follows for any number of parts, places and attempts.

**ActivityCache_proofs.** A chain of invariants, for any users, TTL, jitters and
clock bound, assuming that `MaxRetries` is a natural number. `JobInv` says which
job a call may have at each point of it (`Fits`). `BackendInv`: a backend is
created once, by a call that takes it, is of the kind asked for, and is kept by
the calls that hold it; a write is then lost only where `ResultKept` allows it
(`ResultsAreKept`). `SharedInv`: calls that open a backend at the same time are
in `overlap`, and so is the backend assigned while others are still opening
theirs, which leaves at most the backends of `NothingLeftBehind`. `FreshInv`:
every stored entry ends no later than a tick after the longest jitter of its TTL,
or is one of Redis without a whole second (`Bounded`, over `JitterFacts` and what
`DivFacts` says of whole seconds), from which `HitsAreFresh`. `OnceInv`: as long
as the cache has neither failed nor been emptied there is one open backend, and
every call that ran the function and answered is covered by an entry of it or has
expired (`Covered`, `Expired`), which is `RunsAreSpared`.

Only model-checked is what needs fairness: `Recovers`, `SubmissionsSettle`,
`ToolTasksEnd`, `CallsEnd`, `CloseSettles`, `CloseCompletes`, `CallsAndCleanupEnd`
and `EverybodySettles`. The prover has no rule for `ENABLED`, on which weak and
strong fairness rest. Where the argument has a part without time, that part is a
theorem: `WaitersAreServed`, `LockIsReleased`, `ElapsedIsBounded`.

Sums and counts are written as cardinalities and not by recursion (`StreakIsHistory`,
`Total`, `DataSize`), because what a recursive definition computes for every input
is not within the prover's reach and what an element adds to a finite set is.

## 6. What is left

In this order:

1. `Sdk`: `__aenter__` and `cleanup` across the parts, with submissions, tool
   uses and activities that arrive while it runs. Each part of cleanup is
   modelled with its component, so what is missing is their order and what
   arrives between two of them.
2. The pool of connections with the streams of tool results, which needs many
   tasks of one process at once.

## 7. Not modelled

- Contents: requests, schemas, prompts, results, HPKE encryption, trace headers,
  the bytes of files; the contract of a tool (signature, schema, validation,
  serialization).
- The size bound and eviction of the mock backend, `delete()` and the statistics
  of the caches.
- `observability.py`, `logging_config.py`, the counters of `backpressure.py`:
  written, never read by a decision.
- `config.py`, `models/`, `decorators.py`, `orchestrator.py`, `testing.py`:
  values, conversions and forwarding without state of their own.
- The 5 s bounds of cleanup and the size of connection pools.
- The order of cleanup across components (section 6).
