---------------------------- MODULE ActivityCache ----------------------------
(***************************************************************************)
(* DualeAISDK.execute_activity (src/src/dualeai/sdk.py) with the cache it  *)
(* reads and writes, the aiojobs scheduler that runs the function, the     *)
(* calls that clear the cache, and the part of cleanup() that closes both. *)
(* Every user calls the same activity with the same arguments.             *)
(***************************************************************************)
EXTENDS CacheBackend, FiniteSets

CONSTANTS
  Admins,     \* users that call clear_cache or cleanup_expired_cache instead
  MaxJobs,    \* max_concurrent_activities
  MaxRetries, \* max_retries
  Clock, Closer,  \* the passage of time, and the caller of cleanup()
  ActorGroups \* bound: who takes part together

ASSUME RetriesAssumption == MaxRetries \in Nat

Activities == Users \ Admins

VARIABLES
  actors,
  cache,        \* _cache: the creator of the backend, or NoUser
  holds,        \* the backend a call works with
  pc,           \* where each call is
  job,          \* the aiojobs job of each call
  tries,        \* attempts of a running function that failed
  scheduler,    \* _scheduler: "none", "open" or "closed"
  stage,        \* how far cleanup() is
  late,         \* calls that were scheduled after cleanup closed the scheduler
  stamp,        \* history: when a call missed the cache, and when it wrote
  before,       \* history: the calls that had run and answered when a call began
  voided,       \* history: the cache failed, was emptied, or there were two of them
  stale,        \* history: the kinds of backend that served a result past its TTL
  overlap       \* history: calls that opened a backend while another did

schedulerVars == <<scheduler, late>>
historyVars == <<stamp, before, voided, stale, overlap>>
callVars == <<actors, cache, holds, pc, job, tries, schedulerVars, stage, historyVars>>
vars == <<cacheVars, callVars>>

Done == {"answered", "failed", "timed_out", "cancelled"}
Active == {"pending", "running", "cancelling"}

Init ==
  /\ CacheInit
  /\ actors \in ActorGroups
  /\ ttl \in IF Clock \in actors THEN Ttls ELSE {0}
  /\ cache = NoUser
  /\ holds = [c \in Users |-> NoUser]
  /\ pc = [c \in Users |-> "idle"]
  /\ job = [c \in Users |-> "none"]
  /\ tries = [c \in Users |-> 0]
  /\ scheduler = "none"
  /\ stage = "none"
  /\ late = {}
  /\ stamp = [c \in Users |-> 0]
  /\ before = [c \in Users |-> {}]
  /\ voided = FALSE
  /\ stale = {}
  /\ overlap = {}

Goes(c, place) == pc' = [pc EXCEPT ![c] = place]
JobIs(c, state) == job' = [job EXCEPT ![c] = state]
Stamps(c) == stamp' = [stamp EXCEPT ![c] = clock]

\* What a step of a call leaves alone, step by step of execute_activity.
SameCalls == UNCHANGED <<actors, stage>>
SameJobs == UNCHANGED <<job, tries, schedulerVars>>
SameHistory == UNCHANGED <<stamp, before, voided, stale, overlap>>

-----------------------------------------------------------------------------
(* _ensure_cache *)

Runners == {d \in Activities : pc[d] = "answered" /\ job[d] = "returned"}
Opening == {d \in Users : pc[d] = "opening"}

\* The call has the backend there is.
TakeCache(c) ==
  /\ cache # NoUser
  /\ holds' = [holds EXCEPT ![c] = cache]
  /\ Goes(c, "reading")
  /\ UNCHANGED <<cacheVars, cache, overlap, voided>>

\* A mock backend is created without a suspension.
CreateMock(c) ==
  /\ cache = NoUser /\ redisUrl = "mock"
  /\ Create(c)
  /\ cache' = c
  /\ holds' = [holds EXCEPT ![c] = c]
  /\ Goes(c, "reading")
  /\ voided' = (voided \/ \E b \in Users : handle[b] # "none")
  /\ UNCHANGED overlap

StartOpening(c) ==
  /\ cache = NoUser /\ redisUrl # "mock"
  /\ Goes(c, "opening")
  /\ overlap' = IF Opening = {} THEN overlap ELSE overlap \cup Opening \cup {c}
  /\ UNCHANGED <<cacheVars, cache, holds, voided>>

Ask(c) ==
  /\ pc[c] = "idle" /\ c \in actors
  /\ before' = [before EXCEPT ![c] = Runners]
  /\ TakeCache(c) \/ CreateMock(c) \/ StartOpening(c)
  /\ SameCalls /\ SameJobs
  /\ UNCHANGED <<stamp, stale>>

\* Each call that found no cache assigns its own when it has one.
Opened(c) ==
  /\ pc[c] = "opening"
  /\ Create(c)
  /\ cache' = c
  /\ holds' = [holds EXCEPT ![c] = c]
  /\ Goes(c, "reading")
  /\ voided' = (voided \/ \E b \in Users : handle[b] # "none")
  /\ SameCalls /\ SameJobs
  /\ UNCHANGED <<stamp, before, stale, overlap>>

OpenFails(c) ==
  /\ pc[c] = "opening"
  /\ Goes(c, "failed")
  /\ SameCalls /\ SameJobs /\ SameHistory
  /\ UNCHANGED <<cacheVars, cache, holds>>

-----------------------------------------------------------------------------
(* The read, and the job of a miss *)

\* The entry is older than the longest jittered TTL.
Overdue(entry) == entry.at + ttl + Jitter < clock

\* A hit; the result is not None, which would be none.
Hit(c, entry) ==
  /\ entry # NoEntry
  /\ stale' = IF Overdue(entry) THEN stale \cup {kind[holds[c]]} ELSE stale
  /\ Goes(c, "answered")
  /\ UNCHANGED <<job, schedulerVars, stamp, voided>>

\* _ensure_scheduler replaces a scheduler that is closed.
Spawn(c) ==
  /\ scheduler' = "open"
  /\ late' = IF stage \in {"none", "draining"} THEN late ELSE late \cup {c}
  /\ JobIs(c, "pending")
  /\ Goes(c, "waiting")
  /\ Stamps(c)
  /\ UNCHANGED stale

Read(c) ==
  /\ pc[c] = "reading" /\ c \in Activities
  /\ Touch(holds[c])
  /\ \/ \E entry \in {stored[Place(holds[c])], NoEntry} :
          /\ Get(holds[c], entry)
          /\ \/ Hit(c, entry)
             \/ entry = NoEntry /\ Spawn(c) /\ UNCHANGED voided
     \/ Swallows(holds[c]) /\ Spawn(c) /\ voided' = TRUE /\ UNCHANGED stored
  /\ UNCHANGED <<cache, holds, tries, before, overlap>>
  /\ Keep /\ SameCalls

\* get, or another call to the backend, raises; the caller of execute_activity,
\* clear_cache or cleanup_expired_cache gets the error.
ReadFails(c) ==
  /\ pc[c] = "reading"
  /\ MayFail(holds[c])
  /\ Raises(holds[c]) \/ c \in Admins
  /\ Goes(c, "failed")
  /\ SameCalls /\ SameJobs /\ SameHistory
  /\ UNCHANGED <<cacheVars, cache, holds>>

\* clear_cache or cleanup_expired_cache
Administer(c) ==
  /\ pc[c] = "reading" /\ c \in Admins
  /\ \/ Drop(holds[c]) /\ Touch(holds[c]) /\ voided' = TRUE
     \/ kind[holds[c]] # "redis" /\ DropExpired(holds[c]) /\ Touch(holds[c]) /\ UNCHANGED voided
     \/ kind[holds[c]] = "redis" /\ UNCHANGED <<stored, handle, voided>>
  /\ Goes(c, "answered")
  /\ UNCHANGED <<cache, holds, stamp, before, stale, overlap>>
  /\ Keep /\ SameCalls /\ SameJobs

-----------------------------------------------------------------------------
(* The job.  A function that is cancelled ends within the close timeout. *)

SameButJob == UNCHANGED <<cacheVars, actors, cache, holds, pc, schedulerVars, stage, historyVars>>

Fellows(c) == {d \in Activities : job[d] \in {"running", "cancelling"} /\ (d \in late) = (c \in late)}

JobStarts(c) ==
  /\ job[c] = "pending"
  /\ Cardinality(Fellows(c)) < MaxJobs
  /\ JobIs(c, "running")
  /\ UNCHANGED tries /\ SameButJob

JobReturns(c) ==
  /\ job[c] = "running"
  /\ JobIs(c, "returned")
  /\ tries' = [tries EXCEPT ![c] = 0]
  /\ SameButJob

\* Any Exception of the function is retried, max_retries times.
JobRaises(c) ==
  /\ job[c] = "running"
  /\ IF tries[c] < MaxRetries
       THEN tries' = [tries EXCEPT ![c] = @ + 1] /\ UNCHANGED job
       ELSE JobIs(c, "failed") /\ tries' = [tries EXCEPT ![c] = 0]
  /\ SameButJob

JobStops(c) ==
  /\ job[c] = "cancelling"
  /\ JobIs(c, "closed")
  /\ UNCHANGED tries /\ SameButJob

\* Closing a job that has not started takes it out of the queue.
Closed(state) ==
  CASE state = "pending" -> "closed"
    [] state = "running" -> "cancelling"
    [] OTHER -> state

\* Mutant: the call times out and leaves its job to itself.
TimesOutLeaving(c) ==
  /\ pc[c] = "waiting"
  /\ Goes(c, "timed_out")
  /\ SameCalls /\ SameJobs /\ SameHistory
  /\ UNCHANGED <<cacheVars, cache, holds>>

\* Mutant: the call waits for its job instead of closing it.
TimesOutAwaiting(c) ==
  /\ pc[c] = "waiting"
  /\ Goes(c, "closing")
  /\ SameCalls /\ SameJobs /\ SameHistory
  /\ UNCHANGED <<cacheVars, cache, holds>>

\* The timer of wait_for fires before the call resumes, and the job is closed wherever
\* it is: pending, running, or through with a result that is dropped.  A function that
\* is not async holds the event loop, so its timer is due when it returns late.
TimesOut(c) ==
  /\ pc[c] = "waiting"
  /\ Goes(c, "closing")
  /\ JobIs(c, Closed(job[c]))
  /\ SameCalls /\ SameHistory
  /\ UNCHANGED <<cacheVars, cache, holds, tries, schedulerVars>>

\* The caller is cancelled: job.wait closes its job, an await of the cache just ends.
CallerCancelled(c) ==
  /\ \/ pc[c] = "waiting" /\ Goes(c, "withdrawing") /\ JobIs(c, Closed(job[c]))
     \/ pc[c] = "opening" /\ Goes(c, "cancelled") /\ UNCHANGED job
     \/ /\ pc[c] \in {"reading", "writing", "committing"}
        /\ kind[holds[c]] # "mock"
        /\ Goes(c, "cancelled") /\ UNCHANGED job
  /\ SameCalls /\ SameHistory
  /\ UNCHANGED <<cacheVars, cache, holds, tries, schedulerVars>>

CloseReturns(c) ==
  /\ pc[c] \in {"closing", "withdrawing"}
  /\ job[c] \notin Active
  /\ Goes(c, IF pc[c] = "closing" THEN "timed_out" ELSE "cancelled")
  /\ SameCalls /\ SameJobs /\ SameHistory
  /\ UNCHANGED <<cacheVars, cache, holds>>

\* job.wait returns; a job closed by cleanup was cancelled.
JobAwaited(c) ==
  /\ pc[c] = "waiting"
  /\ job[c] \in {"returned", "failed", "closed"}
  /\ Goes(c, CASE job[c] = "returned" -> "writing" [] job[c] = "failed" -> "failed" [] job[c] = "closed" -> "cancelled")
  /\ SameCalls /\ SameJobs /\ SameHistory
  /\ UNCHANGED <<cacheVars, cache, holds>>

-----------------------------------------------------------------------------
(* The write *)

SameAfterWrite == UNCHANGED <<cache, holds, before, stale, overlap>> /\ Keep /\ SameCalls /\ SameJobs

\* Redis and mock; Redis swallows its errors.
Write(c) ==
  /\ pc[c] = "writing" /\ kind[holds[c]] # "sqlite"
  /\ Touch(holds[c])
  /\ \/ /\ \E entry \in Entries(c, holds[c], clock) : Put(holds[c], entry)
        /\ UNCHANGED voided
     \/ Swallows(holds[c]) /\ voided' = TRUE /\ UNCHANGED stored
  /\ Stamps(c)
  /\ Goes(c, "answered")
  /\ SameAfterWrite

\* SQLite: the row is written and then committed.
Execute(c) ==
  /\ pc[c] = "writing" /\ kind[holds[c]] = "sqlite"
  /\ Touch(holds[c])
  /\ Stamps(c)
  /\ Goes(c, "committing")
  /\ UNCHANGED <<stored, voided>>
  /\ SameAfterWrite

Commit(c) ==
  /\ pc[c] = "committing" /\ handle[holds[c]] # "closed"
  /\ \E entry \in Entries(c, holds[c], stamp[c]) : Put(holds[c], entry)
  /\ Goes(c, "answered")
  /\ UNCHANGED <<handle, stamp, voided>>
  /\ SameAfterWrite

\* Mutant: the errors of a Redis write are raised like those of SQLite.
WriteFailsRaising(c) ==
  /\ pc[c] \in {"writing", "committing"} /\ MayFail(holds[c])
  /\ Goes(c, "failed")
  /\ UNCHANGED <<handle, stored, stamp, voided>>
  /\ SameAfterWrite

\* SQLite raises, or has no connection between its two steps because it was closed;
\* Redis that was closed cannot connect again.  The result of the function is lost.
WriteFails(c) ==
  /\ pc[c] \in {"writing", "committing"}
  /\ MayFail(holds[c]) /\ Raises(holds[c])
  /\ Goes(c, "failed")
  /\ UNCHANGED <<handle, stored, stamp, voided>>
  /\ SameAfterWrite

-----------------------------------------------------------------------------
(* cleanup(): the scheduler, then the cache *)

SameForCleanup == UNCHANGED <<actors, holds, pc, tries, late, stamp, before, stale, overlap>>

CleanupStarts ==
  /\ stage = "none" /\ Closer \in actors
  /\ stage' = IF scheduler = "open" THEN "draining" ELSE "cache"
  /\ UNCHANGED <<cacheVars, cache, job, scheduler, voided>>
  /\ SameForCleanup

\* wait_and_close is through, or has taken three seconds: the jobs left are closed.
DrainEnds ==
  /\ stage = "draining"
  /\ stage' = "closing"
  /\ scheduler' = "closed"
  /\ job' = [c \in Users |-> Closed(job[c])]
  /\ UNCHANGED <<cacheVars, cache, voided>>
  /\ SameForCleanup

\* A scheduler made meanwhile by _ensure_scheduler is forgotten with the closed one.
SchedulerForgotten ==
  /\ stage = "closing"
  /\ \A c \in Users \ late : job[c] # "cancelling"
  /\ stage' = "cache"
  /\ scheduler' = "none"
  /\ UNCHANGED <<cacheVars, cache, job, voided>>
  /\ SameForCleanup

\* The backend in use is closed; the one of a call that lost the race is not.
CacheCloses ==
  /\ stage = "cache"
  /\ IF cache = NoUser
       THEN stage' = "over" /\ UNCHANGED <<cacheVars, cache, voided>>
       ELSE /\ Close(cache)
            /\ stage' = IF kind[cache] = "mock" THEN "over" ELSE "forgetting"
            /\ cache' = IF kind[cache] = "mock" THEN NoUser ELSE cache
            /\ voided' = TRUE
  /\ UNCHANGED <<job, scheduler>>
  /\ SameForCleanup

CacheForgotten ==
  /\ stage = "forgetting"
  /\ stage' = "over"
  /\ cache' = NoUser
  /\ UNCHANGED <<cacheVars, job, scheduler, voided>>
  /\ SameForCleanup

Cleanup == CleanupStarts \/ DrainEnds \/ SchedulerForgotten \/ CacheCloses \/ CacheForgotten

-----------------------------------------------------------------------------
JobEnds(c) == JobReturns(c) \/ JobRaises(c) \/ JobStops(c)

CallStep(c) ==
  \/ Opened(c) \/ OpenFails(c)
  \/ Read(c) \/ ReadFails(c) \/ Administer(c)
  \/ TimesOut(c) \/ CloseReturns(c) \/ JobAwaited(c)
  \/ Write(c) \/ Execute(c) \/ Commit(c) \/ WriteFails(c)

\* A call does not suspend in an operation of a mock backend.
InMock(c) == pc[c] \in {"reading", "writing"} /\ kind[holds[c]] = "mock"
Turn(c) == \A d \in Users \ {c} : ~InMock(d)

\* Bound: the calls to a backend take no time, the function does.
TimePasses ==
  /\ Clock \in actors
  /\ \A c \in Users : pc[c] \in Done \cup {"idle", "waiting"}
  /\ Tick
  /\ UNCHANGED callVars

Next ==
  \/ \E c \in Users :
       /\ Turn(c)
       /\ Ask(c) \/ CallStep(c) \/ CallerCancelled(c) \/ JobStarts(c) \/ JobEnds(c)
  \/ Turn(NoUser) /\ Cleanup
  \/ TimePasses
  \/ \E b \in Users : CleanupLoop(b) /\ UNCHANGED callVars

\* The event loop resumes every call and the cleanup; job_timeout bounds a job, and
\* a cancelled function ends.
Fairness ==
  /\ \A c \in Users : WF_vars(Turn(c) /\ (CallStep(c) \/ JobStops(c)))
  /\ WF_vars(Turn(NoUser) /\ stage # "none" /\ Cleanup)

Spec == Init /\ [][Next]_vars

FairSpec == Spec /\ Fairness

-----------------------------------------------------------------------------
(* Properties *)

TypeOK ==
  /\ kind \in [Users -> Kinds \cup {"none"}]
  /\ handle \in [Users -> {"none", "open", "closed", "reopened"}]
  /\ cache \in Users \cup {NoUser}
  /\ pc \in [Users -> Done \cup {"idle", "opening", "reading", "waiting", "closing", "withdrawing", "writing", "committing"}]
  /\ job \in [Users -> Active \cup {"none", "returned", "failed", "closed"}]
  /\ tries \in [Users -> 0 .. MaxRetries]
  /\ scheduler \in {"none", "open", "closed"}
  /\ stage \in {"none", "draining", "closing", "cache", "forgetting", "over"}

\* No result is served past the longest jitter of its TTL, save those that are kept for
\* ever: without a TTL, or by Redis if the jitter may leave no whole second of the TTL.
FreshHits == ttl # 0 => stale \subseteq IF ttl - Jitter < Second THEN {"redis"} ELSE {}

\* The times a write may be good for, if it ends.
Spans(b) == {Lifetime(kind[b], jittered) : jittered \in Jittered} \ {Forever}

\* A call that began after another had run the function and answered runs it again
\* only when that result has outlived the shortest jitter of its TTL, or the cache
\* failed or was emptied.
RunsOnceWhileFresh ==
  \A c \in Activities : job[c] # "none" /\ ~voided =>
    \A d \in before[c] : \E span \in Spans(holds[d]) : stamp[c] >= stamp[d] + span

\* A call that awaited the result of the function gets another error instead, in place
\* of the result, only from SQLite or from a cache that was closed under it.
ResultKept ==
  \A c \in Activities :
    pc[c] = "failed" /\ job[c] = "returned" => kind[holds[c]] = "sqlite" \/ handle[holds[c]] \in {"closed", "reopened"}

\* Whoever has an answer, by a timeout or a cancellation too, leaves no job behind; a
\* backend that is open is the one in use, or was opened by overlapping first calls.
NothingLeftBehind ==
  /\ TypeOK
  /\ \A c \in Activities : pc[c] \in Done => job[c] \notin Active
  /\ \A b \in Users : handle[b] = "open" => b = cache \/ b \in overlap

\* Every call is answered, though the function may never return, and cleanup ends.
CallsAndCleanupEnd ==
  <>[]((\A c \in Users : pc[c] \in Done \cup {"idle"}) /\ stage \in {"none", "over"})
=============================================================================
