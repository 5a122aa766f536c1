------------------------- MODULE ActivityCache_proofs -------------------------
(***************************************************************************)
(* Proofs about ActivityCache and the backend below it, for any users, any *)
(* TTLs and any limits.                                                    *)
(***************************************************************************)
EXTENDS ActivityCache, TLAPS

PcStates ==
  Done \cup {"idle", "opening", "reading", "waiting", "closing", "withdrawing", "writing",
             "committing"}
JobStates == Active \cup {"none", "returned", "failed", "closed"}

\* The jobs that a call may have where it is.
Fits(place, state) ==
  /\ place \in {"idle", "opening", "reading"} => state = "none"
  /\ place = "waiting" => state # "none"
  /\ place = "closing" => state \in {"cancelling", "closed", "returned", "failed"}
  /\ place \in {"writing", "committing"} => state = "returned"
  /\ place \in Done => state \notin Active

JobInv ==
  /\ pc \in [Users -> PcStates] /\ job \in [Users -> JobStates]
  /\ tries \in [Users -> 0 .. MaxRetries]
  /\ \A c \in Users : Fits(pc[c], job[c])

\* Where a call has a backend.
Using == {"reading", "waiting", "closing", "withdrawing", "writing", "committing", "answered"}

\* A result that is lost to its caller.
Lost(c) == pc[c] = "failed" /\ job[c] = "returned"

\* A backend is created once, by a call that takes it, and is of the kind asked for.
BackendInv ==
  /\ redisUrl \in {"none", "redis", "mock"}
  /\ kind \in [Users -> Kinds \cup {"none"}]
  /\ handle \in [Users -> {"none", "open", "closed", "reopened"}]
  /\ cache \in Users \cup {NoUser} /\ holds \in [Users -> Users \cup {NoUser}]
  /\ \A b \in Users :
       /\ kind[b] = "none" <=> handle[b] = "none"
       /\ kind[b] # "none" => pc[b] \notin {"idle", "opening"} /\ kind[b] \in Creatable
  /\ cache # NoUser => kind[cache] # "none"
  /\ \A c \in Users :
       /\ holds[c] # NoUser => kind[holds[c]] # "none"
       /\ pc[c] \in Using => holds[c] # NoUser
       /\ Lost(c) => /\ holds[c] # NoUser
                     /\ kind[holds[c]] = "sqlite" \/ handle[holds[c]] \in {"closed", "reopened"}

\* Calls that open a backend at a time are in overlap, and so is the backend that
\* one of them assigned while others are still about to replace it, or while
\* cleanup is about to forget it.
SharedInv ==
  /\ scheduler \in {"none", "open", "closed"}
  /\ stage \in {"none", "draining", "closing", "cache", "forgetting", "over"}
  /\ redisUrl = "mock" => Opening = {}
  /\ \A d, e \in Opening : d # e => d \in overlap
  /\ cache # NoUser => Opening \subseteq overlap
  /\ (Opening # {} \/ stage = "forgetting") /\ cache # NoUser /\ handle[cache] = "open" =>
       cache \in overlap
  /\ stage = "forgetting" => cache # NoUser
  /\ \A b \in Users : handle[b] = "open" => b = cache \/ b \in overlap

EntryTypes == [by : Users \cup {NoUser}, at : Nat, until : Nat]

\* An entry ends a tick after its longest jittered TTL at the latest, but for those of
\* Redis that have no whole second.
Bounded(p, entry) ==
  \/ ttl = 0
  \/ redisUrl = "redis" /\ p = "redis" /\ ttl - Jitter < Second
  \/ entry.until # Forever /\ entry.until <= entry.at + ttl + Jitter + 1

FreshInv ==
  /\ ttl \in Nat /\ clock \in Nat /\ stamp \in [Users -> Nat]
  /\ stored \in [Places -> EntryTypes]
  /\ \A p \in Places : stored[p] # NoEntry => Bounded(p, stored[p])
  /\ FreshHits

\* By the time t, a span that what call d wrote may be good for is over.
Expired(t, d) == \E span \in Spans(holds[d]) : t >= stamp[d] + span

\* What d wrote is good no more, or an entry that is good as long is in its place.
Covered(d) ==
  \/ Expired(clock, d)
  \/ /\ stored[Place(holds[d])] # NoEntry
     /\ \/ stored[Place(holds[d])].until = Forever
        \/ Expired(stored[Place(holds[d])].until, d)

\* As long as the history is not voided there is one backend, which is open.
OneCache ==
  /\ \A b \in Users : handle[b] # "none" => b = cache /\ handle[b] = "open"
  /\ \A d \in Runners : Covered(d)
  /\ \A c \in Activities : job[c] # "none" => \A d \in before[c] : Expired(stamp[c], d)

OnceInv ==
  /\ before \in [Users -> SUBSET Activities]
  /\ \A c \in Users :
       /\ stamp[c] <= clock
       /\ pc[c] = "committing" => stamp[c] = clock
       /\ before[c] \subseteq Runners
  /\ stage = "forgetting" => voided
  /\ ~voided => OneCache

-----------------------------------------------------------------------------
(* Calls and their jobs *)

\* A step of one call and of its job.
LEMMA OneCall ==
  ASSUME JobInv, NEW c \in Users, NEW place \in PcStates, NEW state \in JobStates,
         pc' = [pc EXCEPT ![c] = place], job' = [job EXCEPT ![c] = state],
         tries' = tries, Fits(place, state)
  PROVE  JobInv'
  BY DEF JobInv

\* The same, when the job stays as it is.
LEMMA OnePc ==
  ASSUME JobInv, NEW c \in Users, NEW place \in PcStates,
         pc' = [pc EXCEPT ![c] = place], UNCHANGED <<job, tries>>, Fits(place, job[c])
  PROVE  JobInv'
  BY DEF JobInv

LEMMA ClosedFits ==
  ASSUME NEW place, NEW state \in JobStates, Fits(place, state)
  PROVE  Closed(state) \in JobStates /\ Fits(place, Closed(state))
  BY DEF Closed, JobStates, Fits, Active, Done

LEMMA ClosedEnds ==
  ASSUME NEW state \in JobStates, state # "none"
  PROVE  Closed(state) \in {"cancelling", "closed", "returned", "failed"}
  BY DEF Closed, JobStates, Active

LEMMA AskJobs ==
  ASSUME JobInv, NEW c \in Users, Ask(c)
  PROVE  JobInv'
<1>1. UNCHANGED <<job, tries>> /\ pc[c] = "idle"
  BY DEF Ask, SameJobs
<1>2. \E place \in {"reading", "opening"} : pc' = [pc EXCEPT ![c] = place]
  BY DEF Ask, TakeCache, CreateMock, StartOpening, Goes
<1> QED
  BY <1>1, <1>2, OnePc DEF JobInv, Fits, PcStates, Done

LEMMA ReadJobs ==
  ASSUME JobInv, NEW c \in Users, Read(c)
  PROVE  JobInv'
<1>1. pc[c] = "reading" /\ tries' = tries /\ job[c] = "none"
  BY DEF Read, JobInv, Fits
<1>2. CASE \E entry : Hit(c, entry)
  BY <1>1, <1>2, OnePc DEF Hit, Goes, Fits, PcStates, Done, Active
<1>3. CASE Spawn(c)
  <2>1. pc' = [pc EXCEPT ![c] = "waiting"] /\ job' = [job EXCEPT ![c] = "pending"]
    BY <1>3 DEF Spawn, Goes, JobIs
  <2>2. Fits("waiting", "pending") /\ "waiting" \in PcStates /\ "pending" \in JobStates
    BY DEF Fits, PcStates, JobStates, Done, Active
  <2> QED
    BY <1>1, <2>1, <2>2, OneCall
<1> QED
  BY <1>2, <1>3 DEF Read

\* The answers and errors that change no job.
LEMMA EndJobs ==
  ASSUME JobInv, NEW c \in Users,
         \/ Opened(c) \/ OpenFails(c) \/ ReadFails(c) \/ Administer(c) \/ CloseReturns(c)
         \/ JobAwaited(c) \/ Write(c) \/ Execute(c) \/ Commit(c) \/ WriteFails(c)
  PROVE  JobInv'
<1>1. UNCHANGED <<job, tries>>
  BY DEF Opened, OpenFails, ReadFails, Administer, CloseReturns, JobAwaited, Write, Execute,
         Commit, WriteFails, SameJobs, SameAfterWrite
<1>2. Fits(pc[c], job[c]) /\ job[c] \in JobStates
  BY DEF JobInv
<1>3. CASE Opened(c)
  BY <1>1, <1>2, <1>3, OnePc DEF Opened, Goes, Fits, PcStates, Done
<1>4. CASE OpenFails(c) \/ ReadFails(c) \/ Administer(c)
  <2>1. job[c] = "none"
    BY <1>2, <1>4 DEF OpenFails, ReadFails, Administer, Fits
  <2>2. \E place \in {"failed", "answered"} : pc' = [pc EXCEPT ![c] = place]
    BY <1>4 DEF OpenFails, ReadFails, Administer, Goes
  <2> QED
    BY <1>1, <2>1, <2>2, OnePc DEF Fits, PcStates, Done, Active
<1>5. CASE CloseReturns(c)
  <2>1. /\ job[c] \notin Active
        /\ \E place \in {"timed_out", "cancelled"} : pc' = [pc EXCEPT ![c] = place]
    BY <1>5 DEF CloseReturns, Goes
  <2> QED
    BY <1>1, <2>1, OnePc DEF Fits, PcStates, Done
<1>6. CASE JobAwaited(c)
  <2>1. \/ job[c] = "returned" /\ pc' = [pc EXCEPT ![c] = "writing"]
        \/ job[c] = "failed" /\ pc' = [pc EXCEPT ![c] = "failed"]
        \/ job[c] = "closed" /\ pc' = [pc EXCEPT ![c] = "cancelled"]
    BY <1>6 DEF JobAwaited, Goes
  <2> QED
    BY <1>1, <2>1, OnePc DEF Fits, PcStates, Done, Active
<1>7. CASE Write(c) \/ Execute(c) \/ Commit(c) \/ WriteFails(c)
  <2>1. job[c] = "returned"
    BY <1>2, <1>7 DEF Write, Execute, Commit, WriteFails, Fits
  <2>2. \E place \in {"answered", "committing", "failed"} : pc' = [pc EXCEPT ![c] = place]
    BY <1>7 DEF Write, Execute, Commit, WriteFails, Goes
  <2> QED
    BY <1>1, <2>1, <2>2, OnePc DEF Fits, PcStates, Done, Active
<1> QED
  BY <1>3, <1>4, <1>5, <1>6, <1>7

LEMMA StopJobs ==
  ASSUME JobInv, NEW c \in Users, TimesOut(c) \/ CallerCancelled(c)
  PROVE  JobInv'
<1>1. tries' = tries /\ Fits(pc[c], job[c]) /\ job[c] \in JobStates
  BY DEF TimesOut, CallerCancelled, JobInv
<1>2. CASE TimesOut(c)
  <2>1. /\ job[c] # "none" /\ pc' = [pc EXCEPT ![c] = "closing"]
        /\ job' = [job EXCEPT ![c] = Closed(job[c])]
    BY <1>1, <1>2 DEF TimesOut, Goes, JobIs, Fits
  <2>2. Closed(job[c]) \in {"cancelling", "closed", "returned", "failed"}
    BY <1>1, <2>1, ClosedEnds
  <2> QED
    BY <1>1, <2>1, <2>2, OneCall DEF Fits, PcStates, JobStates, Done, Active
<1>3. CASE pc[c] = "waiting" /\ Goes(c, "withdrawing") /\ JobIs(c, Closed(job[c]))
  <2>1. Closed(job[c]) \in JobStates /\ Fits("withdrawing", Closed(job[c]))
    BY <1>1, ClosedFits DEF Fits, Done
  <2>2. "withdrawing" \in PcStates
    BY DEF PcStates
  <2> QED
    BY <1>1, <1>3, <2>1, <2>2, OneCall DEF Goes, JobIs
<1>4. CASE /\ pc[c] \in {"opening", "reading", "writing", "committing"}
           /\ Goes(c, "cancelled") /\ UNCHANGED job
  <2>1. Fits("cancelled", job[c]) /\ "cancelled" \in PcStates
    BY <1>1, <1>4 DEF Fits, PcStates, Done, Active
  <2> QED
    BY <1>1, <1>4, <2>1, OnePc DEF Goes
<1> QED
  BY <1>2, <1>3, <1>4 DEF CallerCancelled

LEMMA JobSteps ==
  ASSUME JobInv, NEW c \in Users, JobStarts(c) \/ JobEnds(c)
  PROVE  JobInv'
<1>1. /\ pc' = pc /\ Fits(pc[c], job[c]) /\ tries \in [Users -> 0 .. MaxRetries]
      /\ job[c] \in Active /\ (job[c] = "cancelling" \/ job[c] \in {"pending", "running"})
  BY DEF JobStarts, JobEnds, JobReturns, JobRaises, JobStops, SameButJob, JobInv, Active
<1>2. \/ \E state \in {"running", "returned", "failed"} :
             job[c] \in {"pending", "running"} /\ job' = [job EXCEPT ![c] = state]
      \/ job[c] = "cancelling" /\ job' = [job EXCEPT ![c] = "closed"]
      \/ job' = job
  BY DEF JobStarts, JobEnds, JobReturns, JobRaises, JobStops, JobIs
<1>3. tries' \in [Users -> 0 .. MaxRetries]
  BY <1>1, RetriesAssumption
     DEF JobStarts, JobEnds, JobReturns, JobRaises, JobStops
<1>4. CASE \E state \in {"running", "returned", "failed"} :
             job[c] \in {"pending", "running"} /\ job' = [job EXCEPT ![c] = state]
  BY <1>1, <1>3, <1>4 DEF JobInv, Fits, JobStates, Active
<1>5. CASE job[c] = "cancelling" /\ job' = [job EXCEPT ![c] = "closed"]
  BY <1>1, <1>3, <1>5 DEF JobInv, Fits, JobStates, Active
<1>6. CASE job' = job
  BY <1>1, <1>3, <1>6 DEF JobInv
<1> QED
  BY <1>2, <1>4, <1>5, <1>6

LEMMA CleanupJobs ==
  ASSUME JobInv, Cleanup
  PROVE  JobInv'
<1>1. pc' = pc /\ tries' = tries
  BY DEF Cleanup, CleanupStarts, DrainEnds, SchedulerForgotten, CacheCloses, CacheForgotten,
         SameForCleanup
<1>2. job' = job \/ job' = [c \in Users |-> Closed(job[c])]
  BY DEF Cleanup, CleanupStarts, DrainEnds, SchedulerForgotten, CacheCloses, CacheForgotten
<1>3. CASE job' = [c \in Users |-> Closed(job[c])]
  <2>1. \A c \in Users : Closed(job[c]) \in JobStates /\ Fits(pc[c], Closed(job[c]))
    BY ClosedFits DEF JobInv
  <2> QED
    BY <1>1, <1>3, <2>1 DEF JobInv
<1> QED
  BY <1>1, <1>2, <1>3 DEF JobInv

LEMMA JobStep == JobInv /\ [Next]_vars => JobInv'
<1> SUFFICES ASSUME JobInv, [Next]_vars PROVE JobInv'
  OBVIOUS
<1>1. CASE UNCHANGED <<pc, job, tries>>
  BY <1>1 DEF JobInv
<1>2. CASE UNCHANGED vars \/ TimePasses \/ (\E b \in Users : CleanupLoop(b) /\ UNCHANGED callVars)
  BY <1>1, <1>2 DEF vars, callVars, TimePasses
<1> QED
  BY <1>2, AskJobs, ReadJobs, EndJobs, StopJobs, JobSteps, CleanupJobs DEF Next, CallStep

LEMMA AlwaysJobs == Spec => []JobInv
<1>1. Init => JobInv
  BY RetriesAssumption DEF Init, JobInv, Fits, PcStates, JobStates, Done, Active
<1> QED
  BY <1>1, JobStep, PTL DEF Spec

-----------------------------------------------------------------------------
(* The backends *)

\* A step that creates no backend leaves each what it is, and may close it or
\* connect it again.
HandleMoves(b) ==
  \/ handle'[b] = handle[b]
  \/ handle[b] = "closed" /\ handle'[b] = "reopened"
  \/ handle[b] # "none" /\ handle'[b] = "closed"

Settled ==
  /\ kind' = kind /\ redisUrl' = redisUrl /\ cache' \in {cache, NoUser}
  /\ handle' = [b \in Users |-> handle'[b]] /\ \A b \in Users : HandleMoves(b)

LEMMA TouchSettles ==
  ASSUME BackendInv, NEW b \in Users, Touch(b) \/ handle' = handle,
         kind' = kind, redisUrl' = redisUrl, cache' \in {cache, NoUser}
  PROVE  Settled
  BY DEF BackendInv, Touch, Reconnected, Settled, HandleMoves

\* A step of one call with the backend it has, if any.
LEMMA SettledCall ==
  ASSUME BackendInv, Settled, NEW c \in Users, NEW place \in PcStates \ {"idle", "opening"},
         pc' = [pc EXCEPT ![c] = place], holds' = holds,
         place \in Using => holds[c] # NoUser,
         \A d \in Users : job'[d] = "returned" => job[d] = "returned" \/ pc[d] # "failed",
         place = "failed" /\ job'[c] = "returned" =>
           /\ holds[c] # NoUser
           /\ kind[holds[c]] = "sqlite" \/ handle[holds[c]] \in {"closed", "reopened"},
         pc \in [Users -> PcStates]
  PROVE  BackendInv'
<1>1. \A b \in Users : handle'[b] \in {"none", "open", "closed", "reopened"}
                       /\ (handle'[b] = "none" <=> handle[b] = "none")
                       /\ (handle[b] \in {"closed", "reopened"} => handle'[b] \in {"closed", "reopened"})
  BY DEF Settled, HandleMoves, BackendInv
<1>2. handle' \in [Users -> {"none", "open", "closed", "reopened"}]
  BY <1>1 DEF Settled
<1>3. \A d \in Users : Lost(d)' => Lost(d) \/ d = c
  BY DEF Lost
<1>4. Creatable' = Creatable
  BY DEF Creatable, Settled
<1> QED
  BY <1>1, <1>2, <1>3, <1>4 DEF BackendInv, Settled, Lost

\* A step of the function, of cleanup() or of time.
LEMMA SettledQuiet ==
  ASSUME BackendInv, Settled, UNCHANGED <<pc, holds>>,
         \A d \in Users : job'[d] = "returned" => job[d] = "returned" \/ pc[d] # "failed"
  PROVE  BackendInv'
<1>1. \A b \in Users : handle'[b] \in {"none", "open", "closed", "reopened"}
                       /\ (handle'[b] = "none" <=> handle[b] = "none")
                       /\ (handle[b] \in {"closed", "reopened"} => handle'[b] \in {"closed", "reopened"})
  BY DEF Settled, HandleMoves, BackendInv
<1>2. handle' \in [Users -> {"none", "open", "closed", "reopened"}]
  BY <1>1 DEF Settled
<1>3. \A d \in Users : Lost(d)' => Lost(d)
  BY DEF Lost
<1>4. Creatable' = Creatable
  BY DEF Creatable, Settled
<1> QED
  BY <1>1, <1>2, <1>3, <1>4 DEF BackendInv, Settled

\* A call that comes to have the backend it opened.
LEMMA CreatingCall ==
  ASSUME BackendInv, JobInv, NEW c \in Users, Create(c), cache' = c, pc[c] \in {"idle", "opening"},
         holds' = [holds EXCEPT ![c] = c], pc' = [pc EXCEPT ![c] = "reading"], job' = job
  PROVE  BackendInv'
<1>1. PICK k \in Creatable : kind' = [kind EXCEPT ![c] = k]
  BY DEF Create
<1>2. k \in Kinds /\ Creatable' = Creatable
  BY DEF Create, Creatable, Kinds, BackendInv
<1>3. kind[c] = "none" /\ handle[c] = "none" /\ c # NoUser /\ redisUrl' = redisUrl
      /\ handle' = [handle EXCEPT ![c] = "open"]
  BY TimeAssumption DEF BackendInv, Create
<1>4. \A d \in Users : Lost(d)' => Lost(d) /\ d # c /\ holds'[d] = holds[d]
  BY DEF Lost, BackendInv, JobInv
<1>5. \A d \in Users : holds[d] # c /\ cache # c
  BY <1>3 DEF BackendInv
<1> QED
  BY <1>1, <1>2, <1>3, <1>4, <1>5 DEF BackendInv, Kinds, JobInv

\* A call that takes the backend there is.
LEMMA TakingCall ==
  ASSUME BackendInv, JobInv, NEW c \in Users, TakeCache(c), pc[c] = "idle", job' = job
  PROVE  BackendInv'
<1>1. /\ cache # NoUser /\ cache' = cache /\ UNCHANGED <<kind, handle, redisUrl>>
      /\ holds' = [holds EXCEPT ![c] = cache] /\ pc' = [pc EXCEPT ![c] = "reading"]
  BY DEF TakeCache, Goes, cacheVars
<1>2. \A d \in Users : Lost(d)' => Lost(d) /\ d # c
  BY <1>1 DEF Lost, JobInv
<1>3. Creatable' = Creatable
  BY <1>1 DEF Creatable
<1> QED
  BY <1>1, <1>2, <1>3 DEF BackendInv, JobInv

LEMMA AskBackend ==
  ASSUME BackendInv, JobInv, NEW c \in Users, Ask(c)
  PROVE  BackendInv'
<1>1. pc[c] = "idle" /\ job' = job
  BY DEF Ask, SameJobs
<1>2. CASE TakeCache(c)
  BY <1>1, <1>2, TakingCall
<1>3. CASE CreateMock(c)
  BY <1>1, <1>3, CreatingCall DEF CreateMock, Goes
<1>4. CASE StartOpening(c)
  <2>1. /\ UNCHANGED <<redisUrl, kind, handle, cache, holds>>
        /\ pc' = [pc EXCEPT ![c] = "opening"]
    BY <1>4 DEF StartOpening, Goes, cacheVars
  <2>2. \A d \in Users : Lost(d)' => Lost(d)
    BY <1>1, <2>1 DEF Lost, JobInv
  <2>3. Creatable' = Creatable
    BY <2>1 DEF Creatable
  <2> QED
    BY <1>1, <2>1, <2>2, <2>3 DEF BackendInv, JobInv, Using
<1> QED
  BY <1>2, <1>3, <1>4 DEF Ask

LEMMA CallBackend ==
  ASSUME BackendInv, JobInv, NEW c \in Users, CallStep(c) \/ CallerCancelled(c)
  PROVE  BackendInv'
<1>1. pc \in [Users -> PcStates] /\ job \in [Users -> JobStates] /\ Fits(pc[c], job[c])
  BY DEF JobInv
<1>2. CASE Opened(c)
  BY <1>2, CreatingCall DEF Opened, Goes, SameJobs
<1>3. ASSUME NEW place \in {"waiting", "closing", "withdrawing", "writing", "committing", "answered"},
             Settled, holds' = holds, pc' = [pc EXCEPT ![c] = place], pc[c] \in Using,
             \A d \in Users : job'[d] = "returned" => job[d] = "returned"
      PROVE  BackendInv'
  <2>1. holds[c] # NoUser
    BY <1>3 DEF BackendInv
  <2> QED
    BY <1>1, <1>3, <2>1, SettledCall DEF PcStates, Done
<1>4. ASSUME NEW place \in {"failed", "timed_out", "cancelled"}, Settled, holds' = holds,
             pc' = [pc EXCEPT ![c] = place], job' = job,
             place = "failed" => job[c] # "returned"
      PROVE  BackendInv'
  BY <1>1, <1>4, SettledCall DEF PcStates, Done, Using
<1>5. ASSUME cache' = cache, UNCHANGED <<kind, handle, redisUrl>> PROVE Settled
  BY <1>5 DEF BackendInv, Settled, HandleMoves
<1>6. ASSUME pc[c] \in Using PROVE holds[c] \in Users
  BY <1>6 DEF BackendInv
<1>7. CASE OpenFails(c) \/ ReadFails(c)
  BY <1>1, <1>4, <1>5, <1>7
     DEF OpenFails, ReadFails, SameJobs, Goes, cacheVars, Fits
<1>8. CASE Read(c)
  <2>1. /\ Settled /\ holds' = holds /\ pc[c] \in Using
        /\ \E place \in {"waiting", "answered"} : pc' = [pc EXCEPT ![c] = place]
    BY <1>6, <1>8, TouchSettles DEF Read, Keep, Hit, Spawn, Goes, Using
  <2>2. \A d \in Users : job'[d] = "returned" => job[d] = "returned"
    BY <1>1, <1>8 DEF Read, Hit, Spawn, JobIs
  <2> QED
    BY <1>3, <2>1, <2>2
<1>9. CASE Administer(c)
  <2>1. /\ pc[c] = "reading"
        /\ Touch(holds[c]) \/ handle' = handle
        /\ UNCHANGED <<kind, redisUrl, cache, holds, job>> /\ pc' = [pc EXCEPT ![c] = "answered"]
    BY <1>9 DEF Administer, Keep, SameJobs, Goes
  <2>2. Settled
    BY <1>6, <2>1, TouchSettles DEF Using
  <2> QED
    BY <1>3, <2>1, <2>2, <1>9 DEF Using, Administer
<1>10. CASE TimesOut(c)
  <2>1. /\ Settled /\ holds' = holds /\ pc[c] \in Using /\ pc' = [pc EXCEPT ![c] = "closing"]
        /\ job' = [job EXCEPT ![c] = Closed(job[c])]
    BY <1>5, <1>10 DEF TimesOut, Goes, JobIs, cacheVars, Using
  <2>2. \A d \in Users : job'[d] = "returned" => job[d] = "returned"
    BY <1>1, <2>1 DEF Closed
  <2> QED
    BY <1>3, <2>1, <2>2
<1>11. CASE CallerCancelled(c)
  <2>1. Settled /\ holds' = holds
    BY <1>5, <1>11 DEF CallerCancelled, cacheVars
  <2>2. CASE pc[c] = "waiting" /\ Goes(c, "withdrawing") /\ JobIs(c, Closed(job[c]))
    <3>1. \A d \in Users : job'[d] = "returned" => job[d] = "returned"
      BY <1>1, <2>2 DEF JobIs, Closed
    <3> QED
      BY <1>3, <2>1, <2>2, <3>1 DEF Goes, Using
  <2> QED
    BY <1>4, <1>11, <2>1, <2>2 DEF CallerCancelled, Goes
<1>12. CASE CloseReturns(c)
  <2>1. Settled /\ holds' = holds /\ job' = job
    BY <1>5, <1>12 DEF CloseReturns, cacheVars, SameJobs
  <2>2. \E place \in {"timed_out", "cancelled"} : pc' = [pc EXCEPT ![c] = place]
    BY <1>12 DEF CloseReturns, Goes
  <2> QED
    BY <1>4, <2>1, <2>2
<1>13. CASE JobAwaited(c)
  <2>1. Settled /\ holds' = holds /\ job' = job /\ pc[c] \in Using
    BY <1>5, <1>13 DEF JobAwaited, cacheVars, SameJobs, Using
  <2>2. \/ job[c] = "returned" /\ pc' = [pc EXCEPT ![c] = "writing"]
        \/ job[c] = "failed" /\ pc' = [pc EXCEPT ![c] = "failed"]
        \/ job[c] = "closed" /\ pc' = [pc EXCEPT ![c] = "cancelled"]
    BY <1>13 DEF JobAwaited, Goes
  <2> QED
    BY <1>3, <1>4, <2>1, <2>2
<1>14. CASE Write(c) \/ Execute(c) \/ Commit(c)
  <2>1. /\ pc[c] \in Using /\ UNCHANGED <<kind, redisUrl, cache, holds, job>>
        /\ Touch(holds[c]) \/ handle' = handle
        /\ \E place \in {"committing", "answered"} : pc' = [pc EXCEPT ![c] = place]
    BY <1>14 DEF Write, Execute, Commit, SameAfterWrite, SameJobs, Keep, Goes, Using
  <2>2. Settled
    BY <1>6, <2>1, TouchSettles
  <2> QED
    BY <1>3, <2>1, <2>2
<1>15. CASE WriteFails(c)
  <2>1. /\ pc[c] \in Using /\ UNCHANGED <<kind, handle, redisUrl, cache, holds, job>>
        /\ pc' = [pc EXCEPT ![c] = "failed"]
        /\ kind[holds[c]] = "sqlite" \/ handle[holds[c]] = "closed"
    BY <1>15 DEF WriteFails, SameAfterWrite, SameJobs, Keep, Goes, Using, Raises
  <2>2. Settled /\ holds[c] # NoUser
    BY <1>5, <2>1 DEF BackendInv
  <2> QED
    BY <1>1, <2>1, <2>2, SettledCall DEF PcStates, Done, Using
<1> QED
  BY <1>2, <1>7, <1>8, <1>9, <1>10, <1>11, <1>12, <1>13, <1>14, <1>15 DEF CallStep

LEMMA BackendStep == BackendInv /\ JobInv /\ [Next]_vars => BackendInv'
<1> SUFFICES ASSUME BackendInv, JobInv, [Next]_vars PROVE BackendInv'
  OBVIOUS
<1>1. ASSUME cache' \in {cache, NoUser}, UNCHANGED <<kind, handle, redisUrl>> PROVE Settled
  BY <1>1 DEF BackendInv, Settled, HandleMoves
<1>2. CASE \E c \in Users : JobStarts(c) \/ JobEnds(c)
  <2>1. PICK c \in Users : JobStarts(c) \/ JobEnds(c)
    BY <1>2
  <2>2. Settled /\ UNCHANGED <<pc, holds>>
    BY <1>1, <2>1 DEF JobStarts, JobEnds, JobReturns, JobRaises, JobStops, SameButJob, cacheVars
  <2>3. \A d \in Users : job'[d] = "returned" => job[d] \in {"returned", "running"}
    BY <2>1 DEF JobStarts, JobEnds, JobReturns, JobRaises, JobStops, JobIs, JobInv
  <2>4. \A d \in Users : job[d] = "running" => pc[d] # "failed"
    BY DEF JobInv, Fits, Done, Active
  <2> QED
    BY <2>2, <2>3, <2>4, SettledQuiet
<1>3. CASE Cleanup
  <2>1. UNCHANGED <<pc, holds>> /\ \A d \in Users : job'[d] = "returned" => job[d] = "returned"
    BY <1>3 DEF Cleanup, CleanupStarts, DrainEnds, SchedulerForgotten, CacheCloses, CacheForgotten,
         SameForCleanup, Closed
  <2>2. CASE CacheCloses /\ cache # NoUser
    <3>1. /\ UNCHANGED <<kind, redisUrl>> /\ cache' \in {cache, NoUser}
          /\ handle' = [handle EXCEPT ![cache] = "closed"] /\ handle[cache] # "none"
      BY <2>2 DEF CacheCloses, Close, Keep, BackendInv
    <3>2. Settled
      BY <3>1 DEF Settled, HandleMoves, BackendInv
    <3> QED
      BY <2>1, <3>2, SettledQuiet
  <2>3. CASE ~(CacheCloses /\ cache # NoUser)
    <3>1. UNCHANGED <<kind, handle, redisUrl>> /\ cache' \in {cache, NoUser}
      BY <1>3, <2>3 DEF Cleanup, CleanupStarts, DrainEnds, SchedulerForgotten, CacheCloses,
           CacheForgotten, cacheVars
    <3> QED
      BY <1>1, <2>1, <3>1, SettledQuiet
  <2> QED
    BY <2>2, <2>3
<1>4. CASE UNCHANGED vars \/ TimePasses \/ (\E b \in Users : CleanupLoop(b) /\ UNCHANGED callVars)
  <2>1. UNCHANGED <<pc, holds, job, cache, kind, handle, redisUrl>>
    BY <1>4 DEF vars, cacheVars, callVars, TimePasses, Tick, CleanupLoop, Keep
  <2> QED
    BY <1>1, <2>1, SettledQuiet
<1> QED
  BY <1>2, <1>3, <1>4, AskBackend, CallBackend DEF Next

LEMMA AlwaysBackends == Spec => []BackendInv
<1>1. Init => BackendInv
  BY DEF Init, CacheInit, BackendInv, Using, Lost
<1> QED
  BY <1>1, BackendStep, AlwaysJobs, PTL DEF Spec

\* Whatever happens to the cache while a function runs, a call that awaited its result
\* fails, other than by its timeout, only for SQLite or a cache that was closed.
THEOREM ResultsAreKept == Spec => []ResultKept
<1>1. BackendInv => ResultKept
  BY DEF BackendInv, ResultKept, Lost, Activities
<1> QED
  BY <1>1, AlwaysBackends, PTL

-----------------------------------------------------------------------------
(* Backends that are shared, and those that are lost *)

Opens(c) == (Ask(c) /\ (CreateMock(c) \/ StartOpening(c))) \/ Opened(c)

\* Of the calls only the first users of a cache open a backend or replace it.
LEMMA NothingOpened ==
  ASSUME BackendInv, JobInv, [Next]_vars, ~Cleanup,
         \A c \in Users : ~Opens(c)
  PROVE  /\ UNCHANGED <<redisUrl, cache, overlap, stage>>
         /\ \A b \in Users : handle'[b] = "open" => handle[b] = "open"
         /\ Opening' \subseteq Opening
<1>1. pc \in [Users -> PcStates]
  BY DEF JobInv
<1>2. ASSUME NEW b, Touch(b) \/ handle' = handle
      PROVE  \A u \in Users : handle'[u] = "open" => handle[u] = "open"
  BY <1>2 DEF BackendInv, Touch, Reconnected
<1>3. ASSUME NEW c \in Users, NEW place, pc' = [pc EXCEPT ![c] = place], place # "opening"
      PROVE  Opening' \subseteq Opening
  BY <1>1, <1>3 DEF Opening
<1>4. ASSUME NEW c \in Users, Ask(c) PROVE TakeCache(c) /\ UNCHANGED stage
  BY <1>4 DEF Ask, SameCalls, Opens
<1>5. ASSUME NEW c \in Users, Ask(c) \/ CallStep(c) \/ CallerCancelled(c)
      PROVE  UNCHANGED <<redisUrl, cache, overlap, stage>>
  BY <1>4, <1>5
     DEF Opens, TakeCache, CallStep, OpenFails, Read, ReadFails, Administer, TimesOut, CloseReturns, JobAwaited,
         Write, Execute, Commit, WriteFails, CallerCancelled, SameCalls, SameHistory, SameAfterWrite,
         Keep, cacheVars
<1>6. ASSUME NEW c \in Users, Ask(c) \/ CallStep(c) \/ CallerCancelled(c)
      PROVE  Opening' \subseteq Opening
  <2>1. \E place \in PcStates \ {"opening"} : pc' = [pc EXCEPT ![c] = place]
    <3>1. CASE JobAwaited(c)
      BY <3>1 DEF JobAwaited, Goes, PcStates, Done
    <3>2. CASE CloseReturns(c)
      BY <3>2 DEF CloseReturns, Goes, PcStates, Done
    <3> QED
      BY <1>4, <1>6, <3>1, <3>2
         DEF Opens, TakeCache, CallStep, OpenFails, Read, Hit, Spawn, ReadFails, Administer, TimesOut, Write,
             Execute, Commit, WriteFails, CallerCancelled, Goes, PcStates, Done
  <2> QED
    BY <1>3, <2>1
<1>7. ASSUME NEW c \in Users, Ask(c) \/ CallStep(c) \/ CallerCancelled(c)
      PROVE  \A u \in Users : handle'[u] = "open" => handle[u] = "open"
  BY <1>2, <1>4, <1>7
     DEF Opens, TakeCache, CallStep, OpenFails, Read, ReadFails, Administer, TimesOut, CloseReturns, JobAwaited,
         Write, Execute, Commit, WriteFails, CallerCancelled, cacheVars
<1>8. CASE \E c \in Users : JobStarts(c) \/ JobEnds(c)
  BY <1>8 DEF JobStarts, JobEnds, JobReturns, JobRaises, JobStops, SameButJob, cacheVars, historyVars,
       Opening
<1>9. CASE UNCHANGED vars \/ TimePasses \/ (\E b \in Users : CleanupLoop(b) /\ UNCHANGED callVars)
  BY <1>9 DEF vars, cacheVars, callVars, historyVars, TimePasses, Tick, CleanupLoop, Keep, Opening
<1> QED
  BY <1>5, <1>6, <1>7, <1>8, <1>9 DEF Next

LEMMA StagesStep ==
  ASSUME SharedInv, [Next]_vars
  PROVE  /\ scheduler' \in {"none", "open", "closed"}
         /\ stage' \in {"none", "draining", "closing", "cache", "forgetting", "over"}
<1>1. CASE Cleanup
  BY <1>1 DEF SharedInv, Cleanup, CleanupStarts, DrainEnds, SchedulerForgotten, CacheCloses,
       CacheForgotten
<1>2. CASE ~Cleanup
  <2>1. scheduler' \in {scheduler, "open"} /\ stage' = stage
    BY <1>2
       DEF Next, vars, callVars, schedulerVars, Ask, CallStep, Opened, OpenFails, Read, Hit, Spawn,
           ReadFails, Administer, TimesOut, CloseReturns, JobAwaited, Write, Execute, Commit, WriteFails,
           CallerCancelled, JobStarts, JobEnds, JobReturns, JobRaises, JobStops, SameButJob, TimePasses,
           SameCalls, SameJobs, SameAfterWrite
  <2> QED
    BY <2>1 DEF SharedInv
<1> QED
  BY <1>1, <1>2

LEMMA SharedStep == SharedInv /\ BackendInv /\ JobInv /\ [Next]_vars => SharedInv'
<1> SUFFICES ASSUME SharedInv, BackendInv, JobInv, [Next]_vars PROVE SharedInv'
  OBVIOUS
<1>1. /\ scheduler' \in {"none", "open", "closed"}
      /\ stage' \in {"none", "draining", "closing", "cache", "forgetting", "over"}
  BY StagesStep
<1>2. pc \in [Users -> PcStates] /\ NoUser \notin Users /\ cache \in Users \cup {NoUser}
  BY TimeAssumption DEF JobInv, BackendInv
<1>3. ASSUME NEW c \in Users, StartOpening(c), UNCHANGED stage PROVE SharedInv'
  <2>1. /\ cache = NoUser /\ redisUrl # "mock" /\ UNCHANGED <<redisUrl, handle, cache, stage>>
        /\ Opening' = Opening \cup {c}
        /\ overlap' = IF Opening = {} THEN overlap ELSE overlap \cup Opening \cup {c}
    BY <1>2, <1>3 DEF StartOpening, Goes, cacheVars, Opening
  <2> QED
    BY <1>1, <2>1 DEF SharedInv
<1>4. ASSUME NEW c \in Users, Create(c), cache' = c, pc' = [pc EXCEPT ![c] = "reading"],
             UNCHANGED <<overlap, stage>>,
             (cache = NoUser /\ redisUrl = "mock") \/ c \in Opening
      PROVE  SharedInv'
  <2>1. /\ redisUrl' = redisUrl /\ Opening' = Opening \ {c} /\ handle'[c] = "open"
        /\ \A b \in Users \ {c} : handle'[b] = handle[b]
    BY <1>2, <1>4 DEF Create, Opening, BackendInv
  <2> QED
    BY <1>1, <1>2, <1>4, <2>1 DEF SharedInv
<1>5. CASE Cleanup
  <2>1. /\ UNCHANGED <<redisUrl, overlap>> /\ Opening' = Opening
        /\ \A b \in Users : handle'[b] = "open" => handle[b] = "open"
        /\ cache' \in {cache, NoUser}
    BY <1>2, <1>5 DEF Cleanup, CleanupStarts, DrainEnds, SchedulerForgotten, CacheCloses, CacheForgotten,
         SameForCleanup, Close, Keep, cacheVars, Opening, BackendInv
  <2>2. CASE CacheForgotten
    BY <1>1, <2>1, <2>2 DEF CacheForgotten, SharedInv
  <2>3. CASE CacheCloses
    <3>1. cache # NoUser => handle'[cache] = "closed"
      BY <1>2, <2>3 DEF CacheCloses, Close, BackendInv
    <3>2. \/ cache' = cache
          \/ cache' = NoUser /\ stage' # "forgetting"
      BY <2>3 DEF CacheCloses
    <3>3. stage' = "forgetting" => cache # NoUser /\ cache' = cache
      BY <2>3 DEF CacheCloses
    <3> QED
      BY <1>1, <1>2, <2>1, <3>1, <3>2, <3>3 DEF SharedInv
  <2>4. CASE CleanupStarts \/ DrainEnds \/ SchedulerForgotten
    <3>1. cache' = cache /\ stage' # "forgetting"
      BY <2>4 DEF CleanupStarts, DrainEnds, SchedulerForgotten
    <3> QED
      BY <1>1, <1>2, <2>1, <3>1 DEF SharedInv
  <2> QED
    BY <1>5, <2>2, <2>3, <2>4 DEF Cleanup
<1>6. CASE ~Cleanup /\ \A c \in Users : ~Opens(c)
  <2>1. /\ UNCHANGED <<redisUrl, cache, overlap, stage>>
        /\ \A b \in Users : handle'[b] = "open" => handle[b] = "open"
        /\ Opening' \subseteq Opening
    BY <1>6, NothingOpened
  <2> QED
    BY <1>1, <1>2, <2>1 DEF SharedInv
<1>7. ASSUME NEW c \in Users, Opens(c) PROVE SharedInv'
  <2>1. UNCHANGED stage
    BY <1>7 DEF Opens, Ask, Opened, SameCalls
  <2>2. CASE StartOpening(c)
    BY <1>3, <2>1, <2>2
  <2>3. CASE CreateMock(c)
    BY <1>4, <2>1, <2>3 DEF CreateMock, Goes
  <2>4. CASE Opened(c)
    BY <1>4, <2>1, <2>4 DEF Opened, Goes, Opening
  <2> QED
    BY <1>7, <2>2, <2>3, <2>4 DEF Opens
<1> QED
  BY <1>5, <1>6, <1>7

LEMMA AlwaysShared == Spec => []SharedInv
<1>1. Init => SharedInv
  BY DEF Init, CacheInit, SharedInv, Opening
<1> QED
  BY <1>1, SharedStep, AlwaysBackends, AlwaysJobs, PTL DEF Spec

\* Whoever has an answer leaves no job behind, and only overlapping first calls
\* leave a backend behind.
THEOREM NothingIsLeft == Spec => []NothingLeftBehind
<1>1. ASSUME JobInv, BackendInv, SharedInv PROVE NothingLeftBehind
  <2>1. TypeOK
    BY <1>1 DEF JobInv, BackendInv, SharedInv, TypeOK, PcStates, JobStates
  <2>2. \A c \in Activities : pc[c] \in Done => job[c] \notin Active
    BY <1>1 DEF JobInv, Fits, Activities
  <2> QED
    BY <1>1, <2>1, <2>2 DEF SharedInv, NothingLeftBehind
<1> QED
  BY <1>1, AlwaysJobs, AlwaysBackends, AlwaysShared, PTL

-----------------------------------------------------------------------------
(* What is stored, and for how long *)

LEMMA DivFacts ==
  ASSUME NEW n \in Nat, NEW k \in Nat \ {0}
  PROVE  /\ (n \div k) * k \in Nat /\ (n \div k) * k <= n
         /\ n >= k => (n \div k) * k # 0
<1>1. n \div k \in Nat /\ n % k \in 0 .. (k - 1) /\ n = k * (n \div k) + (n % k)
  BY Z3
<1>2. PICK q \in Nat : q = n \div k
  BY <1>1
<1>3. q * k = k * q /\ q * k \in Nat /\ n = (k * q) + (n % k)
  BY <1>1, <1>2
<1>4. ASSUME n >= k PROVE q # 0
  BY <1>1, <1>3, <1>4
<1>5. ASSUME q # 0 PROVE q * k # 0
  BY <1>5, Z3
<1> QED
  BY <1>1, <1>2, <1>3, <1>4, <1>5

\* The jitter takes half of a TTL at most.
LEMMA JitterFacts ==
  ASSUME ttl \in Nat
  PROVE  Jitter \in Nat /\ 2 * Jitter <= ttl
<1>1. CASE ttl < Second
  BY <1>1 DEF Jitter
<1>2. CASE ~(ttl < Second)
  <2> DEFINE scaled == ttl * JitterPercent
  <2>1. scaled \in Nat /\ scaled <= 50 * ttl
    BY JitterAssumption, Z3
  <2>2. Jitter = scaled \div 100
    BY <1>2 DEF Jitter
  <2> HIDE DEF scaled
  <2>3. scaled \div 100 \in Nat /\ 100 * (scaled \div 100) <= scaled
    BY <2>1
  <2> QED
    BY <2>1, <2>2, <2>3
<1> QED
  BY <1>1, <1>2

LEMMA JitteredFacts ==
  ASSUME ttl \in Nat, NEW jittered \in Jittered
  PROVE  /\ jittered \in Nat /\ ttl - Jitter <= jittered /\ jittered <= ttl + Jitter
         /\ ttl # 0 => jittered # 0
  BY JitterFacts DEF Jittered

\* How long an entry is good: some ticks, or for ever.
LEMMA LifetimeFacts ==
  ASSUME ttl \in Nat, NEW k \in Kinds, NEW jittered \in Jittered
  PROVE  /\ Lifetime(k, jittered) \in Nat
         /\ Lifetime(k, jittered) <= ttl + Jitter + 1
         /\ Lifetime(k, jittered) = 0 => ttl = 0 \/ (k = "redis" /\ ttl - Jitter < Second)
<1>1. /\ jittered \in Nat /\ ttl - Jitter <= jittered /\ jittered <= ttl + Jitter
      /\ ttl # 0 => jittered # 0
      /\ Jitter \in Nat /\ Second \in Nat \ {0}
  BY JitteredFacts, JitterFacts, TimeAssumption
<1>2. CASE ttl = 0
  BY <1>1, <1>2 DEF Lifetime, Forever
<1>3. CASE ttl # 0 /\ k = "redis"
  <2> DEFINE ticks == (jittered \div Second) * Second
  <2>1. ticks \in Nat /\ ticks <= jittered /\ (jittered >= Second => ticks # 0)
    BY <1>1, DivFacts
  <2>2. Lifetime(k, jittered) = ticks
    BY <1>3 DEF Lifetime, Ticks, RedisTicks
  <2> HIDE DEF ticks
  <2> QED
    BY <1>1, <1>3, <2>1, <2>2
<1>4. CASE ttl # 0 /\ k # "redis"
  <2>1. Lifetime(k, jittered) \in {jittered, jittered + 1}
    BY <1>4 DEF Lifetime, Ticks, SQLiteTicks, MockTicks, Kinds
  <2> QED
    BY <1>1, <1>4, <2>1
<1> QED
  BY <1>2, <1>3, <1>4

LEMMA EntriesAre ==
  ASSUME ttl \in Nat, BackendInv, NEW b \in Users, kind[b] # "none", NEW c \in Users,
         NEW now \in Nat, NEW entry \in Entries(c, b, now)
  PROVE  /\ entry \in EntryTypes /\ entry # NoEntry /\ Bounded(Place(b), entry)
         /\ entry.until = Forever \/ \E span \in Spans(b) : entry.until = now + span
<1>1. PICK jittered \in Jittered : entry = [by |-> c, at |-> now, until |-> Until(b, jittered, now)]
  BY DEF Entries
<1>2. /\ kind[b] \in Kinds /\ c # NoUser /\ Jitter \in Nat
      /\ kind[b] = "redis" => redisUrl = "redis" /\ Place(b) = "redis"
  BY TimeAssumption, JitterFacts DEF BackendInv, Creatable, Kinds, Place
<1>3. PICK lifetime \in Nat :
        /\ lifetime = Lifetime(kind[b], jittered) /\ lifetime <= ttl + Jitter + 1
        /\ lifetime = 0 => ttl = 0 \/ (kind[b] = "redis" /\ ttl - Jitter < Second)
  BY <1>2, LifetimeFacts
<1>4. Until(b, jittered, now) = IF lifetime = Forever THEN Forever ELSE now + lifetime
  BY <1>3 DEF Until
<1>5. /\ entry.by = c /\ entry.at = now /\ entry.until = Until(b, jittered, now)
      /\ NoEntry.by = NoUser
  BY <1>1 DEF NoEntry
<1>6. entry \in EntryTypes
  BY <1>1, <1>4 DEF EntryTypes, Forever
<1>7. Bounded(Place(b), entry)
  BY <1>2, <1>3, <1>4, <1>5 DEF Bounded, Forever
<1>8. lifetime # 0 => lifetime \in Spans(b)
  BY <1>3 DEF Spans, Forever
<1> QED
  BY <1>2, <1>4, <1>5, <1>6, <1>7, <1>8 DEF Forever

\* A step forgets an entry, or leaves one.
StoredMoves ==
  \/ stored' = stored
  \/ \E p \in Places : stored' = [stored EXCEPT ![p] = NoEntry]
  \/ \E c, b \in Users, now \in Nat :
       kind[b] # "none" /\ \E entry \in Entries(c, b, now) :
         stored' = [stored EXCEPT ![Place(b)] = entry]

LEMMA PlaceOf ==
  ASSUME BackendInv, NEW b \in Users, kind[b] # "none"
  PROVE  Place(b) \in Places
  BY DEF BackendInv, Place, Places, Kinds

LEMMA DropMoves ==
  ASSUME BackendInv, NEW b \in Users, kind[b] # "none", Drop(b) \/ DropExpired(b)
  PROVE  StoredMoves
  BY PlaceOf DEF Drop, DropExpired, StoredMoves

LEMMA StoredStep ==
  ASSUME FreshInv, BackendInv, [Next]_vars
  PROVE  /\ UNCHANGED <<ttl, redisUrl>> /\ clock' \in Nat /\ stamp' \in [Users -> Nat]
         /\ StoredMoves
<1>1. /\ stored \in [Places -> EntryTypes] /\ clock \in Nat /\ stamp \in [Users -> Nat]
      /\ \A c \in Users : pc[c] \in Using => holds[c] \in Users /\ kind[holds[c]] # "none"
  BY DEF FreshInv, BackendInv
<1>2. UNCHANGED <<ttl, redisUrl>>
  BY DEF Next, vars, cacheVars, Ask, TakeCache, CreateMock, Create, StartOpening, CallStep, Opened,
     OpenFails, Read, ReadFails, Administer, TimesOut, CloseReturns, JobAwaited, Write, Execute, Commit,
     WriteFails, CallerCancelled, JobStarts, JobEnds, JobReturns, JobRaises, JobStops, SameButJob,
     SameAfterWrite, Keep, Cleanup, CleanupStarts, DrainEnds, SchedulerForgotten, CacheCloses, Close,
     CacheForgotten, TimePasses, Tick, CleanupLoop
<1>3. clock' \in {clock, clock + 1}
  BY DEF Next, vars, cacheVars, Ask, TakeCache, CreateMock, Create, StartOpening, CallStep, Opened,
     OpenFails, Read, ReadFails, Administer, TimesOut, CloseReturns, JobAwaited, Write, Execute, Commit,
     WriteFails, CallerCancelled, JobStarts, JobEnds, JobReturns, JobRaises, JobStops, SameButJob,
     SameAfterWrite, Keep, Cleanup, CleanupStarts, DrainEnds, SchedulerForgotten, CacheCloses, Close,
     CacheForgotten, TimePasses, Tick, CleanupLoop
<1>4. stamp' = stamp \/ \E c \in Users : stamp' = [stamp EXCEPT ![c] = clock]
  BY DEF Next, vars, callVars, historyVars, Ask, CallStep, Opened, OpenFails, Read, Hit, Spawn, Stamps,
     ReadFails, Administer, TimesOut, CloseReturns, JobAwaited, Write, Execute, Commit, WriteFails,
     CallerCancelled, JobStarts, JobEnds, JobReturns, JobRaises, JobStops, SameButJob, SameHistory,
     SameAfterWrite, Cleanup, CleanupStarts, DrainEnds, SchedulerForgotten, CacheCloses,
     CacheForgotten, SameForCleanup, TimePasses
<1>5. StoredMoves
  <2>1. CASE stored' = stored
    BY <2>1 DEF StoredMoves
  <2>2. ASSUME NEW c \in Users, Ask(c) \/ CallerCancelled(c) \/ JobStarts(c) \/ JobEnds(c)
        PROVE  stored' = stored
    BY <2>2 DEF Ask, TakeCache, CreateMock, Create, StartOpening, CallerCancelled, JobStarts, JobEnds,
       JobReturns, JobRaises, JobStops, SameButJob, cacheVars
  <2>3. ASSUME NEW c \in Users, Read(c) PROVE StoredMoves
    <3>1. CASE stored' = stored
      BY <3>1 DEF StoredMoves
    <3>2. CASE \E entry : GetMock(holds[c], entry)
      <4>1. holds[c] \in Places
        BY <1>1, <2>3 DEF Read, Places, Using
      <4>2. stored' = [stored EXCEPT ![holds[c]]
                         = IF Live(stored[holds[c]]) THEN stored[holds[c]] ELSE NoEntry]
        BY <3>2 DEF GetMock
      <4>3. Live(stored[holds[c]]) => stored' = stored
        BY <1>1, <4>1, <4>2
      <4> QED
        BY <3>1, <4>1, <4>2, <4>3 DEF StoredMoves
    <3> QED
      BY <2>3, <3>1, <3>2 DEF Read, Get
  <2>4. ASSUME NEW c \in Users, Administer(c) PROVE StoredMoves
    <3>1. holds[c] \in Users /\ kind[holds[c]] # "none"
      BY <1>1, <2>4 DEF Administer, Using
    <3>2. Drop(holds[c]) \/ DropExpired(holds[c]) \/ stored' = stored
      BY <2>4 DEF Administer
    <3> QED
      BY <2>1, <3>1, <3>2, DropMoves
  <2>5. ASSUME NEW c \in Users, Write(c) \/ Commit(c) PROVE StoredMoves
    <3>1. holds[c] \in Users /\ kind[holds[c]] # "none" /\ Place(holds[c]) \in Places
      BY <1>1, <2>5, PlaceOf DEF Write, Commit, Using
    <3>2. stored' = stored \/ \E now \in Nat : \E entry \in Entries(c, holds[c], now) :
            stored' = [stored EXCEPT ![Place(holds[c])] = entry]
      BY <1>1, <2>5 DEF Write, Commit, Put
    <3> QED
      BY <3>1, <3>2 DEF StoredMoves
  <2>6. ASSUME NEW c \in Users, CallStep(c) PROVE StoredMoves
    BY <2>1, <2>3, <2>4, <2>5, <2>6 DEF CallStep, Opened, Create, OpenFails, ReadFails, TimesOut,
       CloseReturns, JobAwaited, Execute, WriteFails, cacheVars
  <2>7. CASE Cleanup
    <3>1. stored' = stored \/ (cache # NoUser /\ Drop(cache))
      BY <2>7 DEF Cleanup, CleanupStarts, DrainEnds, SchedulerForgotten, CacheCloses, CacheForgotten,
         Close, CloseConnection, CloseMock, cacheVars
    <3> QED
      BY <2>1, <3>1, DropMoves DEF BackendInv
  <2>8. ASSUME NEW b \in Users, CleanupLoop(b) PROVE StoredMoves
    <3>1. kind[b] # "none" /\ DropExpired(b)
      BY <2>8 DEF CleanupLoop, BackendInv
    <3> QED
      BY <3>1, DropMoves
  <2>9. CASE UNCHANGED vars \/ TimePasses
    BY <2>1, <2>9 DEF vars, cacheVars, TimePasses, Tick
  <2> QED
    BY <2>1, <2>2, <2>6, <2>7, <2>8, <2>9 DEF Next
<1> QED
  BY <1>1, <1>2, <1>3, <1>4, <1>5

\* A hit is an entry of the backend that is good.
LEMMA HitIsLive ==
  ASSUME NEW b \in Users, NEW entry, Get(b, entry), entry # NoEntry
  PROVE  entry = stored[Place(b)] /\ Live(stored[Place(b)])
  BY DEF Get, GetMock, Key, Row, Place

\* A step that reads a result past its TTL.
LEMMA StaleHits ==
  ASSUME BackendInv, [Next]_vars
  PROVE  \A k \in stale' : k \in stale \/ \E b \in Users :
           /\ k = kind[b] /\ k # "none"
           /\ stored[Place(b)] # NoEntry /\ Live(stored[Place(b)]) /\ Overdue(stored[Place(b)])
<1>1. ASSUME NEW c \in Users, Read(c), NEW k \in stale', k \notin stale
      PROVE  \E b \in Users :
               /\ k = kind[b] /\ k # "none"
               /\ stored[Place(b)] # NoEntry /\ Live(stored[Place(b)]) /\ Overdue(stored[Place(b)])
  <2>1. holds[c] \in Users /\ kind[holds[c]] # "none"
    BY <1>1 DEF Read, BackendInv, Using
  <2>2. PICK entry : Get(holds[c], entry) /\ Hit(c, entry)
    BY <1>1 DEF Read, Spawn
  <2>3. entry # NoEntry /\ Overdue(entry) /\ k = kind[holds[c]]
    BY <1>1, <2>2 DEF Hit
  <2>4. entry = stored[Place(holds[c])] /\ Live(stored[Place(holds[c])])
    BY <2>1, <2>2, <2>3, HitIsLive
  <2> QED
    BY <2>1, <2>3, <2>4
<1>2. CASE \A c \in Users : ~Read(c)
  <2>1. stale' = stale
    BY <1>2 DEF Next, vars, callVars, historyVars, Ask, CallStep, Opened, OpenFails, ReadFails,
       Administer, TimesOut, CloseReturns, JobAwaited, Write, Execute, Commit, WriteFails,
       CallerCancelled, JobStarts, JobEnds, JobReturns, JobRaises, JobStops, SameButJob, SameHistory,
       SameAfterWrite, Cleanup, CleanupStarts, DrainEnds, SchedulerForgotten, CacheCloses,
       CacheForgotten, SameForCleanup, TimePasses
  <2> QED
    BY <2>1
<1> QED
  BY <1>1, <1>2

LEMMA FreshStep == FreshInv /\ BackendInv /\ JobInv /\ [Next]_vars => FreshInv'
<1> SUFFICES ASSUME FreshInv, BackendInv, JobInv, [Next]_vars PROVE FreshInv'
  OBVIOUS
<1>1. /\ ttl' = ttl /\ redisUrl' = redisUrl /\ clock' \in Nat /\ stamp' \in [Users -> Nat]
      /\ StoredMoves
      /\ ttl \in Nat /\ clock \in Nat /\ stored \in [Places -> EntryTypes]
      /\ \A p \in Places : stored[p] # NoEntry => Bounded(p, stored[p])
  BY StoredStep DEF FreshInv
<1>2. NoEntry \in EntryTypes
  BY DEF NoEntry, EntryTypes
<1>3. /\ stored' \in [Places -> EntryTypes]
      /\ \A p \in Places : stored'[p] # NoEntry => Bounded(p, stored'[p])
  <2>1. CASE stored' = stored
    BY <1>1, <2>1
  <2>2. ASSUME NEW p \in Places, stored' = [stored EXCEPT ![p] = NoEntry]
        PROVE  /\ stored' \in [Places -> EntryTypes]
               /\ \A q \in Places : stored'[q] # NoEntry => Bounded(q, stored'[q])
    BY <1>1, <1>2, <2>2
  <2>3. ASSUME NEW c \in Users, NEW b \in Users, NEW now \in Nat, kind[b] # "none",
               NEW entry \in Entries(c, b, now), stored' = [stored EXCEPT ![Place(b)] = entry]
        PROVE  /\ stored' \in [Places -> EntryTypes]
               /\ \A q \in Places : stored'[q] # NoEntry => Bounded(q, stored'[q])
    <3>1. entry \in EntryTypes /\ Bounded(Place(b), entry) /\ Place(b) \in Places
      BY <1>1, <2>3, EntriesAre, PlaceOf
    <3> QED
      BY <1>1, <2>3, <3>1
  <2> QED
    BY <1>1, <2>1, <2>2, <2>3 DEF StoredMoves
<1>4. \A p \in Places : (stored[p] # NoEntry => Bounded(p, stored[p]))'
  BY <1>1, <1>3 DEF Bounded, Jitter
<1>5. FreshHits'
  <2>1. ASSUME NEW b \in Users, kind[b] # "none", stored[Place(b)] # NoEntry,
               Live(stored[Place(b)]), Overdue(stored[Place(b)]), ttl # 0
        PROVE  kind[b] = "redis" /\ ttl - Jitter < Second
    <3>1. /\ Place(b) \in Places /\ Jitter \in Nat /\ kind[b] \in Creatable
          /\ redisUrl \in {"none", "redis", "mock"}
      BY <1>1, <2>1, PlaceOf, JitterFacts DEF BackendInv
    <3>2. PICK entry \in EntryTypes : entry = stored[Place(b)]
      BY <1>1, <3>1
    <3>3. entry.at \in Nat /\ entry.until \in Nat /\ Bounded(Place(b), entry)
      BY <1>1, <2>1, <3>1, <3>2 DEF EntryTypes
    <3>4. redisUrl = "redis" /\ Place(b) = "redis" /\ ttl - Jitter < Second
      BY <1>1, <2>1, <3>1, <3>2, <3>3 DEF Bounded, Live, Overdue
    <3> QED
      BY <3>1, <3>4 DEF Creatable, Place
  <2>2. Jitter' = Jitter
    BY <1>1 DEF Jitter
  <2> QED
    BY <1>1, <2>1, <2>2, StaleHits DEF FreshInv, FreshHits
<1> QED
  BY <1>1, <1>3, <1>4, <1>5 DEF FreshInv

LEMMA AlwaysFresh == Spec => []FreshInv
<1>1. Init => FreshInv
  <2> SUFFICES ASSUME Init PROVE FreshInv
    OBVIOUS
  <2>1. ttl \in Nat /\ clock = 0 /\ stale = {}
    BY TimeAssumption DEF Init, CacheInit
  <2>2. stored = [p \in Places |-> NoEntry] /\ stamp = [c \in Users |-> 0]
    BY DEF Init, CacheInit
  <2>3. NoEntry \in EntryTypes
    BY DEF NoEntry, EntryTypes
  <2> QED
    BY <2>1, <2>2, <2>3 DEF FreshInv, FreshHits
<1> QED
  BY <1>1, FreshStep, AlwaysBackends, AlwaysJobs, PTL DEF Spec

\* Whichever backend is used, by whoever it was written, no result is served past the
\* longest jitter of its TTL, save those that Redis is told to keep.
THEOREM HitsAreFresh == Spec => []FreshHits
  BY AlwaysFresh, PTL DEF FreshInv

-----------------------------------------------------------------------------
(* Calls that run the function once *)

\* A call that answered with the result of its function stays as it is, and so does
\* the backend it used; the others get there by their write.
LEMMA RunnersKept ==
  ASSUME BackendInv, JobInv, FreshInv, [Next]_vars
  PROVE  /\ \A d \in Runners : /\ d \in Runners' /\ stamp'[d] = stamp[d] /\ holds'[d] = holds[d]
                               /\ kind'[holds[d]] = kind[holds[d]] /\ holds[d] \in Users
         /\ \A d \in Runners' : d \in Runners \/ Write(d) \/ Commit(d)
<1>1. /\ pc \in [Users -> PcStates] /\ job \in [Users -> JobStates]
      /\ \A c \in Users : Fits(pc[c], job[c])
      /\ \A d \in Runners : d \in Users /\ pc[d] = "answered" /\ job[d] = "returned"
                            /\ holds[d] \in Users /\ kind[holds[d]] # "none"
  BY DEF JobInv, BackendInv, Runners, Activities, Using
<1> DEFINE Kept == /\ \A d \in Runners : /\ d \in Runners' /\ stamp'[d] = stamp[d]
                                         /\ holds'[d] = holds[d]
                                         /\ kind'[holds[d]] = kind[holds[d]] /\ holds[d] \in Users
                   /\ \A d \in Runners' : d \in Runners \/ Write(d) \/ Commit(d)
<1>2. CASE UNCHANGED <<pc, job, stamp, holds, kind>>
  BY <1>1, <1>2 DEF Runners
<1>3. ASSUME NEW c \in Users, pc[c] # "answered",
             \A d \in Users \ {c} : /\ pc'[d] = pc[d] /\ job'[d] = job[d] /\ holds'[d] = holds[d]
                                    /\ stamp'[d] = stamp[d],
             \A b \in Users : kind[b] # "none" => kind'[b] = kind[b],
             pc'[c] = "answered" /\ job'[c] = "returned" => Write(c) \/ Commit(c)
      PROVE  Kept
  BY <1>1, <1>3 DEF Runners, Activities
<1>4. ASSUME NEW c \in Users, Ask(c) \/ Opened(c) PROVE Kept
  <2>1. /\ pc[c] \in {"idle", "opening"} /\ job' = job /\ stamp' = stamp
        /\ \E place \in {"reading", "opening"} : pc' = [pc EXCEPT ![c] = place]
    BY <1>4 DEF Ask, Opened, TakeCache, CreateMock, StartOpening, Goes, SameJobs
  <2>2. holds' = holds \/ \E b : holds' = [holds EXCEPT ![c] = b]
    BY <1>4 DEF Ask, Opened, TakeCache, CreateMock, StartOpening
  <2>3. kind' = kind \/ \E k : kind' = [kind EXCEPT ![c] = k]
    BY <1>4 DEF Ask, Opened, TakeCache, CreateMock, StartOpening, Create, cacheVars
  <2>4. kind[c] = "none"
    BY <2>1 DEF BackendInv
  <2> QED
    BY <1>1, <1>3, <2>1, <2>2, <2>3, <2>4 DEF BackendInv
<1>5. ASSUME NEW c \in Users, CallStep(c) \/ CallerCancelled(c), ~Opened(c) PROVE Kept
  <2>1. /\ kind' = kind /\ holds' = holds
        /\ stamp' = stamp \/ \E t : stamp' = [stamp EXCEPT ![c] = t]
    BY <1>5 DEF CallStep, CallerCancelled, OpenFails, Read, Hit, Spawn, Stamps, ReadFails, Administer,
       TimesOut, CloseReturns, JobAwaited, Write, Execute, Commit, WriteFails, SameHistory,
       SameAfterWrite, Keep, cacheVars
  <2>2. /\ job' = job \/ (\E state \in JobStates : job' = [job EXCEPT ![c] = state])
        /\ pc[c] \in PcStates /\ job[c] \in JobStates
    BY <1>1, <1>5, ClosedFits DEF CallStep, CallerCancelled, OpenFails, Read, Hit, Spawn, JobIs,
       ReadFails, Administer, TimesOut, CloseReturns, JobAwaited, Write, Execute, Commit, WriteFails,
       SameJobs, SameAfterWrite, JobStates, Active
  <2>3. \E place : pc' = [pc EXCEPT ![c] = place]
    BY <1>5 DEF CallStep, CallerCancelled, OpenFails, Read, Hit, Spawn, ReadFails, Administer,
       TimesOut, CloseReturns, JobAwaited, Write, Execute, Commit, WriteFails, Goes
  <2>4. pc[c] # "answered"
    BY <1>5 DEF CallStep, CallerCancelled, OpenFails, Read, ReadFails, Administer,
       TimesOut, CloseReturns, JobAwaited, Write, Execute, Commit, WriteFails
  <2>5. ASSUME pc'[c] = "answered", job'[c] = "returned" PROVE Write(c) \/ Commit(c)
    <3>1. CASE Read(c) \/ Administer(c)
      <4>1. pc[c] = "reading" /\ job[c] = "none"
        BY <1>1, <3>1 DEF Read, Administer, Fits
      <4> QED
        BY <1>1, <2>5, <3>1, <4>1 DEF Read, Administer, Hit, Spawn, JobIs, SameJobs
    <3>2. CASE JobAwaited(c)
      <4>1. \E place \in {"writing", "failed", "cancelled"} : pc' = [pc EXCEPT ![c] = place]
        BY <3>2 DEF JobAwaited, Goes
      <4> QED
        BY <1>1, <2>5, <4>1
    <3>3. CASE CloseReturns(c)
      <4>1. \E place \in {"timed_out", "cancelled"} : pc' = [pc EXCEPT ![c] = place]
        BY <3>3 DEF CloseReturns, Goes
      <4> QED
        BY <1>1, <2>5, <4>1
    <3> QED
      BY <1>1, <1>5, <2>5, <3>1, <3>2, <3>3
         DEF CallStep, CallerCancelled, OpenFails, ReadFails, TimesOut, Execute, WriteFails, Goes
  <2>6. \A d \in Users \ {c} : /\ pc'[d] = pc[d] /\ job'[d] = job[d] /\ holds'[d] = holds[d]
                               /\ stamp'[d] = stamp[d]
    BY <1>1, <2>1, <2>2, <2>3 DEF FreshInv
  <2> QED
    BY <1>3, <2>1, <2>4, <2>5, <2>6
<1>6. ASSUME NEW c \in Users, JobStarts(c) \/ JobEnds(c) PROVE Kept
  <2>1. /\ UNCHANGED <<pc, stamp, holds, kind>> /\ job[c] \in Active
        /\ job' = job \/ \E state : job' = [job EXCEPT ![c] = state]
    BY <1>6 DEF JobStarts, JobEnds, JobReturns, JobRaises, JobStops, JobIs, SameButJob, cacheVars,
       historyVars, Active
  <2>2. pc[c] # "answered"
    BY <1>1, <2>1 DEF Fits, Done
  <2> QED
    BY <1>1, <1>3, <2>1, <2>2
<1>7. CASE Cleanup
  <2>1. /\ UNCHANGED <<pc, stamp, holds, kind>>
        /\ job' = job \/ job' = [c \in Users |-> Closed(job[c])]
    BY <1>7 DEF Cleanup, CleanupStarts, DrainEnds, SchedulerForgotten, CacheCloses, CacheForgotten,
       SameForCleanup, Close, Keep, cacheVars
  <2>2. \A state : Closed(state) = "returned" <=> state = "returned"
    BY DEF Closed
  <2> QED
    BY <1>1, <2>1, <2>2 DEF Runners, Activities
<1>8. CASE UNCHANGED vars \/ TimePasses \/ (\E b \in Users : CleanupLoop(b) /\ UNCHANGED callVars)
  BY <1>2, <1>8 DEF vars, cacheVars, callVars, historyVars, TimePasses, Tick, CleanupLoop, Keep
<1> QED
  BY <1>4, <1>5, <1>6, <1>7, <1>8 DEF Next, CallStep

LEMMA SpansAre ==
  ASSUME ttl \in Nat, NEW b, kind[b] \in Kinds
  PROVE  Spans(b) \subseteq Nat
  BY LifetimeFacts DEF Spans

\* An expiry is for ever.
LEMMA ExpiredKept ==
  ASSUME ttl \in Nat, stamp \in [Users -> Nat], NEW d \in Users, kind[holds[d]] \in Kinds,
         NEW t \in Nat, NEW u \in Nat, t <= u, Expired(t, d)
  PROVE  Expired(u, d)
  BY SpansAre DEF Expired

LEMMA SpansStay ==
  ASSUME NEW d, holds'[d] = holds[d], kind'[holds[d]] = kind[holds[d]], ttl' = ttl
  PROVE  Spans(holds[d])' = Spans(holds[d])
<1>1. Jittered' = Jittered
  BY DEF Jittered, Jitter
<1> QED
  BY <1>1 DEF Spans, Lifetime, Ticks, RedisTicks, SQLiteTicks, MockTicks

LEMMA ExpiredStays ==
  ASSUME NEW d, stamp'[d] = stamp[d], holds'[d] = holds[d], kind'[holds[d]] = kind[holds[d]],
         ttl' = ttl, NEW t, Expired(t, d)
  PROVE  Expired(t, d)'
<1>1. Spans(holds[d])' = Spans(holds[d])
  BY SpansStay
<1> QED
  BY <1>1 DEF Expired

\* Without an entry that is good, what d wrote is over.
LEMMA Lapses ==
  ASSUME FreshInv, BackendInv, NEW d \in Users, holds[d] \in Users, Covered(d),
         ~Live(stored[Place(holds[d])])
  PROVE  Expired(clock, d)
<1>1. /\ ttl \in Nat /\ clock \in Nat /\ stamp \in [Users -> Nat]
      /\ stored[Place(holds[d])] \in EntryTypes /\ kind[holds[d]] \in Kinds
  BY TimeAssumption, PlaceOf DEF FreshInv, BackendInv
<1> QED
  BY <1>1, ExpiredKept DEF Covered, Live, EntryTypes

\* What a call writes now covers whatever was written before.
LEMMA WriteCovers ==
  ASSUME FreshInv, BackendInv, NEW s \in Nat, s <= clock,
         NEW b \in Users, kind[b] # "none", NEW c \in Users, NEW entry \in Entries(c, b, clock)
  PROVE  /\ entry # NoEntry
         /\ entry.until = Forever \/ \E span \in Spans(b) : entry.until >= s + span
<1>1. ttl \in Nat /\ clock \in Nat /\ kind[b] \in Kinds
  BY DEF FreshInv, BackendInv
<1>2. /\ entry # NoEntry
      /\ entry.until = Forever \/ \E span \in Spans(b) : entry.until = clock + span
  BY <1>1, EntriesAre
<1> QED
  BY <1>1, <1>2, SpansAre

\* As long as the history is not voided, the backend stays the one and stays open.
LEMMA OneBackendStep ==
  ASSUME OnceInv, BackendInv, [Next]_vars
  PROVE  /\ stage' = "forgetting" => voided'
         /\ ~voided' => /\ ~voided
                        /\ \A b \in Users : handle'[b] # "none" => b = cache' /\ handle'[b] = "open"
<1>1. voided => voided'
  BY DEF Next, vars, callVars, historyVars, Ask, TakeCache, CreateMock, StartOpening, CallStep, Opened,
     OpenFails, Read, Hit, Spawn, ReadFails, Administer, TimesOut, CloseReturns, JobAwaited, Write,
     Execute, Commit, WriteFails, CallerCancelled, JobStarts, JobEnds, JobReturns, JobRaises, JobStops,
     SameButJob, SameHistory, SameAfterWrite, Cleanup, CleanupStarts, DrainEnds, SchedulerForgotten,
     CacheCloses, CacheForgotten, TimePasses
<1>2. stage' = "forgetting" => voided'
  <2>1. CASE Cleanup
    BY <2>1 DEF Cleanup, CleanupStarts, DrainEnds, SchedulerForgotten, CacheCloses, CacheForgotten
  <2>2. CASE ~Cleanup
    <3>1. stage' = stage
      BY <2>2 DEF Next, vars, callVars, Ask, CallStep, Opened, OpenFails, Read, ReadFails, Administer,
         TimesOut, CloseReturns, JobAwaited, Write, Execute, Commit, WriteFails, CallerCancelled,
         JobStarts, JobEnds, JobReturns, JobRaises, JobStops, SameButJob, SameCalls, SameAfterWrite,
         TimePasses
    <3> QED
      BY <1>1, <3>1 DEF OnceInv
  <2> QED
    BY <2>1, <2>2
<1>3. ASSUME ~voided'
      PROVE  \A b \in Users : handle'[b] # "none" => b = cache' /\ handle'[b] = "open"
  <2>1. /\ ~voided /\ handle \in [Users -> {"none", "open", "closed", "reopened"}]
        /\ \A b \in Users : handle[b] # "none" => b = cache /\ handle[b] = "open"
    BY <1>1, <1>3 DEF OnceInv, OneCache, BackendInv
  <2>2. CASE cache' = cache /\ handle' = handle
    BY <2>1, <2>2
  <2>3. ASSUME NEW b, Touch(b) PROVE handle' = handle
    BY <2>1, <2>3 DEF Touch, Reconnected
  <2>4. ASSUME NEW c \in Users, Create(c), cache' = c, \A b \in Users : handle[b] = "none"
        PROVE  \A b \in Users : handle'[b] # "none" => b = cache' /\ handle'[b] = "open"
    BY <2>1, <2>4 DEF Create
  <2>5. ASSUME NEW c \in Users, Ask(c) \/ Opened(c)
        PROVE  \A b \in Users : handle'[b] # "none" => b = cache' /\ handle'[b] = "open"
    BY <1>3, <2>2, <2>4, <2>5 DEF Ask, Opened, TakeCache, CreateMock, StartOpening, cacheVars
  <2>6. ASSUME NEW c \in Users, CallStep(c) \/ CallerCancelled(c), ~Opened(c)
        PROVE  cache' = cache /\ handle' = handle
    BY <2>3, <2>6
       DEF CallStep, CallerCancelled, OpenFails, Read, ReadFails, Administer, TimesOut, CloseReturns,
           JobAwaited, Write, Execute, Commit, WriteFails, SameAfterWrite, cacheVars
  <2>7. CASE Cleanup
    <3>1. ~CacheForgotten /\ ~(CacheCloses /\ cache # NoUser)
      BY <1>2, <1>3, <2>1 DEF CacheForgotten, CacheCloses, OnceInv
    <3> QED
      BY <2>2, <2>7, <3>1 DEF Cleanup, CleanupStarts, DrainEnds, SchedulerForgotten, CacheCloses,
         cacheVars
  <2>8. CASE \/ UNCHANGED vars \/ TimePasses \/ (\E b \in Users : CleanupLoop(b) /\ UNCHANGED callVars)
             \/ \E c \in Users : JobStarts(c) \/ JobEnds(c)
    BY <2>2, <2>8 DEF vars, cacheVars, callVars, TimePasses, Tick, CleanupLoop, JobStarts, JobEnds,
       JobReturns, JobRaises, JobStops, SameButJob
  <2> QED
    BY <2>2, <2>5, <2>6, <2>7, <2>8 DEF Next, CallStep
<1> QED
  BY <1>1, <1>2, <1>3

\* As long as the history is not voided, an entry goes only when it is over, or when
\* one that is written now takes its place.
PlaceMoves(p) ==
  \/ stored'[p] = stored[p]
  \/ stored'[p] = NoEntry /\ ~Live(stored[p])
  \/ \E c \in Users : /\ pc[c] \in {"writing", "committing"} /\ p = Place(holds[c])
                      /\ stored'[p] \in Entries(c, holds[c], clock)

LEMMA PlacesStep ==
  ASSUME OnceInv, BackendInv, FreshInv, [Next]_vars, ~voided'
  PROVE  \A p \in Places : PlaceMoves(p)
<1>1. stored \in [Places -> EntryTypes]
  BY DEF FreshInv
<1>2. CASE stored' = stored
  BY <1>2 DEF PlaceMoves
<1>3. ASSUME NEW b, DropExpired(b) PROVE \A p \in Places : PlaceMoves(p)
  BY <1>1, <1>3 DEF DropExpired, Drop, PlaceMoves
<1>4. ASSUME NEW c \in Users, Ask(c) \/ CallerCancelled(c) \/ JobStarts(c) \/ JobEnds(c)
      PROVE  stored' = stored
  BY <1>4 DEF Ask, TakeCache, CreateMock, Create, StartOpening, CallerCancelled, JobStarts, JobEnds,
     JobReturns, JobRaises, JobStops, SameButJob, cacheVars
<1>5. ASSUME NEW c \in Users, Read(c) PROVE \A p \in Places : PlaceMoves(p)
  <2>1. CASE \E entry : GetMock(holds[c], entry)
    BY <1>1, <2>1 DEF GetMock, PlaceMoves
  <2> QED
    BY <1>2, <1>5, <2>1 DEF Read, Get
<1>6. ASSUME NEW c \in Users, Administer(c) PROVE \A p \in Places : PlaceMoves(p)
  <2>1. DropExpired(holds[c]) \/ stored' = stored
    BY <1>6 DEF Administer
  <2> QED
    BY <1>2, <1>3, <2>1
<1>7. ASSUME NEW c \in Users, NEW entry \in Entries(c, holds[c], clock), Put(holds[c], entry),
             pc[c] \in {"writing", "committing"}
      PROVE  \A p \in Places : PlaceMoves(p)
  BY <1>1, <1>7 DEF Put, PlaceMoves
<1>8. ASSUME NEW c \in Users, Write(c) PROVE \A p \in Places : PlaceMoves(p)
  BY <1>7, <1>8 DEF Write
<1>9. ASSUME NEW c \in Users, Commit(c) PROVE \A p \in Places : PlaceMoves(p)
  <2>1. stamp[c] = clock
    BY <1>9 DEF Commit, OnceInv
  <2> QED
    BY <1>7, <1>9, <2>1 DEF Commit
<1>10. ASSUME NEW c \in Users, CallStep(c) PROVE \A p \in Places : PlaceMoves(p)
  BY <1>2, <1>5, <1>6, <1>8, <1>9, <1>10 DEF CallStep, Opened, Create, OpenFails, ReadFails, TimesOut,
     CloseReturns, JobAwaited, Execute, WriteFails, cacheVars
<1>11. CASE Cleanup
  <2>1. stored' = stored
    BY <1>11 DEF Cleanup, CleanupStarts, DrainEnds, SchedulerForgotten, CacheCloses, CacheForgotten,
       cacheVars
  <2> QED
    BY <1>2, <2>1
<1>12. ASSUME NEW b \in Users, CleanupLoop(b) PROVE \A p \in Places : PlaceMoves(p)
  BY <1>3, <1>12 DEF CleanupLoop
<1>13. CASE UNCHANGED vars \/ TimePasses
  BY <1>2, <1>13 DEF vars, cacheVars, TimePasses, Tick
<1> QED
  BY <1>2, <1>4, <1>10, <1>11, <1>12, <1>13 DEF Next

LEMMA HistoryStep ==
  ASSUME OnceInv, BackendInv, JobInv, FreshInv, [Next]_vars
  PROVE  /\ clock <= clock'
         /\ \A c \in Users :
              /\ stamp[c] <= stamp'[c] /\ stamp'[c] <= clock'
              /\ pc'[c] = "committing" => stamp'[c] = clock'
              /\ \/ before'[c] = before[c]
                 \/ before'[c] = Runners /\ job[c] = "none" /\ job'[c] = "none"
              /\ job[c] = "none" /\ job'[c] # "none" =>
                   Read(c) /\ Spawn(c) /\ before'[c] = before[c]
         /\ before' \in [Users -> SUBSET Activities]
<1>1. /\ clock \in Nat /\ stamp \in [Users -> Nat] /\ before \in [Users -> SUBSET Activities]
      /\ pc \in [Users -> PcStates] /\ job \in [Users -> JobStates] /\ Runners \subseteq Activities
      /\ \A c \in Users : /\ stamp[c] <= clock /\ (pc[c] = "committing" => stamp[c] = clock)
                          /\ Fits(pc[c], job[c])
  BY DEF FreshInv, OnceInv, JobInv, Runners
<1> DEFINE Goal == /\ clock <= clock'
                   /\ \A c \in Users :
                        /\ stamp[c] <= stamp'[c] /\ stamp'[c] <= clock'
                        /\ pc'[c] = "committing" => stamp'[c] = clock'
                        /\ \/ before'[c] = before[c]
                           \/ before'[c] = Runners /\ job[c] = "none" /\ job'[c] = "none"
                        /\ job[c] = "none" /\ job'[c] # "none" =>
                             Read(c) /\ Spawn(c) /\ before'[c] = before[c]
                   /\ before' \in [Users -> SUBSET Activities]
<1>2. \A state : Closed(state) = "none" <=> state = "none"
  BY DEF Closed
<1>3. ASSUME NEW c \in Users, UNCHANGED <<clock, before>>,
             stamp' = stamp \/ stamp' = [stamp EXCEPT ![c] = clock],
             \A d \in Users \ {c} : pc'[d] = pc[d] /\ job'[d] = job[d],
             pc'[c] = "committing" => stamp' = [stamp EXCEPT ![c] = clock],
             job[c] = "none" /\ job'[c] # "none" => Read(c) /\ Spawn(c)
      PROVE  Goal
  BY <1>1, <1>3
<1>4. ASSUME NEW c \in Users, Ask(c) PROVE Goal
  <2>1. /\ UNCHANGED <<clock, stamp, job>> /\ pc[c] = "idle" /\ job[c] = "none"
        /\ before' = [before EXCEPT ![c] = Runners]
        /\ \E place \in {"reading", "opening"} : pc' = [pc EXCEPT ![c] = place]
    BY <1>1, <1>4 DEF Ask, TakeCache, CreateMock, StartOpening, Create, Goes, SameJobs, cacheVars, Fits
  <2> QED
    BY <1>1, <2>1
<1>5. ASSUME NEW c \in Users, CallStep(c) \/ CallerCancelled(c) PROVE Goal
  <2>1. UNCHANGED <<clock, before>>
    BY <1>5 DEF CallStep, CallerCancelled, Opened, Create, OpenFails, Read, ReadFails, Administer,
       TimesOut, CloseReturns, JobAwaited, Write, Execute, Commit, WriteFails, SameHistory,
       SameAfterWrite, Keep, cacheVars
  <2>2. stamp' = stamp \/ stamp' = [stamp EXCEPT ![c] = clock]
    BY <1>5 DEF CallStep, CallerCancelled, Opened, OpenFails, Read, Hit, Spawn, Stamps, ReadFails,
       Administer, TimesOut, CloseReturns, JobAwaited, Write, Execute, Commit, WriteFails, SameHistory,
       SameAfterWrite
  <2>3. /\ job' = job \/ job' = [job EXCEPT ![c] = Closed(job[c])] \/ (Read(c) /\ Spawn(c))
        /\ \E place : pc' = [pc EXCEPT ![c] = place]
    BY <1>5 DEF CallStep, CallerCancelled, Opened, OpenFails, Read, Hit, Spawn, JobIs, ReadFails,
       Administer, TimesOut, CloseReturns, JobAwaited, Write, Execute, Commit, WriteFails, SameJobs,
       SameAfterWrite, Goes
  <2>4. job[c] = "none" /\ job'[c] # "none" => Read(c) /\ Spawn(c)
    BY <1>1, <1>2, <2>3
  <2>5. \A d \in Users \ {c} : pc'[d] = pc[d] /\ job'[d] = job[d]
    BY <1>1, <2>3 DEF Spawn, JobIs
  <2>6. ASSUME pc'[c] = "committing" PROVE stamp' = [stamp EXCEPT ![c] = clock]
    <3>1. CASE Execute(c)
      BY <3>1 DEF Execute, Stamps
    <3>2. CASE JobAwaited(c)
      <4>1. \E place \in {"writing", "failed", "cancelled"} : pc' = [pc EXCEPT ![c] = place]
        BY <3>2 DEF JobAwaited, Goes
      <4> QED
        BY <1>1, <2>6, <4>1
    <3>3. CASE CloseReturns(c)
      <4>1. \E place \in {"timed_out", "cancelled"} : pc' = [pc EXCEPT ![c] = place]
        BY <3>3 DEF CloseReturns, Goes
      <4> QED
        BY <1>1, <2>6, <4>1
    <3> QED
      BY <1>1, <1>5, <2>6, <3>1, <3>2, <3>3
         DEF CallStep, CallerCancelled, Opened, OpenFails, Read, Hit, Spawn, ReadFails, Administer,
             TimesOut, Write, Commit, WriteFails, Goes
  <2> QED
    BY <1>3, <2>1, <2>2, <2>4, <2>5, <2>6
<1>6. ASSUME NEW c \in Users, JobStarts(c) \/ JobEnds(c) PROVE Goal
  <2>1. /\ UNCHANGED <<clock, before, stamp, pc>> /\ job[c] \in Active
        /\ job' = job \/ \E state : job' = [job EXCEPT ![c] = state]
    BY <1>6 DEF JobStarts, JobEnds, JobReturns, JobRaises, JobStops, JobIs, SameButJob, cacheVars,
       historyVars, Active
  <2>2. job[c] # "none" /\ pc[c] # "committing"
    BY <1>1, <2>1 DEF Active, Fits
  <2> QED
    BY <1>1, <1>3, <2>1, <2>2
<1>7. CASE Cleanup
  <2>1. /\ UNCHANGED <<clock, before, stamp, pc>>
        /\ job' = job \/ job' = [c \in Users |-> Closed(job[c])]
    BY <1>7 DEF Cleanup, CleanupStarts, DrainEnds, SchedulerForgotten, CacheCloses, CacheForgotten,
       SameForCleanup, Close, Keep, cacheVars
  <2> QED
    BY <1>1, <1>2, <2>1
<1>8. CASE TimePasses
  <2>1. /\ clock' = clock + 1 /\ UNCHANGED <<before, stamp, pc, job>>
        /\ \A c \in Users : pc[c] # "committing"
    BY <1>8 DEF TimePasses, Tick, callVars, historyVars, Done
  <2> QED
    BY <1>1, <2>1
<1>9. CASE UNCHANGED vars \/ (\E b \in Users : CleanupLoop(b) /\ UNCHANGED callVars)
  <2>1. UNCHANGED <<clock, before, stamp, pc, job>>
    BY <1>9 DEF vars, cacheVars, callVars, historyVars, CleanupLoop, Keep
  <2> QED
    BY <1>1, <2>1
<1> QED
  BY <1>4, <1>5, <1>6, <1>7, <1>8, <1>9 DEF Next

\* While there is one backend, every call that has one has that.
LEMMA OneHeld ==
  ASSUME BackendInv, OneCache, NEW c \in Users, holds[c] # NoUser
  PROVE  holds[c] = cache /\ holds[c] \in Users /\ kind[holds[c]] # "none"
  BY DEF BackendInv, OneCache

\* A miss: there is no entry that is good.
LEMMA MissIsLapse ==
  ASSUME BackendInv, NEW b \in Users, kind[b] # "none", Get(b, NoEntry)
  PROVE  ~Live(stored[Place(b)])
<1>1. ASSUME NEW p, Live(stored[p]) PROVE stored[p] # NoEntry
  BY <1>1 DEF Live
<1> QED
  BY <1>1 DEF Get, GetMock, Key, Row, Place

LEMMA CoveredStep ==
  ASSUME OnceInv, BackendInv, JobInv, FreshInv, [Next]_vars, ~voided', NEW d \in Runners
  PROVE  Covered(d)'
<1>1. /\ ttl \in Nat /\ clock \in Nat /\ clock' \in Nat /\ clock <= clock'
      /\ stamp \in [Users -> Nat] /\ stored \in [Places -> EntryTypes] /\ ttl' = ttl
  BY StoredStep, HistoryStep DEF FreshInv
<1>2. OneCache
  BY OneBackendStep DEF OnceInv
<1>3. /\ d \in Users /\ stamp'[d] = stamp[d] /\ holds'[d] = holds[d]
      /\ kind'[holds[d]] = kind[holds[d]] /\ holds[d] \in Users /\ holds[d] # NoUser
  BY RunnersKept, TimeAssumption DEF Runners, Activities
<1> DEFINE place == Place(holds[d])
<1>4. place' = place /\ kind[holds[d]] # "none" /\ place \in Places
      /\ kind[holds[d]] \in Kinds
  BY <1>2, <1>3, OneHeld, PlaceOf DEF Place, BackendInv
<1>5. ASSUME Expired(clock, d) PROVE Covered(d)'
  <2>1. PICK now \in Nat : now = clock'
    BY <1>1
  <2>2. Expired(now, d)
    BY <1>1, <1>3, <1>4, <1>5, <2>1, ExpiredKept
  <2>3. Expired(now, d)'
    BY <1>1, <1>3, <2>2, ExpiredStays
  <2> QED
    BY <2>1, <2>3 DEF Covered, Expired
<1>6. ASSUME stored[place] # NoEntry,
             stored[place].until = Forever \/ Expired(stored[place].until, d)
      PROVE  Covered(d)'
  <2> DEFINE entry == stored[place]
  <2>1. PlaceMoves(place)
    BY <1>4, PlacesStep
  <2>2. CASE stored'[place] = entry
    <3>1. PICK until \in Nat : until = entry.until
      BY <1>1, <1>4 DEF EntryTypes
    <3>2. until = Forever \/ Expired(until, d)'
      BY <1>1, <1>3, <1>6, <3>1, ExpiredStays
    <3>3. stored[Place(holds[d])]' = entry
      BY <1>4, <2>2
    <3> QED
      BY <1>6, <3>1, <3>2, <3>3 DEF Covered, Expired
  <2>3. CASE ~Live(entry)
    <3>1. Covered(d)
      BY <1>6 DEF Covered
    <3> QED
      BY <1>3, <1>5, <2>3, <3>1, Lapses
  <2>4. ASSUME NEW c \in Users, pc[c] \in {"writing", "committing"},
               stored'[place] \in Entries(c, holds[c], clock)
        PROVE  Covered(d)'
    <3>1. holds[c] = holds[d]
      BY <1>2, <1>3, <2>4, OneHeld DEF BackendInv, Using
    <3>2. PICK new \in Entries(c, holds[d], clock) : new = stored'[place]
      BY <2>4, <3>1
    <3>3. stamp[d] \in Nat /\ stamp[d] <= clock
      BY <1>1, <1>3 DEF OnceInv
    <3>4. /\ new # NoEntry /\ new \in EntryTypes
          /\ new.until = Forever \/ \E span \in Spans(holds[d]) : new.until >= stamp[d] + span
      BY <1>1, <1>3, <1>4, <3>3, WriteCovers, EntriesAre
    <3>5. PICK until \in Nat : until = new.until
      BY <3>4 DEF EntryTypes
    <3>6. until = Forever \/ Expired(until, d)'
      BY <1>1, <1>3, <3>4, <3>5, ExpiredStays DEF Expired
    <3>7. stored[Place(holds[d])]' = new
      BY <1>4, <3>2
    <3> QED
      BY <3>4, <3>5, <3>6, <3>7 DEF Covered, Expired
  <2> QED
    BY <2>1, <2>2, <2>3, <2>4 DEF PlaceMoves
<1>7. Covered(d)
  BY <1>2 DEF OneCache
<1> QED
  BY <1>5, <1>6, <1>7 DEF Covered

\* A call that answers with the result of its function has just written it.
LEMMA WrittenIsCovered ==
  ASSUME OnceInv, BackendInv, FreshInv, [Next]_vars, ~voided', NEW d \in Users, Write(d) \/ Commit(d)
  PROVE  Covered(d)'
<1>1. /\ ttl \in Nat /\ clock \in Nat /\ stamp \in [Users -> Nat]
      /\ stored \in [Places -> EntryTypes]
  BY DEF FreshInv
<1>2. /\ holds[d] \in Users /\ kind[holds[d]] # "none" /\ Place(holds[d]) \in Places
  BY PlaceOf DEF BackendInv, Using, Write, Commit
<1>3. /\ UNCHANGED <<holds, kind, ttl, clock>> /\ stamp'[d] = clock
      /\ \E entry \in Entries(d, holds[d], clock) : Put(holds[d], entry)
  BY <1>1 DEF Write, Commit, Stamps, SameAfterWrite, Keep, OnceInv
<1>4. PICK entry \in Entries(d, holds[d], clock) : Put(holds[d], entry)
  BY <1>3
<1>5. Place(holds[d])' = Place(holds[d])
  BY <1>3 DEF Place
<1>6. stored[Place(holds[d])]' = entry
  BY <1>1, <1>2, <1>4, <1>5 DEF Put
<1>7. PICK now \in Nat : now = clock
  BY <1>1
<1>8. /\ entry # NoEntry /\ entry \in EntryTypes
      /\ entry.until = Forever \/ \E span \in Spans(holds[d]) : entry.until >= now + span
  BY <1>1, <1>2, <1>7, WriteCovers, EntriesAre
<1>9. Spans(holds[d])' = Spans(holds[d])
  BY <1>3, SpansStay
<1> QED
  BY <1>3, <1>6, <1>7, <1>8, <1>9 DEF Covered, Expired

LEMMA OnceStep == OnceInv /\ BackendInv /\ JobInv /\ FreshInv /\ [Next]_vars => OnceInv'
<1> SUFFICES ASSUME OnceInv, BackendInv, JobInv, FreshInv, [Next]_vars PROVE OnceInv'
  OBVIOUS
<1>1. /\ \A d \in Runners : /\ d \in Runners' /\ stamp'[d] = stamp[d] /\ holds'[d] = holds[d]
                            /\ kind'[holds[d]] = kind[holds[d]] /\ holds[d] \in Users
      /\ \A d \in Runners' : d \in Runners \/ Write(d) \/ Commit(d)
      /\ Runners \subseteq Users /\ Runners' \subseteq Users /\ Activities \subseteq Users
  BY RunnersKept DEF Runners, Activities
<1>2. /\ clock <= clock' /\ before' \in [Users -> SUBSET Activities]
      /\ \A c \in Users :
           /\ stamp[c] <= stamp'[c] /\ stamp'[c] <= clock'
           /\ pc'[c] = "committing" => stamp'[c] = clock'
           /\ \/ before'[c] = before[c]
              \/ before'[c] = Runners /\ job[c] = "none" /\ job'[c] = "none"
           /\ job[c] = "none" /\ job'[c] # "none" =>
                Read(c) /\ Spawn(c) /\ before'[c] = before[c]
  BY HistoryStep
<1>3. \A c \in Users : before'[c] \subseteq Runners'
  BY <1>1, <1>2 DEF OnceInv
<1>4. /\ stage' = "forgetting" => voided'
      /\ ~voided' => /\ ~voided
                     /\ \A b \in Users : handle'[b] # "none" => b = cache' /\ handle'[b] = "open"
  BY OneBackendStep
<1>5. ASSUME ~voided', NEW c \in Activities, job'[c] # "none", NEW d \in before'[c]
      PROVE  Expired(stamp[c], d)'
  <2>1. /\ OneCache /\ before'[c] = before[c] /\ d \in Runners /\ d \in Users /\ c \in Users
        /\ holds[d] \in Users /\ holds[d] # NoUser
    BY <1>1, <1>2, <1>4, <1>5, TimeAssumption DEF OnceInv
  <2>2. /\ ttl \in Nat /\ ttl' = ttl /\ clock \in Nat
        /\ stamp \in [Users -> Nat] /\ stamp' \in [Users -> Nat]
    BY StoredStep DEF FreshInv
  <2>3. PICK now \in Nat : now = stamp'[c]
    BY <2>1, <2>2
  <2>4. Expired(now, d)
    <3>1. CASE job[c] # "none"
      <4>1. kind[holds[d]] \in Kinds
        BY <2>1, OneHeld DEF BackendInv
      <4> QED
        BY <1>2, <1>5, <2>1, <2>2, <2>3, <3>1, <4>1, ExpiredKept DEF OneCache
    <3>2. CASE job[c] = "none"
      <4>1. Read(c) /\ Spawn(c) /\ stamp'[c] = clock
        BY <1>2, <1>5, <2>1, <2>2, <3>2 DEF Spawn, Stamps
      <4>2. holds[c] = holds[d] /\ kind[holds[c]] # "none" /\ holds[c] \in Users
        BY <2>1, <4>1, OneHeld DEF Read, BackendInv, Using
      <4>3. Get(holds[c], NoEntry)
        <5>1. job'[c] # job[c]
          BY <1>5, <3>2
        <5> QED
          BY <1>5, <4>1, <5>1 DEF Read, Hit
      <4>4. ~Live(stored[Place(holds[d])])
        BY <4>2, <4>3, MissIsLapse
      <4>5. Covered(d)
        BY <2>1 DEF OneCache
      <4> QED
        BY <2>1, <2>3, <4>1, <4>4, <4>5, Lapses
    <3> QED
      BY <3>1, <3>2
  <2>5. Expired(now, d)'
    BY <1>1, <2>1, <2>2, <2>4, ExpiredStays
  <2> QED
    BY <2>3, <2>5 DEF Expired
<1>6. ASSUME ~voided' PROVE OneCache'
  <2>1. \A d \in Runners' : Covered(d)'
    BY <1>1, <1>6, CoveredStep, WrittenIsCovered
  <2> QED
    BY <1>4, <1>5, <1>6, <2>1 DEF OneCache
<1> QED
  BY <1>2, <1>3, <1>4, <1>6 DEF OnceInv

LEMMA AlwaysOnce == Spec => []OnceInv
<1>1. Init => OnceInv
  BY DEF Init, CacheInit, OnceInv, OneCache, Runners, Activities
<1> QED
  BY <1>1, OnceStep, AlwaysFresh, AlwaysBackends, AlwaysJobs, PTL DEF Spec

\* A call that began after another had answered with the result of the function runs
\* it again only when that result has expired, or the cache failed or was emptied.
THEOREM RunsAreSpared == Spec => []RunsOnceWhileFresh
<1>1. OnceInv => RunsOnceWhileFresh
  BY DEF OnceInv, OneCache, Expired, RunsOnceWhileFresh
<1> QED
  BY <1>1, AlwaysOnce, PTL
=============================================================================
