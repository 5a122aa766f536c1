------------------------ MODULE ToolDispatch_proofs ------------------------
(***************************************************************************)
(* What the dispatch of tool calls guarantees for any calls, tasks,        *)
(* deadlines, margins and clock errors.                                    *)
(***************************************************************************)
EXTENDS ToolDispatch, FiniteSetTheorems, TLAPS

USE CallsAssumption, TimeAssumption

-----------------------------------------------------------------------------
(* Types *)

LEMMA InitTyped == Init => TypeOK
<1> SUFFICES ASSUME Init
             PROVE  TypeOK
  OBVIOUS
<1>1. Unborn \in Task
  BY DEF Unborn, Task, ToolStates
<1>2. tool \in [Tools -> Task] /\ scheduled \in [Ids -> Entry \cup {NoEntry}]
  BY <1>1, Zenon DEF Init
<1>3. << >> \in Seq(Uses)
  OBVIOUS
<1>4. record \in Seq(Uses)
  BY <1>3, Zenon DEF Init
<1>5. clock \in 0 .. MaxTime /\ skew \in (-MaxSkew) .. MaxSkew
  BY DEF Init
<1>6. /\ answers \in [Uses -> Uses \cup {NoUse}]
      /\ cursor \in [Tools \cup {Runner} -> Nat]
  BY DEF Init
<1>7. /\ over \in BOOLEAN
      /\ reading \in BOOLEAN
      /\ cleanup \in {"none", "draining", "cancelling", "over"}
      /\ swept \subseteq Tools
  BY DEF Init
<1> QED
  BY <1>2, <1>4, <1>5, <1>6, <1>7 DEF TypeOK

(* Pruning leaves a table of entries. *)
LEMMA RememberedTyped ==
  ASSUME TypeOK
  PROVE  Remembered \in [Ids -> Entry \cup {NoEntry}]
BY DEF TypeOK, Remembered

(* An entry outlives the deadline of its call by the margin. *)
LEMMA ExpiryTyped ==
  ASSUME TypeOK, NEW u \in Uses
  PROVE  ExpiresAt(u) \in Int /\ ExpiresAt(u) >= Deadline[u] + Margin
BY DEF TypeOK, ExpiresAt, EstimatedServerTime

(* A new task is a task. *)
LEMMA SpawnTyped ==
  ASSUME TypeOK, NEW t \in Tools, NEW s \in Tools \cup {Runner}, NEW u \in Uses,
         NEW state \in {"queued", "submitting"}, NEW result \in Uses \cup {NoUse},
         Spawn(t, state, u, s, result)
  PROVE  /\ tool' \in [Tools -> Task]
         /\ cursor' \in [Tools \cup {Runner} -> Nat]
<1>1. [Unborn EXCEPT !.state = state, !.use = u, !.result = result] \in Task
  BY DEF Unborn, Task, ToolStates
<1>2. tool' \in [Tools -> Task]
  BY <1>1, Zenon DEF TypeOK, Spawn
<1>3. cursor' \in [Tools \cup {Runner} -> Nat]
  <2>1. cursor' = [cursor EXCEPT ![s] = cursor[s] + 1, ![t] = cursor[s] + 1]
    BY DEF Spawn
  <2>2. cursor \in [Tools \cup {Runner} -> Nat]
    BY DEF TypeOK
  <2> QED
    BY <2>1, <2>2
<1> QED
  BY <1>2, <1>3

(* Delivering an event keeps the types. *)
LEMMA ScheduleTyped ==
  ASSUME TypeOK, NEW s \in Tools \cup {Runner}, NEW u \in Uses, ScheduleToolUse(u, s)
  PROVE  /\ scheduled' \in [Ids -> Entry \cup {NoEntry}]
         /\ tool' \in [Tools -> Task]
         /\ cursor' \in [Tools \cup {Runner} -> Nat]
<1>1. CASE ScheduleExecution(u, s)
  <2>1. PICK t \in Tools :
          /\ Spawn(t, "queued", u, s, NoUse)
          /\ scheduled' = [Remembered EXCEPT ![DedupKey(u)] =
                             [owner |-> t, expires |-> ExpiresAt(u)]]
    BY <1>1 DEF ScheduleExecution
  <2>2. [owner |-> t, expires |-> ExpiresAt(u)] \in Entry
    BY ExpiryTyped DEF Entry
  <2>3. scheduled' \in [Ids -> Entry \cup {NoEntry}]
    BY <2>1, <2>2, RememberedTyped
  <2> QED
    BY <2>1, <2>3, SpawnTyped
<1>2. CASE ScheduleResubmission(u, s)
  <2>1. PICK t \in Tools :
          Spawn(t, "submitting", u, s, tool[Remembered[DedupKey(u)].owner].result)
    BY <1>2 DEF ScheduleResubmission
  <2>2. /\ Remembered[DedupKey(u)] # NoEntry
        /\ scheduled' = Remembered
    BY <1>2 DEF ScheduleResubmission
  <2>3. DedupKey(u) \in Ids
    BY DEF DedupKey
  <2>4. Remembered[DedupKey(u)].owner \in Tools
    BY <2>2, <2>3, RememberedTyped DEF Entry
  <2>5. tool[Remembered[DedupKey(u)].owner].result \in Uses \cup {NoUse}
    BY <2>4 DEF TypeOK, Task
  <2> QED
    BY <2>1, <2>2, <2>5, RememberedTyped, SpawnTyped
<1>3. CASE /\ IgnoreUnregistered(u) \/ IgnoreDuplicate(u)
           /\ cursor' = [cursor EXCEPT ![s] = @ + 1]
  <2>1. tool' = tool /\ scheduled' \in {scheduled, Remembered}
    BY <1>3 DEF IgnoreUnregistered, IgnoreDuplicate
  <2>2. cursor' \in [Tools \cup {Runner} -> Nat]
    BY <1>3 DEF TypeOK
  <2> QED
    BY <2>1, <2>2, RememberedTyped DEF TypeOK
<1> QED
  BY <1>1, <1>2, <1>3 DEF ScheduleToolUse

(* The steps that move one task and nothing else but the answers. *)
Moves(t) ==
  \/ SubmissionEnds(t)
  \/ SubmissionFails(t)
  \/ ToolCancelsItself(t)
  \/ Works(t)

(* The steps that leave the tasks and the table alone. *)
Surroundings ==
  \/ Tick
  \/ UpdateClockOffset
  \/ \E u \in Uses : Emit(u) \/ Redeliver(u)
  \/ TaskEnds
  \/ RunnerStops

Cleanups == CleanupStarts \/ DrainEnds \/ CleanupEnds

LEMMA NextCases ==
  Next <=>
    \/ Surroundings
    \/ \E s \in Tools \cup {Runner} : Deliver(s)
    \/ \E t \in Tools : Moves(t)
    \/ Cleanups
BY Zenon DEF Next, Surroundings, Moves, Cleanups

LEMMA SurroundingsTyped ==
  ASSUME TypeOK, Surroundings
  PROVE  TypeOK'
<1>1. UNCHANGED <<cursor, scheduled, tool, cleanup, swept>>
  BY DEF Surroundings, Tick, UpdateClockOffset, Emit, Redeliver, TaskEnds, RunnerStops, cleanupVars
<1>2. clock' \in 0 .. MaxTime /\ skew' \in (-MaxSkew) .. MaxSkew
  BY DEF TypeOK, Surroundings, Tick, UpdateClockOffset, Emit, Redeliver, TaskEnds, RunnerStops,
         timeVars
<1>3. record' \in Seq(Uses)
  <2>1. record' = record \/ \E u \in Uses : record' = Append(record, u)
    BY DEF Surroundings, Tick, UpdateClockOffset, Emit, Redeliver, TaskEnds, RunnerStops,
           platformVars
  <2>2. record \in Seq(Uses)
    BY DEF TypeOK
  <2>3. CASE \E u \in Uses : record' = Append(record, u)
    BY <2>2, <2>3
  <2> QED
    BY <2>1, <2>2, <2>3
<1>4. answers' = answers /\ over' \in BOOLEAN /\ reading' \in BOOLEAN
  BY DEF TypeOK, Surroundings, Tick, UpdateClockOffset, Emit, Redeliver, TaskEnds, RunnerStops,
         platformVars
<1> QED
  BY <1>1, <1>2, <1>3, <1>4 DEF TypeOK

LEMMA DeliverTyped ==
  ASSUME TypeOK, NEW s \in Tools \cup {Runner}, Deliver(s)
  PROVE  TypeOK'
<1>1. record[cursor[s] + 1] \in Uses
  BY DEF TypeOK, Deliver
<1>2. ScheduleToolUse(record[cursor[s] + 1], s)
  BY DEF Deliver
<1>3. UNCHANGED <<clock, skew, record, answers, over, reading, cleanup, swept>>
  BY DEF Deliver, timeVars, platformVars, cleanupVars
<1>4. /\ scheduled' \in [Ids -> Entry \cup {NoEntry}]
      /\ tool' \in [Tools -> Task]
      /\ cursor' \in [Tools \cup {Runner} -> Nat]
  BY <1>1, <1>2, ScheduleTyped
<1> QED
  BY <1>3, <1>4 DEF TypeOK

(* A task moves forward: its call stays the same, and only a permit makes it run. *)
LEMMA MoveEffect ==
  ASSUME TypeOK, NEW t \in Tools, tool[t].use \in Uses, Moves(t)
  PROVE  /\ UNCHANGED <<clock, skew, record, over, reading, cursor, scheduled, cleanup, swept>>
         /\ tool[t].state \notin {"unborn", "done"}
         /\ tool'[t] \in Task
         /\ tool' = [tool EXCEPT ![t] = tool'[t]]
         /\ tool'[t].use = tool[t].use
         /\ tool'[t].state \in {"running", "submitting", "streaming", "done"}
         /\ tool'[t].state = "running" => Invoke(t)
         /\ tool'[t].ran => tool[t].ran \/ Invoke(t)
         /\ tool'[t].result \in {tool[t].use, tool[t].result}
         /\ tool'[t].state = "submitting" => tool'[t].result = tool[t].use
<1> USE DEF timeVars, platformVars, cleanupVars, Done
<1>1. tool[t] \in Task
  BY DEF TypeOK
<1>2. CASE SubmissionEnds(t)
  BY <1>1, <1>2 DEF SubmissionEnds, TypeOK, Task, ToolStates
<1>3. CASE SubmissionFails(t)
  BY <1>1, <1>3 DEF SubmissionFails, TypeOK, Task, ToolStates
<1>4. CASE ToolCancelsItself(t)
  BY <1>1, <1>4 DEF ToolCancelsItself, TypeOK, Task, ToolStates
<1>5. CASE Invoke(t)
  <2>1. /\ tool[t].state = "queued"
        /\ tool' = [tool EXCEPT ![t] = [tool[t] EXCEPT !.state = "running", !.ran = TRUE]]
        /\ UNCHANGED <<clock, skew, record, over, reading, cursor, scheduled, cleanup, swept>>
    BY <1>5 DEF Invoke
  <2>2. tool'[t] = [tool[t] EXCEPT !.state = "running", !.ran = TRUE]
    BY <2>1 DEF TypeOK
  <2>3. /\ tool'[t] \in Task /\ tool'[t].use = tool[t].use /\ tool'[t].state = "running"
        /\ tool'[t].result = tool[t].result
    BY <1>1, <2>2 DEF Task, ToolStates
  <2> QED
    BY <1>5, <2>1, <2>2, <2>3
<1>6. CASE DeadlineExpired(t)
  BY <1>1, <1>6 DEF DeadlineExpired, HasResult, TypeOK, Task, ToolStates
<1>7. CASE ToolReturns(t)
  BY <1>1, <1>7 DEF ToolReturns, HasResult, TypeOK, Task, ToolStates
<1>8. CASE Submit(t)
  BY <1>1, <1>8 DEF Submit, TypeOK, Task, ToolStates
<1>9. CASE Cancelled(t)
  BY <1>1, <1>9 DEF Cancelled, Live, TypeOK, Task, ToolStates
<1> QED
  BY <1>2, <1>3, <1>4, <1>5, <1>6, <1>7, <1>8, <1>9 DEF Moves, Works

LEMMA CleanupEffect ==
  ASSUME TypeOK, Cleanups
  PROVE  /\ TypeOK'
         /\ UNCHANGED <<clock, skew, record, answers, over, cursor, tool>>
         /\ UNCHANGED scheduled \/ CleanupEnds
<1>1. UNCHANGED <<clock, skew, record, answers, over, cursor, tool>>
  BY DEF Cleanups, CleanupStarts, DrainEnds, CleanupEnds, timeVars, platformVars
<1>2. UNCHANGED scheduled \/ CleanupEnds
  BY DEF Cleanups, CleanupStarts, DrainEnds
<1>3. scheduled' \in [Ids -> Entry \cup {NoEntry}]
  BY <1>2 DEF TypeOK, CleanupEnds
<1>4. /\ reading' \in BOOLEAN
      /\ cleanup' \in {"none", "draining", "cancelling", "over"}
      /\ swept' \subseteq Tools
  BY DEF TypeOK, Cleanups, CleanupStarts, DrainEnds, CleanupEnds, Live
<1> QED
  BY <1>1, <1>2, <1>3, <1>4 DEF TypeOK

-----------------------------------------------------------------------------
(* The tasks and the table *)

\* A task that has begun has its call.
TasksHaveCalls ==
  \A t \in Tools : tool[t].state # "unborn" => tool[t].use \in Uses

\* An entry belongs to a task of a call with its id, and outlives its deadline.
EntriesOwned ==
  \A id \in Ids :
    scheduled[id] # NoEntry =>
      LET owner == tool[scheduled[id].owner]
      IN /\ owner.state # "unborn"
         /\ CallId[owner.use] = id
         /\ scheduled[id].expires >= Deadline[owner.use] + Margin

\* A result comes from an execution and has the id of the call that it is sent for.
ResultsMatch ==
  \A t \in Tools :
    /\ tool[t].result # NoUse => /\ CallId[tool[t].result] = CallId[tool[t].use]
                                 /\ Executed(tool[t].result)
    /\ tool[t].state = "submitting" => tool[t].result # NoUse
    /\ tool[t].state = "unborn" => tool[t] = Unborn

TableInv == TypeOK /\ TasksHaveCalls /\ EntriesOwned /\ ResultsMatch /\ AnswersOwn

(* What delivering an event does to the tasks and to the table. *)
Executes(t, u) ==
  /\ tool[t].state = "unborn"
  /\ tool' = [tool EXCEPT ![t] = [Unborn EXCEPT !.state = "queued", !.use = u, !.result = NoUse]]
  /\ Remembered[CallId[u]] = NoEntry
  /\ scheduled' = [Remembered EXCEPT ![CallId[u]] = [owner |-> t, expires |-> ExpiresAt(u)]]

Resubmits(t, u) ==
  LET result == tool[Remembered[CallId[u]].owner].result
  IN /\ tool[t].state = "unborn"
     /\ tool' = [tool EXCEPT ![t] =
                    [Unborn EXCEPT !.state = "submitting", !.use = u, !.result = result]]
     /\ Remembered[CallId[u]] # NoEntry
     /\ result # NoUse
     /\ scheduled' = Remembered

LEMMA DeliverCases ==
  ASSUME TypeOK, NEW s \in Tools \cup {Runner}, Deliver(s)
  PROVE  /\ UNCHANGED <<clock, skew, record, answers, over, reading, cleanup, swept>>
         /\ \/ \E t \in Tools, u \in Uses : Executes(t, u) \/ Resubmits(t, u)
            \/ tool' = tool /\ scheduled' \in {scheduled, Remembered}
<1> DEFINE u == record[cursor[s] + 1]
<1>1. u \in Uses
  BY DEF TypeOK, Deliver
<1>2. ScheduleToolUse(u, s)
  BY DEF Deliver
<1>3. UNCHANGED <<clock, skew, record, answers, over, reading, cleanup, swept>>
  BY DEF Deliver, timeVars, platformVars, cleanupVars
<1> HIDE DEF u
<1>4. CASE ScheduleExecution(u, s)
  BY <1>1, <1>3, <1>4, Zenon DEF ScheduleExecution, Spawn, Executes, DedupKey
<1>5. CASE ScheduleResubmission(u, s)
  BY <1>1, <1>3, <1>5, Zenon DEF ScheduleResubmission, Spawn, Resubmits, DedupKey
<1>6. CASE IgnoreUnregistered(u) \/ IgnoreDuplicate(u)
  BY <1>3, <1>6 DEF IgnoreUnregistered, IgnoreDuplicate
<1> QED
  BY <1>2, <1>4, <1>5, <1>6, Zenon DEF ScheduleToolUse

LEMMA SpawnEffect ==
  ASSUME TypeOK, NEW t \in Tools, NEW u \in Uses, Executes(t, u) \/ Resubmits(t, u)
  PROVE  /\ tool[t].state = "unborn"
         /\ tool'[t].state \in {"queued", "submitting"}
         /\ tool'[t].use = u
         /\ ~tool'[t].ran
         /\ \A x \in Tools \ {t} : tool'[x] = tool[x]
<1>1. CASE Executes(t, u)
  BY <1>1 DEF TypeOK, Executes, Unborn
<1>2. CASE Resubmits(t, u)
  BY <1>2 DEF TypeOK, Resubmits, Unborn
<1> QED
  BY <1>1, <1>2

(* Pruning removes entries and changes none. *)
LEMMA RememberedIsPruned ==
  ASSUME NEW id \in Ids
  PROVE  Remembered[id] \in {scheduled[id], NoEntry}
BY DEF Remembered

LEMMA PruningKeepsOwners ==
  ASSUME TypeOK, EntriesOwned, tool' = tool, scheduled' \in {scheduled, Remembered}
  PROVE  EntriesOwned'
BY RememberedIsPruned DEF EntriesOwned

\* A task keeps its call, and the result of that call once it has it.
LEMMA ExecutedStays ==
  ASSUME \A t \in Tools :
           tool[t].use # NoUse /\ tool[t].result = tool[t].use
             => tool'[t].use = tool[t].use /\ tool'[t].result = tool[t].result
  PROVE  \A u \in Uses : Executed(u) => Executed(u)'
BY CallsAssumption DEF Executed

LEMMA TableInit == Init => TableInv
<1> SUFFICES ASSUME Init
             PROVE  TableInv
  OBVIOUS
<1>1. \A t \in Tools : tool[t] = Unborn
  BY DEF Init
<1>2. \A t \in Tools : tool[t].state = "unborn" /\ tool[t].result = NoUse
  BY <1>1 DEF Unborn
<1>3. EntriesOwned /\ AnswersOwn
  BY DEF Init, EntriesOwned, AnswersOwn
<1>4. TasksHaveCalls /\ ResultsMatch
  BY <1>1, <1>2 DEF TasksHaveCalls, ResultsMatch
<1> QED
  BY <1>3, <1>4, InitTyped DEF TableInv

LEMMA DeliverKeepsTable ==
  ASSUME TableInv, NEW s \in Tools \cup {Runner}, Deliver(s)
  PROVE  TableInv'
<1> USE DEF TableInv
<1>1. TypeOK'
  BY DeliverTyped
<1>2. answers' = answers
  BY DeliverCases
<1>3. ASSUME \A u \in Uses : Executed(u) => Executed(u)'
      PROVE  AnswersOwn'
  BY <1>2, <1>3 DEF AnswersOwn, TypeOK
<1>4. CASE tool' = tool /\ scheduled' \in {scheduled, Remembered}
  BY <1>1, <1>3, <1>4, PruningKeepsOwners DEF TasksHaveCalls, ResultsMatch, Executed
<1>5. ASSUME NEW t \in Tools, NEW u \in Uses, Executes(t, u)
      PROVE  TableInv'
  <2>1. /\ tool'[t].state = "queued" /\ tool'[t].use = u /\ tool'[t].result = NoUse
        /\ \A x \in Tools \ {t} : tool'[x] = tool[x]
        /\ tool[t].state = "unborn"
    BY <1>5 DEF Executes, TypeOK, Unborn
  <2>4. \A w \in Uses : Executed(w) => Executed(w)'
    BY <2>1, ExecutedStays DEF ResultsMatch, Unborn
  <2>5. TasksHaveCalls' /\ ResultsMatch'
    <3>1. \A x \in Tools : tool[x].result \in Uses \cup {NoUse}
      BY DEF TypeOK, Task
    <3> QED
      BY <2>1, <2>4, <3>1 DEF TasksHaveCalls, ResultsMatch
  <2>3. EntriesOwned'
    <3> SUFFICES ASSUME NEW id \in Ids, scheduled'[id] # NoEntry
                 PROVE  LET owner == tool'[scheduled'[id].owner]
                        IN /\ owner.state # "unborn"
                           /\ CallId[owner.use] = id
                           /\ scheduled'[id].expires >= Deadline[owner.use] + Margin
      BY DEF EntriesOwned
    <3>1. CASE id = CallId[u]
      <4>1. scheduled'[id] = [owner |-> t, expires |-> ExpiresAt(u)]
        BY <1>5, <3>1, RememberedTyped DEF Executes
      <4> QED
        BY <2>1, <3>1, <4>1, ExpiryTyped
    <3>2. CASE id # CallId[u]
      <4>1. scheduled'[id] = scheduled[id]
        BY <1>5, <3>2, RememberedTyped, RememberedIsPruned DEF Executes
      <4>2. scheduled[id].owner \in Tools \ {t}
        BY <2>1, <4>1 DEF EntriesOwned, TypeOK, Entry
      <4> QED
        BY <2>1, <4>1, <4>2 DEF EntriesOwned
    <3> QED
      BY <3>1, <3>2
  <2> QED
    BY <1>1, <1>3, <2>3, <2>4, <2>5
<1>6. ASSUME NEW t \in Tools, NEW u \in Uses, Resubmits(t, u)
      PROVE  TableInv'
  <2> DEFINE owner == Remembered[CallId[u]].owner
  <2>1. /\ tool'[t].state = "submitting" /\ tool'[t].use = u
        /\ tool'[t].result = tool[owner].result
        /\ \A x \in Tools \ {t} : tool'[x] = tool[x]
        /\ tool[t].state = "unborn"
        /\ tool[owner].result # NoUse
    BY <1>6 DEF Resubmits, TypeOK, Unborn
  <2>2. Remembered[CallId[u]] = scheduled[CallId[u]] /\ scheduled[CallId[u]] # NoEntry
    BY <1>6, RememberedIsPruned DEF Resubmits
  <2>3. owner \in Tools /\ CallId[tool[owner].use] = CallId[u]
    BY <2>2 DEF EntriesOwned, TypeOK, Entry
  <2>4. CallId[tool[owner].result] = CallId[u] /\ Executed(tool[owner].result)
    BY <2>1, <2>3 DEF ResultsMatch
  <2> HIDE DEF owner
  <2>7. \A w \in Uses : Executed(w) => Executed(w)'
    BY <2>1, ExecutedStays DEF ResultsMatch, Unborn
  <2>5. TasksHaveCalls' /\ ResultsMatch'
    <3>1. \A x \in Tools : tool[x].result \in Uses \cup {NoUse}
      BY DEF TypeOK, Task
    <3> QED
      BY <2>1, <2>3, <2>4, <2>7, <3>1 DEF TasksHaveCalls, ResultsMatch
  <2>6. EntriesOwned'
    <3> SUFFICES ASSUME NEW id \in Ids, scheduled'[id] # NoEntry
                 PROVE  LET o == tool'[scheduled'[id].owner]
                        IN /\ o.state # "unborn"
                           /\ CallId[o.use] = id
                           /\ scheduled'[id].expires >= Deadline[o.use] + Margin
      BY DEF EntriesOwned
    <3>1. scheduled'[id] = scheduled[id]
      BY <1>6, RememberedIsPruned DEF Resubmits
    <3>2. scheduled[id].owner \in Tools \ {t}
      BY <2>1, <3>1 DEF EntriesOwned, TypeOK, Entry
    <3> QED
      BY <2>1, <3>1, <3>2 DEF EntriesOwned
  <2> QED
    BY <1>1, <1>3, <2>5, <2>6, <2>7
<1> QED
  BY <1>4, <1>5, <1>6, DeliverCases

(* Only an accepted submission answers calls, those of its call's id. *)
LEMMA MoveAnswers ==
  ASSUME NEW t \in Tools, Moves(t)
  PROVE  \/ answers' = answers
         \/ /\ tool[t].state = "submitting"
            /\ \A u \in Uses : \/ answers'[u] = answers[u]
                               \/ /\ CallId[u] = CallId[tool[t].use]
                                  /\ answers'[u] = tool[t].result
            /\ answers' = [u \in Uses |-> answers'[u]]
<1>1. CASE Submit(t)
  BY <1>1 DEF Submit
<1>2. CASE ~Submit(t)
  BY <1>2 DEF Moves, Works, SubmissionEnds, SubmissionFails, ToolCancelsItself, Invoke,
              DeadlineExpired, ToolReturns, Cancelled, platformVars
<1> QED
  BY <1>1, <1>2

LEMMA MoverHasCall ==
  ASSUME TableInv, NEW t \in Tools, Moves(t)
  PROVE  tool[t].use \in Uses
<1>1. tool[t].state # "unborn"
  BY DEF Moves, SubmissionEnds, SubmissionFails, ToolCancelsItself, Works, Invoke,
         DeadlineExpired, ToolReturns, Submit, Cancelled, Live
<1> QED
  BY <1>1 DEF TableInv, TasksHaveCalls

LEMMA MoveKeepsTable ==
  ASSUME TableInv, NEW t \in Tools, Moves(t)
  PROVE  TableInv'
<1> USE DEF TableInv
<1>1. tool[t].use \in Uses
  BY MoverHasCall
<1>2. /\ UNCHANGED <<clock, skew, record, over, reading, cursor, scheduled, cleanup, swept>>
      /\ tool'[t] \in Task
      /\ tool' = [tool EXCEPT ![t] = tool'[t]]
      /\ tool'[t].use = tool[t].use
      /\ tool[t].state # "unborn" /\ tool'[t].state # "unborn"
      /\ tool'[t].result \in {tool[t].use, tool[t].result}
      /\ tool'[t].state = "submitting" => tool'[t].result = tool[t].use
  BY <1>1, MoveEffect
<1>3. \A x \in Tools \ {t} : tool'[x] = tool[x]
  BY <1>2 DEF TypeOK
<1>4. tool' \in [Tools -> Task]
  BY <1>2 DEF TypeOK
<1>5. tool[t].result \in Uses \cup {NoUse}
  BY DEF TypeOK, Task
<1>6. answers' \in [Uses -> Uses \cup {NoUse}]
  BY <1>5, MoveAnswers DEF TypeOK
<1>7. TypeOK'
  BY <1>2, <1>4, <1>6 DEF TypeOK
<1>8. TasksHaveCalls'
  BY <1>1, <1>2, <1>3 DEF TasksHaveCalls
<1>9. EntriesOwned'
  <2> SUFFICES ASSUME NEW id \in Ids, scheduled[id] # NoEntry
               PROVE  LET o == tool'[scheduled[id].owner]
                      IN /\ o.state # "unborn"
                         /\ CallId[o.use] = id
                         /\ scheduled[id].expires >= Deadline[o.use] + Margin
    BY <1>2 DEF EntriesOwned
  <2>1. scheduled[id].owner \in Tools
    BY DEF TypeOK, Entry
  <2> QED
    BY <1>2, <1>3, <2>1 DEF EntriesOwned
<1>10. \A w \in Uses : Executed(w) => Executed(w)'
  BY <1>2, <1>3, ExecutedStays
<1>11. ResultsMatch'
  <2>1. \A x \in Tools : tool[x].result \in Uses \cup {NoUse} /\ tool'[x].result \in Uses \cup {NoUse}
    BY <1>4 DEF TypeOK, Task
  <2>2. ASSUME NEW w \in Uses, tool'[t].result = w
        PROVE  CallId[w] = CallId[tool'[t].use] /\ Executed(w)'
    <3>1. CASE w = tool[t].use
      BY <1>2, <2>2, <3>1 DEF Executed
    <3>2. CASE w = tool[t].result
      <4>1. Executed(w) /\ CallId[w] = CallId[tool[t].use]
        BY <3>2, CallsAssumption DEF ResultsMatch
      <4> QED
        BY <1>2, <1>10, <4>1
    <3> QED
      BY <1>2, <2>2, <3>1, <3>2
  <2>3. \A x \in Tools \ {t} : \A w \in Uses : tool[x].result = w => Executed(w)'
    BY <1>10, CallsAssumption DEF ResultsMatch
  <2> QED
    BY <1>1, <1>2, <1>3, <2>1, <2>2, <2>3 DEF ResultsMatch
<1>12. AnswersOwn'
  <2>1. tool[t].state = "submitting" =>
          CallId[tool[t].result] = CallId[tool[t].use] /\ Executed(tool[t].result)
    BY DEF ResultsMatch
  <2>2. answers \in [Uses -> Uses \cup {NoUse}]
    BY DEF TypeOK
  <2> QED
    BY <1>5, <1>6, <1>10, <2>1, <2>2, MoveAnswers DEF AnswersOwn
<1> QED
  BY <1>7, <1>8, <1>9, <1>11, <1>12

LEMMA TableStep == TableInv /\ [Next]_vars => TableInv'
<1> SUFFICES ASSUME TableInv, [Next]_vars
             PROVE  TableInv'
  OBVIOUS
<1> USE DEF TableInv
<1>1. CASE Surroundings
  <2>1. UNCHANGED <<scheduled, tool, answers>>
    BY <1>1 DEF Surroundings, Tick, UpdateClockOffset, Emit, Redeliver, TaskEnds, RunnerStops,
                platformVars
  <2> QED
    BY <1>1, <2>1, SurroundingsTyped DEF TasksHaveCalls, EntriesOwned, ResultsMatch,
              AnswersOwn, Executed
<1>2. CASE Cleanups
  <2>1. TypeOK' /\ UNCHANGED <<tool, answers>>
    BY <1>2, CleanupEffect
  <2>2. EntriesOwned'
    BY <1>2, <2>1, CleanupEffect DEF EntriesOwned, CleanupEnds
  <2> QED
    BY <2>1, <2>2 DEF TasksHaveCalls, ResultsMatch, AnswersOwn, Executed
<1>3. CASE UNCHANGED vars
  BY <1>3 DEF vars, timeVars, platformVars, cleanupVars, TypeOK, TasksHaveCalls, EntriesOwned,
              ResultsMatch, AnswersOwn, Executed
<1> QED
  BY <1>1, <1>2, <1>3, NextCases, DeliverKeepsTable, MoveKeepsTable

(* Types: every value the dispatch keeps has its type, for any calls and any
   number of tasks. *)
THEOREM TypeCorrect == Spec => []TypeOK
<1>1. TableInv => TypeOK
  BY DEF TableInv
<1> QED
  BY <1>1, TableInit, TableStep, PTL DEF Spec

(* A call is only ever answered with the result of an execution under its own id,
   through every duplicate and resubmission, also when the model that issues the ids
   repeats them: the entry of the table is all that tells two calls of one id apart,
   and the later one may be given the earlier one's result. *)
THEOREM AnswersAreOwn == Spec => []AnswersOwn
<1>1. TableInv => AnswersOwn
  BY DEF TableInv
<1> QED
  BY <1>1, TableInit, TableStep, PTL DEF Spec

-----------------------------------------------------------------------------
(* Permits *)

BoundInv == TableInv /\ ToolsBounded

LEMMA BoundStep == BoundInv /\ [Next]_vars => BoundInv'
<1> SUFFICES ASSUME BoundInv, [Next]_vars
             PROVE  ToolsBounded'
  BY TableStep DEF BoundInv
<1> USE DEF BoundInv
<1>1. IsFiniteSet(Running) /\ IsFiniteSet(Running')
  BY FS_Subset DEF Running
<1>2. CASE Running' \subseteq Running
  BY <1>1, <1>2, FS_Subset, FS_CardinalityType DEF ToolsBounded
<1>3. ASSUME NEW t \in Tools, Invoke(t)
      PROVE  ToolsBounded'
  <2>1. Running' \subseteq Running \cup {t}
    BY <1>3 DEF Invoke, Running, TableInv, TypeOK
  <2>2. IsFiniteSet(Running \cup {t})
    BY <1>1, FS_AddElement, Zenon
  <2>3. Cardinality(Running \cup {t}) <= Cardinality(Running) + 1
    <3>1. Cardinality(Running \cup {t}) \in {Cardinality(Running), Cardinality(Running) + 1}
      BY <1>1, FS_AddElement, Zenon
    <3> QED
      BY <1>1, <3>1, FS_CardinalityType
  <2>4. Cardinality(Running') <= Cardinality(Running \cup {t})
    BY <2>1, <2>2, FS_Subset
  <2>5. Cardinality(Running) < MaxTools
    BY <1>3 DEF Invoke
  <2>6. Cardinality(Running) \in Nat /\ Cardinality(Running') \in Nat /\ Cardinality(Running \cup {t}) \in Nat
    BY <1>1, <2>2, FS_CardinalityType
  <2> QED
    BY <2>3, <2>4, <2>5, <2>6 DEF ToolsBounded
<1>4. CASE Surroundings \/ Cleanups \/ UNCHANGED vars
  <2>1. tool' = tool
    BY <1>4, CleanupEffect
       DEF TableInv, Surroundings, Tick, UpdateClockOffset, Emit, Redeliver, TaskEnds, RunnerStops, vars
  <2> QED
    BY <1>2, <2>1 DEF Running
<1>5. ASSUME NEW s \in Tools \cup {Runner}, Deliver(s)
      PROVE  Running' \subseteq Running
  <2>1. ASSUME NEW t \in Tools, NEW u \in Uses, Executes(t, u) \/ Resubmits(t, u)
        PROVE  Running' \subseteq Running
    <3>1. tool'[t].state # "running" /\ \A x \in Tools \ {t} : tool'[x] = tool[x]
      BY <2>1, SpawnEffect DEF TableInv
    <3> QED
      BY <3>1 DEF Running
  <2> QED
    BY <1>5, <2>1, DeliverCases DEF TableInv, Running
<1>6. ASSUME NEW t \in Tools, Moves(t), ~Invoke(t)
      PROVE  Running' \subseteq Running
  <2>1. tool'[t].state # "running" /\ \A x \in Tools \ {t} : tool'[x] = tool[x]
    BY <1>6, MoverHasCall, MoveEffect DEF TableInv, TypeOK
  <2> QED
    BY <2>1 DEF Running
<1> QED
  BY <1>2, <1>3, <1>4, <1>5, <1>6, NextCases

(* The permits bound the callables under way, whatever is delivered, retried or
   cancelled. *)
THEOREM PermitsBoundTools == Spec => []ToolsBounded
<1>1. Init => BoundInv
  <2>1. Init => Running = {}
    BY DEF Init, Running, Unborn
  <2>2. Cardinality({}) = 0
    BY FS_EmptySet
  <2>3. Init => ToolsBounded
    BY <2>1, <2>2 DEF ToolsBounded
  <2> QED
    BY <2>3, TableInit DEF BoundInv
<1>2. BoundInv => ToolsBounded
  BY DEF BoundInv
<1> QED
  BY <1>1, <1>2, BoundStep, PTL DEF Spec

-----------------------------------------------------------------------------
(* Cleanup, when nothing is drained *)

\* Once cleanup has begun the runner is gone and no task is born; the tasks it
\* waits for are all there are.
QuietAfterCleanup ==
  /\ cleanup # "draining"
  /\ cleanup # "none" => ~reading
  /\ cleanup = "cancelling" => Live \subseteq swept
  /\ cleanup = "over" => Live = {}

CleanupInv == TableInv /\ QuietAfterCleanup

LEMMA NoDeliveryAfterCleanup ==
  ASSUME CleanupInv, NEW s \in Tools \cup {Runner}, Deliver(s)
  PROVE  cleanup = "none"
<1>1. Reads(s)
  BY DEF Deliver
<1>2. CASE s = Runner
  BY <1>1, <1>2 DEF Reads, CleanupInv, QuietAfterCleanup
<1>3. CASE s \in Tools
  <2>1. s \in Live /\ ~IsCancelled(s)
    BY <1>1, <1>3 DEF Reads, Live
  <2> QED
    BY <2>1 DEF CleanupInv, QuietAfterCleanup, IsCancelled, TableInv, TypeOK
<1> QED
  BY <1>2, <1>3

LEMMA CleanupStep ==
  ASSUME ~Graceful
  PROVE  CleanupInv /\ [Next]_vars => CleanupInv'
<1> SUFFICES ASSUME CleanupInv, [Next]_vars
             PROVE  QuietAfterCleanup'
  BY TableStep DEF CleanupInv
<1> USE DEF CleanupInv
<1>1. CASE Surroundings
  <2>1. UNCHANGED <<tool, cleanup, swept>> /\ (reading' => reading)
    BY <1>1 DEF Surroundings, Tick, UpdateClockOffset, Emit, Redeliver, TaskEnds, RunnerStops,
                cleanupVars
  <2> QED
    BY <2>1 DEF QuietAfterCleanup, Live, TableInv, TypeOK
<1>2. ASSUME NEW s \in Tools \cup {Runner}, Deliver(s)
      PROVE  QuietAfterCleanup'
  BY <1>2, NoDeliveryAfterCleanup, DeliverCases DEF TableInv, QuietAfterCleanup
<1>3. ASSUME NEW t \in Tools, Moves(t)
      PROVE  QuietAfterCleanup'
  <2>1. /\ UNCHANGED <<reading, cleanup, swept>>
        /\ tool[t].state \notin {"unborn", "done"}
        /\ \A x \in Tools \ {t} : tool'[x] = tool[x]
    BY <1>3, MoverHasCall, MoveEffect DEF TableInv, TypeOK
  <2>2. Live' \subseteq Live
    BY <2>1 DEF Live
  <2> QED
    BY <2>1, <2>2 DEF QuietAfterCleanup
<1>4. CASE CleanupStarts
  BY <1>4 DEF CleanupStarts, QuietAfterCleanup, Live
<1>5. CASE DrainEnds
  BY <1>5 DEF DrainEnds, QuietAfterCleanup
<1>6. CASE CleanupEnds
  BY <1>6 DEF CleanupEnds, QuietAfterCleanup, Live
<1>7. CASE UNCHANGED vars
  BY <1>7 DEF vars, cleanupVars, QuietAfterCleanup, Live
<1> QED
  BY <1>1, <1>2, <1>3, <1>4, <1>5, <1>6, <1>7, NextCases DEF Cleanups

LEMMA CleanupInit == Init => CleanupInv
BY TableInit DEF CleanupInv, Init, QuietAfterCleanup

(* Without a graceful window, no tool runs and no result is sent once cleanup
   is over, whenever it began. *)
THEOREM NothingLeft ==
  ASSUME ~Graceful
  PROVE  Spec => []CleanupLeavesNothing
<1>1. CleanupInv => CleanupLeavesNothing
  BY DEF CleanupInv, QuietAfterCleanup, CleanupLeavesNothing
<1> QED
  BY <1>1, CleanupInit, CleanupStep, PTL DEF Spec

-----------------------------------------------------------------------------
(* One execution of a call *)

\* A task that may still invoke the callable, or has.
Executing(t) == tool[t].state = "queued" \/ tool[t].ran

\* No estimate of the server time is before the deadline any more.
TooLate(u) == Deadline[u] <= clock - MaxSkew

Owns(t) ==
  LET id == CallId[tool[t].use]
  IN scheduled[id] # NoEntry /\ scheduled[id].owner = t

\* An execution owns the entry of its call, unless the call is forgotten, and
\* then too late to be invoked again.
ExecutionsKnown ==
  \A t \in Tools :
    Executing(t) => cleanup = "over" \/ TooLate(tool[t].use) \/ Owns(t)

OnceInv == CleanupInv /\ ExecutionsKnown /\ RunsOnce

(* An entry is pruned only when its call is too late. *)
LEMMA PrunedTooLate ==
  ASSUME TableInv, NEW t \in Tools, tool[t].use \in Uses, Owns(t),
         Remembered[CallId[tool[t].use]] # scheduled[CallId[tool[t].use]]
  PROVE  TooLate(tool[t].use)
<1> DEFINE id == CallId[tool[t].use]
<1>1. id \in Ids
  OBVIOUS
<1>2. scheduled[id] # NoEntry /\ scheduled[id].expires <= EstimatedServerTime
  BY <1>1 DEF Remembered
<1>3. scheduled[id].owner = t
  BY DEF Owns
<1>4. scheduled[id].expires >= Deadline[tool[t].use] + Margin
  BY <1>1, <1>2, <1>3 DEF TableInv, EntriesOwned
<1>5. scheduled[id].expires \in Int
  BY <1>1, <1>2 DEF TableInv, TypeOK, Entry
<1>6. skew <= MaxSkew /\ clock \in Int /\ skew \in Int
  BY DEF TableInv, TypeOK
<1>7. Deadline[tool[t].use] \in Int
  OBVIOUS
<1> QED
  BY <1>2, <1>4, <1>5, <1>6, <1>7, SkewAssumption DEF TooLate, EstimatedServerTime

(* A task that is too late is not invoked. *)
LEMMA TooLateNotInvoked ==
  ASSUME TableInv, NEW t \in Tools, tool[t].use \in Uses, Invoke(t)
  PROVE  ~TooLate(tool[t].use)
<1>1. skew >= -MaxSkew /\ clock \in Int /\ skew \in Int
  BY DEF TableInv, TypeOK
<1>2. Deadline[tool[t].use] - EstimatedServerTime > 0
  BY DEF Invoke
<1>3. Deadline[tool[t].use] \in Int
  OBVIOUS
<1> QED
  BY <1>1, <1>2, <1>3 DEF TooLate, EstimatedServerTime

(* The executions other than t that a delivery leaves alone stay known. *)
LEMMA DeliveryKeepsKnown ==
  ASSUME CleanupInv, ExecutionsKnown, cleanup # "over", clock' = clock,
         NEW x \in Tools, tool'[x] = tool[x], Executing(x), tool[x].use \in Uses,
         \/ scheduled'[CallId[tool[x].use]] = Remembered[CallId[tool[x].use]]
         \/ Remembered[CallId[tool[x].use]] = NoEntry
         \/ scheduled' = scheduled
  PROVE  TooLate(tool[x].use)' \/ Owns(x)'
<1>1. TooLate(tool[x].use) \/ Owns(x)
  BY DEF ExecutionsKnown
<1>2. CASE TooLate(tool[x].use)
  BY <1>2 DEF TooLate
<1>3. CASE Owns(x) /\ ~TooLate(tool[x].use)
  <2>1. Remembered[CallId[tool[x].use]] = scheduled[CallId[tool[x].use]]
    BY <1>3, PrunedTooLate DEF CleanupInv
  <2> QED
    BY <1>3, <2>1 DEF Owns
<1> QED
  BY <1>1, <1>2, <1>3

LEMMA DeliverKeepsOnce ==
  ASSUME OnceInv, NEW s \in Tools \cup {Runner}, Deliver(s)
  PROVE  ExecutionsKnown' /\ RunsOnce'
<1> USE DEF OnceInv, CleanupInv
<1>1. cleanup = "none" /\ clock' = clock
  BY NoDeliveryAfterCleanup, DeliverCases DEF TableInv
<1>2. TypeOK
  BY DEF TableInv
<1>3. \A x \in Tools : Executing(x) => tool[x].use \in Uses
  <2> SUFFICES ASSUME NEW x \in Tools, tool[x].state = "unborn"
               PROVE  ~Executing(x)
    BY DEF TableInv, TasksHaveCalls
  <2> QED
    BY DEF TableInv, ResultsMatch, Executing, Unborn
<1>4. CASE tool' = tool /\ scheduled' \in {scheduled, Remembered}
  <2>1. RunsOnce'
    BY <1>4 DEF RunsOnce, Ran
  <2>2. ASSUME NEW x \in Tools, Executing(x)
        PROVE  TooLate(tool[x].use)' \/ Owns(x)'
    BY <1>1, <1>3, <1>4, <2>2, DeliveryKeepsKnown
  <2>3. ExecutionsKnown'
    BY <1>4, <2>2 DEF ExecutionsKnown, Executing
  <2> QED
    BY <2>1, <2>3
<1>5. ASSUME NEW t \in Tools, NEW u \in Uses, Executes(t, u) \/ Resubmits(t, u)
      PROVE  ExecutionsKnown' /\ RunsOnce'
  <2>1. /\ tool[t].state = "unborn"
        /\ tool'[t].use = u
        /\ ~tool'[t].ran
        /\ \A x \in Tools \ {t} : tool'[x] = tool[x]
    BY <1>2, <1>5, SpawnEffect
  <2>2. RunsOnce'
    BY <2>1 DEF RunsOnce, Ran
  <2>3. ASSUME NEW x \in Tools \ {t}, Executing(x)
        PROVE  TooLate(tool[x].use)' \/ Owns(x)'
    <3>1. CallId[tool[x].use] \in Ids
      BY <1>3, <2>3
    <3>2. \/ scheduled'[CallId[tool[x].use]] = Remembered[CallId[tool[x].use]]
          \/ Remembered[CallId[tool[x].use]] = NoEntry
      BY <1>2, <1>5, <3>1, RememberedTyped DEF Executes, Resubmits
    <3> QED
      BY <1>1, <1>3, <2>1, <2>3, <3>2, DeliveryKeepsKnown
  <2>4. Executing(t)' => Owns(t)'
    <3>1. CASE Executes(t, u)
      <4>1. scheduled'[CallId[u]] = [owner |-> t, expires |-> ExpiresAt(u)]
        BY <1>2, <3>1, RememberedTyped DEF Executes
      <4>2. [owner |-> t, expires |-> ExpiresAt(u)] # NoEntry
        BY <1>2, ExpiryTyped, EntryAssumption DEF Entry
      <4> QED
        BY <2>1, <4>1, <4>2 DEF Owns
    <3>2. CASE Resubmits(t, u)
      <4>1. tool'[t].state = "submitting"
        BY <1>2, <3>2 DEF Resubmits, Unborn, TypeOK
      <4> QED
        BY <2>1, <4>1 DEF Executing
    <3> QED
      BY <1>5, <3>1, <3>2
  <2>5. ExecutionsKnown'
    BY <2>1, <2>3, <2>4 DEF ExecutionsKnown, Executing
  <2> QED
    BY <2>2, <2>5
<1> QED
  BY <1>2, <1>4, <1>5, DeliverCases

LEMMA MoveKeepsOnce ==
  ASSUME OnceInv, NEW t \in Tools, Moves(t)
  PROVE  ExecutionsKnown' /\ RunsOnce'
<1> USE DEF OnceInv, CleanupInv
<1>1. tool[t].use \in Uses
  BY MoverHasCall
<1>2. /\ UNCHANGED <<clock, scheduled, cleanup>>
      /\ tool[t].state \notin {"unborn", "done"}
      /\ tool'[t].use = tool[t].use
      /\ tool'[t].state # "queued"
      /\ tool'[t].ran => tool[t].ran \/ Invoke(t)
      /\ \A x \in Tools \ {t} : tool'[x] = tool[x]
  BY <1>1, MoveEffect DEF TableInv, TypeOK
<1>3. Executing(t)' => Executing(t)
  BY <1>2 DEF Executing, Invoke
<1>4. ExecutionsKnown'
  BY <1>2, <1>3 DEF ExecutionsKnown, Executing, TooLate, Owns
<1>5. CASE ~Invoke(t)
  BY <1>2, <1>4, <1>5 DEF RunsOnce, Ran
<1>6. CASE Invoke(t)
  <2>1. Executing(t) /\ ~TooLate(tool[t].use) /\ cleanup # "over"
    BY <1>1, <1>2, <1>6, TooLateNotInvoked DEF Executing, Invoke, QuietAfterCleanup, Live
  <2>2. Owns(t)
    BY <2>1 DEF ExecutionsKnown
  <2>3. ASSUME NEW x \in Tools, tool[x].use = tool[t].use, tool[x].ran
        PROVE  x = t
    BY <2>1, <2>2, <2>3 DEF ExecutionsKnown, Executing, Owns
  <2> QED
    BY <1>2, <1>4, <2>3 DEF RunsOnce, Ran
<1> QED
  BY <1>4, <1>5, <1>6

LEMMA OnceStep ==
  ASSUME ~Graceful
  PROVE  OnceInv /\ [Next]_vars => OnceInv'
<1> SUFFICES ASSUME OnceInv, [Next]_vars
             PROVE  ExecutionsKnown' /\ RunsOnce'
  BY CleanupStep DEF OnceInv
<1>1. CASE Surroundings
  <2>1. UNCHANGED <<tool, scheduled, cleanup>> /\ clock' \in {clock, clock + 1}
    BY <1>1 DEF Surroundings, Tick, UpdateClockOffset, Emit, Redeliver, TaskEnds, RunnerStops,
                cleanupVars, timeVars
  <2>2. clock \in Int
    BY DEF OnceInv, CleanupInv, TableInv, TypeOK
  <2>3. ASSUME NEW t \in Tools, tool[t].use \in Uses, TooLate(tool[t].use)
        PROVE  TooLate(tool[t].use)'
    BY <2>1, <2>2, <2>3 DEF TooLate
  <2>4. \A t \in Tools : Executing(t) => tool[t].use \in Uses
    BY DEF OnceInv, CleanupInv, TableInv, TasksHaveCalls, ResultsMatch, Executing, Unborn
  <2>5. ExecutionsKnown'
    BY <2>1, <2>3, <2>4 DEF OnceInv, ExecutionsKnown, Executing, Owns
  <2> QED
    BY <2>1, <2>5 DEF OnceInv, RunsOnce, Ran
<1>2. CASE Cleanups
  <2>1. UNCHANGED <<clock, tool>> /\ (UNCHANGED scheduled \/ CleanupEnds)
    BY <1>2, CleanupEffect DEF OnceInv, CleanupInv, TableInv
  <2>2. cleanup = "over" => cleanup' = "over"
    BY <1>2 DEF Cleanups, CleanupStarts, DrainEnds, CleanupEnds
  <2>3. CASE CleanupEnds
    BY <2>1, <2>3 DEF CleanupEnds, OnceInv, ExecutionsKnown, RunsOnce, Ran
  <2>4. CASE UNCHANGED scheduled
    BY <2>1, <2>2, <2>4 DEF OnceInv, ExecutionsKnown, Executing, TooLate, Owns, RunsOnce, Ran
  <2> QED
    BY <2>1, <2>3, <2>4
<1>3. CASE UNCHANGED vars
  <2>1. UNCHANGED <<clock, scheduled, tool, cleanup>>
    BY <1>3 DEF vars, timeVars, cleanupVars
  <2>2. RunsOnce'
    BY <2>1 DEF OnceInv, RunsOnce, Ran
  <2>3. ExecutionsKnown'
    BY <2>1 DEF OnceInv, ExecutionsKnown, Executing, TooLate, Owns
  <2> QED
    BY <2>2, <2>3
<1> QED
  BY <1>1, <1>2, <1>3, NextCases, DeliverKeepsOnce, MoveKeepsOnce

LEMMA OnceInit == Init => OnceInv
BY CleanupInit DEF OnceInv, Init, ExecutionsKnown, Executing, RunsOnce, Ran, Unborn

(* A call's callable is invoked by one task at most, however many streams
   deliver it, whatever is pruned and however the clock estimate moves: an entry
   outlives its deadline by twice the clock error.  Without a graceful window,
   that is: a task left over by a drained cleanup finds the table empty. *)
THEOREM CallsRunOnce ==
  ASSUME ~Graceful
  PROVE  Spec => []RunsOnce
<1>1. OnceInv => RunsOnce
  BY DEF OnceInv
<1> QED
  BY <1>1, OnceInit, OnceStep, PTL DEF Spec

=============================================================================
