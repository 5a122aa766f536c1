-------------------------- MODULE ToolRetry_proofs --------------------------
(***************************************************************************)
(* What the runs of tools guarantee for any calls, deadlines, retries,     *)
(* backoff and size of the pool.                                           *)
(***************************************************************************)
EXTENDS ToolRetry, FiniteSetTheorems, TLAPS

USE CallsAssumption, LimitsAssumption

-----------------------------------------------------------------------------
(* The inductive invariant *)

\* A call that waits for its permit has not begun, one in an attempt or stopping has,
\* and one that is backing off has a retry left.
AttemptsCounted ==
  \A c \in Calls :
    /\ call[c].state = "queued" => call[c].attempts = 0
    /\ call[c].state \in {"attempt", "stopping"} => call[c].attempts >= 1
    /\ call[c].state = "backoff" => call[c].attempts <= Retries

\* The timer of a call is not overdue; an attempt ends or is cancelled by the deadline,
\* and a backoff ends at most Backoff after it.
TimersSet ==
  \A c \in Calls :
    /\ call[c].state = "attempt" => clock <= call[c].until /\ call[c].until <= Deadline[c]
    /\ call[c].state = "backoff" => clock <= call[c].until /\ call[c].until <= Deadline[c] + Backoff
    /\ call[c].state = "stopping" => c \notin Sync /\ call[c].until <= Deadline[c]

\* The pool has bodies of attempts that were made, those in its queue of the
\* attempt that still waits for them.
PoolFollowsCalls ==
  /\ \A b \in threads : b[2] <= call[b[1]].attempts
  /\ \A b \in pending : call[b[1]].state = "attempt" /\ call[b[1]].attempts = b[2]
  /\ pending \cap threads = {}

RetryInv == TypeOK /\ AttemptsCounted /\ TimersSet /\ PoolFollowsCalls

-----------------------------------------------------------------------------
(* The two outcomes of a step of the retry loop *)

\* How a call may go on from attempt n: it is over, or backs off with a timer
\* and a retry left.
GoesOn(c, n, run) ==
  \/ run = [state |-> "error", attempts |-> n, until |-> clock]
  \/ \E wait \in 0 .. Backoff :
       /\ run = [state |-> "backoff", attempts |-> n, until |-> clock + wait]
       /\ n <= Retries /\ clock < Deadline[c]

\* A failed attempt goes on like that, whatever is left of the deadline.
LEMMA RaisesGoesOn ==
  ASSUME RetryInv, NEW c \in Calls, NEW n \in 1 .. Retries + 1, Raises(c, n)
  PROVE  \E run \in [state : States, attempts : 0 .. Retries + 1, until : Nat] :
           call' = [call EXCEPT ![c] = run] /\ GoesOn(c, n, run)
<1>1. clock \in Nat /\ Deadline[c] \in Nat
  BY DEF RetryInv, TypeOK
<1>2. CASE Stops(c, n)
  <2>1. call' = [call EXCEPT ![c] = [state |-> "error", attempts |-> n, until |-> clock]]
    BY <1>2 DEF Raises
  <2> DEFINE run == [state |-> "error", attempts |-> n, until |-> clock]
  <2>2. run \in [state : States, attempts : 0 .. Retries + 1, until : Nat]
    BY <1>1 DEF States
  <2>3. GoesOn(c, n, run)
    BY DEF GoesOn
  <2> QED
    BY <2>1, <2>2, <2>3
<1>3. CASE ~Stops(c, n)
  <2>1. PICK wait \in 0 .. Backoff :
          call' = [call EXCEPT ![c] = [state |-> "backoff", attempts |-> n, until |-> clock + wait]]
    BY <1>3 DEF Raises
  <2>2. n <= Retries /\ clock < Deadline[c]
    BY <1>1, <1>3 DEF Stops
  <2> DEFINE run == [state |-> "backoff", attempts |-> n, until |-> clock + wait]
  <2>3. run \in [state : States, attempts : 0 .. Retries + 1, until : Nat]
    BY <1>1 DEF States
  <2>4. GoesOn(c, n, run)
    BY <2>2 DEF GoesOn
  <2> QED
    BY <2>1, <2>3, <2>4
<1> QED
  BY <1>2, <1>3

\* A call that goes on, with its body out of the queue, keeps the invariant.
LEMMA GoingOnKeeps ==
  ASSUME RetryInv, NEW c \in Calls, NEW n \in 1 .. Retries + 1,
         NEW run \in [state : States, attempts : 0 .. Retries + 1, until : Nat],
         GoesOn(c, n, run), call[c].attempts <= n,
         call' = [call EXCEPT ![c] = run], clock' = clock,
         pending' \subseteq pending, \A b \in pending' : b[1] # c,
         threads' \subseteq threads
  PROVE  RetryInv'
<1>1. /\ run.state \in {"error", "backoff"} /\ run.attempts = n
      /\ run.state = "backoff" => /\ n <= Retries /\ clock <= run.until
                                  /\ run.until <= Deadline[c] + Backoff
  BY DEF GoesOn, RetryInv, TypeOK
<1>2. \A d \in Calls : call'[d] = IF d = c THEN run ELSE call[d]
  BY DEF RetryInv, TypeOK
<1>3. TypeOK'
  BY DEF RetryInv, TypeOK
<1>4. AttemptsCounted'
  BY <1>1, <1>2 DEF RetryInv, AttemptsCounted
<1>5. TimersSet'
  BY <1>1, <1>2 DEF RetryInv, TimersSet
<1>6. PoolFollowsCalls'
  <2>1. \A b \in pending \cup threads : b[1] \in Calls /\ b[2] \in Nat
    BY DEF RetryInv, TypeOK
  <2>2. \A d \in Calls : call[d].attempts \in Nat
    BY DEF RetryInv, TypeOK
  <2>3. \A b \in threads' : b[2] <= call'[b[1]].attempts
    BY <1>1, <1>2, <2>1, <2>2 DEF RetryInv, PoolFollowsCalls
  <2>4. \A b \in pending' : call'[b[1]].state = "attempt" /\ call'[b[1]].attempts = b[2]
    BY <1>2, <2>1 DEF RetryInv, PoolFollowsCalls
  <2>5. pending' \cap threads' = {}
    BY DEF RetryInv, PoolFollowsCalls
  <2> QED
    BY <2>3, <2>4, <2>5 DEF PoolFollowsCalls
<1> QED
  BY <1>3, <1>4, <1>5, <1>6 DEF RetryInv

\* Only the attempt a call is in has a body in the queue.
LEMMA QueueOfAttempt ==
  ASSUME RetryInv, NEW c \in Calls
  PROVE  /\ call[c].state # "attempt" => \A b \in pending : b[1] # c
         /\ \A b \in pending \ {Body(c)} : b[1] # c
<1>1. \A b \in pending : b = <<b[1], b[2]>>
  BY DEF RetryInv, TypeOK
<1> QED
  BY <1>1 DEF RetryInv, PoolFollowsCalls, Body

\* An attempt begins, the first of a queued call or the next after a backoff.
LEMMA BeginKeeps ==
  ASSUME RetryInv, NEW c \in Calls, NEW n \in 1 .. Retries + 1, Begin(c, n),
         call[c].state \in {"queued", "backoff"}, n = call[c].attempts + 1,
         clock' = clock, threads' = threads
  PROVE  RetryInv'
<1> DEFINE remaining == Deadline[c] - clock
<1>1. /\ clock \in Nat /\ Deadline[c] \in Nat
      /\ call[c].attempts \in Nat /\ call[c].attempts < n
      /\ \A b \in pending : b[1] # c
  BY QueueOfAttempt DEF RetryInv, TypeOK
<1>2. CASE remaining <= 0
  <2>1. Raises(c, n) /\ pending' = pending
    BY <1>2 DEF Begin
  <2>2. PICK run \in [state : States, attempts : 0 .. Retries + 1, until : Nat] :
          call' = [call EXCEPT ![c] = run] /\ GoesOn(c, n, run)
    BY <2>1, RaisesGoesOn
  <2>3. /\ pending' \subseteq pending /\ threads' \subseteq threads
        /\ call[c].attempts <= n
        /\ \A b \in pending' : b[1] # c
    BY <1>1, <2>1
  <2> QED
    BY <2>2, <2>3, GoingOnKeeps
<1>3. CASE ~(remaining <= 0)
  <2> DEFINE until == clock + (IF Timeout < remaining THEN Timeout ELSE remaining)
             run == [state |-> "attempt", attempts |-> n, until |-> until]
  <2>1. /\ call' = [call EXCEPT ![c] = run]
        /\ pending' = IF c \in Sync THEN pending \cup {<<c, n>>} ELSE pending
    BY <1>3 DEF Begin
  <2>2. until \in Nat /\ clock <= until /\ until <= Deadline[c]
    BY <1>1, <1>3
  <2>3. run \in [state : States, attempts : 0 .. Retries + 1, until : Nat]
    BY <2>2 DEF States
  <2>4. \A d \in Calls : call'[d] = IF d = c THEN run ELSE call[d]
    BY <2>1 DEF RetryInv, TypeOK
  <2>5. TypeOK'
    <3>1. call' \in [Calls -> [state : States, attempts : 0 .. Retries + 1, until : Nat]]
      BY <2>1, <2>3 DEF RetryInv, TypeOK
    <3>2. pending' \subseteq Sync \X (1 .. Retries + 1)
      BY <2>1 DEF RetryInv, TypeOK
    <3> QED
      BY <3>1, <3>2 DEF RetryInv, TypeOK
  <2>6. AttemptsCounted'
    BY <2>4 DEF RetryInv, AttemptsCounted
  <2>7. TimersSet'
    BY <2>2, <2>4 DEF RetryInv, TimersSet
  <2>8. PoolFollowsCalls'
    <3>1. \A b \in pending \cup threads : b[1] \in Calls /\ b[2] \in Nat
      BY DEF RetryInv, TypeOK
    <3>2. \A b \in threads : b[1] = c => b[2] < n
      BY <1>1, <3>1 DEF RetryInv, PoolFollowsCalls
    <3>3. \A b \in threads' : b[2] <= call'[b[1]].attempts
      BY <2>4, <3>1, <3>2 DEF RetryInv, PoolFollowsCalls
    <3>4. \A b \in pending' : call'[b[1]].state = "attempt" /\ call'[b[1]].attempts = b[2]
      BY <1>1, <2>1, <2>4, <3>1 DEF RetryInv, PoolFollowsCalls
    <3>5. <<c, n>> \notin threads
      BY <3>2
    <3> QED
      BY <2>1, <3>3, <3>4, <3>5 DEF RetryInv, PoolFollowsCalls
  <2> HIDE DEF run, until
  <2> QED
    BY <2>5, <2>6, <2>7, <2>8 DEF RetryInv
<1> QED
  BY <1>2, <1>3

-----------------------------------------------------------------------------
(* Every step *)

LEMMA InitInv == Init => RetryInv
BY DEF Init, RetryInv, TypeOK, States, AttemptsCounted, TimersSet, PoolFollowsCalls

\* An attempt that raises, at its own time or cancelled, keeps the invariant.
LEMMA RaisingKeeps ==
  ASSUME RetryInv, NEW c \in Calls, call[c].state \in {"attempt", "stopping"},
         Raises(c, call[c].attempts), clock' = clock, threads' \subseteq threads,
         \A b \in pending' : b \in pending /\ b[1] # c
  PROVE  RetryInv'
<1>1. call[c].attempts \in 1 .. Retries + 1
  BY DEF RetryInv, TypeOK, AttemptsCounted
<1>2. PICK run \in [state : States, attempts : 0 .. Retries + 1, until : Nat] :
        call' = [call EXCEPT ![c] = run] /\ GoesOn(c, call[c].attempts, run)
  BY <1>1, RaisesGoesOn
<1>3. pending' \subseteq pending /\ call[c].attempts <= call[c].attempts
  BY <1>1
<1> QED
  BY <1>1, <1>2, <1>3, GoingOnKeeps

\* So does one that returns a value, with its body out of the queue.
LEMMA ReturningKeeps ==
  ASSUME RetryInv, NEW c \in Calls,
         \E output \in Outputs : call' = [call EXCEPT ![c].state = output],
         clock' = clock, pending' = pending, threads' \subseteq threads,
         \A b \in pending : b[1] # c
  PROVE  RetryInv'
<1> USE DEF RetryInv
<1>1. PICK output \in Outputs : call' = [call EXCEPT ![c].state = output]
  OBVIOUS
<1>2. \A d \in Calls : /\ call'[d].attempts = call[d].attempts /\ call'[d].until = call[d].until
                       /\ call'[d].state = IF d = c THEN output ELSE call[d].state
  BY <1>1 DEF TypeOK
<1>3. TypeOK'
  BY <1>1 DEF Outputs, TypeOK, States
<1>4. \A b \in pending \cup threads : b[1] \in Calls
  BY DEF TypeOK
<1> QED
  BY <1>2, <1>3, <1>4 DEF Outputs, AttemptsCounted, TimersSet, PoolFollowsCalls

LEMMA NextInv == RetryInv /\ [Next]_vars => RetryInv'
<1> SUFFICES ASSUME RetryInv, [Next]_vars
             PROVE  RetryInv'
  OBVIOUS
<1> USE DEF RetryInv
<1>1. CASE Tick
  <2>1. TypeOK' /\ AttemptsCounted' /\ PoolFollowsCalls'
    BY <1>1 DEF Tick, TypeOK, AttemptsCounted, PoolFollowsCalls
  <2>2. TimersSet'
    BY <1>1 DEF Tick, Timed, TypeOK, TimersSet
  <2> QED
    BY <2>1, <2>2
<1>2. ASSUME NEW c \in Calls, Acquire(c)
      PROVE  RetryInv'
  <2>1. /\ call[c].state = "queued" /\ call[c].attempts = 0 /\ Begin(c, 1)
        /\ clock' = clock /\ threads' = threads
    BY <1>2 DEF Acquire, AttemptsCounted
  <2>2. 1 \in 1 .. Retries + 1
    OBVIOUS
  <2> QED
    BY <2>1, <2>2, BeginKeeps
<1>3. ASSUME NEW c \in Calls, InvalidInput(c)
      PROVE  RetryInv'
  <2>1. \A d \in Calls : /\ call'[d].attempts = call[d].attempts /\ call'[d].until = call[d].until
                         /\ call'[d].state = IF d = c THEN "error" ELSE call[d].state
    BY <1>3 DEF InvalidInput, TypeOK
  <2>2. \A b \in pending : b[1] # c
    BY <1>3, QueueOfAttempt DEF InvalidInput
  <2>3. TypeOK'
    BY <1>3 DEF InvalidInput, TypeOK, States
  <2>4. \A b \in pending \cup threads : b[1] \in Calls
    BY DEF TypeOK
  <2>5. clock' = clock /\ pending' = pending /\ threads' = threads
    BY <1>3 DEF InvalidInput
  <2> QED
    BY <2>1, <2>2, <2>3, <2>4, <2>5 DEF AttemptsCounted, TimersSet, PoolFollowsCalls
<1>4. ASSUME NEW c \in Calls, Retry(c)
      PROVE  RetryInv'
  <2>1. /\ call[c].state = "backoff" /\ Begin(c, call[c].attempts + 1)
        /\ clock' = clock /\ threads' = threads
    BY <1>4 DEF Retry
  <2>2. call[c].attempts + 1 \in 1 .. Retries + 1
    BY <2>1 DEF TypeOK, AttemptsCounted
  <2> QED
    BY <2>1, <2>2, BeginKeeps
<1>5. ASSUME NEW c \in Calls, TimesOut(c) \/ Fails(c)
      PROVE  RetryInv'
  <2>1. /\ call[c].state = "attempt"
        /\ Raises(c, call[c].attempts) \/ GivesUp(c)
        /\ clock' = clock /\ threads' \subseteq threads
    BY <1>5 DEF TimesOut, Fails, Executing
  <2>2. \A b \in pending' : b \in pending /\ b[1] # c
    <3>1. CASE TimesOut(c)
      BY <3>1, QueueOfAttempt DEF TimesOut
    <3>2. CASE Fails(c)
      <4>1. Body(c) \notin pending
        <5>1. CASE c \in Sync
          BY <3>2, <5>1 DEF Fails, Executing, PoolFollowsCalls
        <5>2. CASE c \notin Sync
          BY <5>2 DEF Body, TypeOK
        <5> QED
          BY <5>1, <5>2
      <4> QED
        BY <3>2, <4>1, QueueOfAttempt DEF Fails
    <3> QED
      BY <1>5, <3>1, <3>2
  <2>3. CASE Raises(c, call[c].attempts)
    BY <2>1, <2>2, <2>3, RaisingKeeps
  <2>4. CASE GivesUp(c) /\ c \notin Sync
    <3>1. call' = [call EXCEPT ![c].state = "stopping"]
      BY <2>4 DEF GivesUp
    <3>2. \A d \in Calls : /\ call'[d].attempts = call[d].attempts /\ call'[d].until = call[d].until
                           /\ call'[d].state = IF d = c THEN "stopping" ELSE call[d].state
      BY <3>1 DEF TypeOK
    <3>3. pending' \subseteq pending
      BY <2>2
    <3>4. TypeOK'
      BY <2>1, <3>1, <3>3 DEF TypeOK, States
    <3>5. AttemptsCounted'
      BY <2>1, <3>2 DEF AttemptsCounted
    <3>6. call[c].until <= Deadline[c]
      BY <2>1 DEF TimersSet
    <3>7. TimersSet'
      BY <2>1, <2>4, <3>2, <3>6 DEF TimersSet
    <3>8. \A b \in pending \cup threads : b[1] \in Calls
      BY DEF TypeOK
    <3>9. PoolFollowsCalls'
      BY <2>1, <2>2, <3>2, <3>3, <3>8 DEF PoolFollowsCalls
    <3> QED
      BY <3>4, <3>5, <3>7, <3>9
  <2> QED
    BY <2>1, <2>3, <2>4 DEF GivesUp
<1>6. ASSUME NEW c \in Calls, Returns(c)
      PROVE  RetryInv'
  <2>1. Body(c) \notin pending
    <3>1. CASE c \in Sync
      BY <1>6, <3>1 DEF Returns, Executing, PoolFollowsCalls
    <3>2. CASE c \notin Sync
      BY <3>2 DEF Body, TypeOK
    <3> QED
      BY <3>1, <3>2
  <2>2. \A b \in pending : b[1] # c
    BY <2>1, QueueOfAttempt
  <2> QED
    BY <1>6, <2>2, ReturningKeeps DEF Returns
<1>10. ASSUME NEW c \in Calls, Stopped(c)
       PROVE  RetryInv'
  <2>1. /\ call[c].state = "stopping" /\ \A b \in pending : b[1] # c
        /\ clock' = clock /\ pending' = pending /\ threads' = threads
    BY <1>10, QueueOfAttempt DEF Stopped
  <2>2. CASE Raises(c, call[c].attempts)
    BY <2>1, <2>2, RaisingKeeps
  <2>3. CASE \E output \in Outputs : call' = [call EXCEPT ![c].state = output]
    BY <2>1, <2>3, ReturningKeeps
  <2> QED
    BY <1>10, <2>2, <2>3 DEF Stopped
<1>7. ASSUME NEW b \in pending, ThreadStarts(b)
      PROVE  RetryInv'
  <2>1. TypeOK'
    BY <1>7 DEF ThreadStarts, TypeOK
  <2>2. b[2] <= call[b[1]].attempts
    BY DEF PoolFollowsCalls, TypeOK
  <2> QED
    BY <1>7, <2>1, <2>2 DEF ThreadStarts, AttemptsCounted, TimersSet, PoolFollowsCalls
<1>8. ASSUME NEW b \in threads, OrphanEnds(b)
      PROVE  RetryInv'
  BY <1>8 DEF OrphanEnds, TypeOK, AttemptsCounted, TimersSet, PoolFollowsCalls
<1>9. CASE UNCHANGED vars
  BY <1>9 DEF vars, TypeOK, AttemptsCounted, TimersSet, PoolFollowsCalls
<1> QED
  BY <1>1, <1>2, <1>3, <1>4, <1>5, <1>6, <1>7, <1>8, <1>9, <1>10 DEF Next, Steps

LEMMA RetryInvariant == Spec => []RetryInv
<1> QED
  BY InitInv, NextInv, PTL DEF Spec

-----------------------------------------------------------------------------
(* What follows *)

\* A run holds its permit no longer than to its deadline and one backoff more, however
\* many retries it has (the promise of _invoke_registered_tool_with_retry), unless it is
\* that of an async tool that was cancelled by its deadline and goes on regardless.
THEOREM ElapsedIsBounded == Spec => []ElapsedBounded
<1>1. RetryInv => ElapsedBounded
  BY DEF RetryInv, TypeOK, TimersSet, Holding, Timed, ElapsedBounded
<1> QED
  BY <1>1, RetryInvariant, PTL

\* A step that starts a thread starts one that its attempt waits for.
LEMMA StartIsAwaited ==
  RetryInv /\ [Next]_vars =>
    [\A b \in threads' \ threads :
       /\ call[b[1]].state = "attempt" /\ call[b[1]].attempts = b[2]
       /\ clock <= Deadline[b[1]]]_vars
<1> SUFFICES ASSUME RetryInv, Next, NEW b \in threads' \ threads
             PROVE  /\ call[b[1]].state = "attempt" /\ call[b[1]].attempts = b[2]
                    /\ clock <= Deadline[b[1]]
  OBVIOUS
<1>1. b \in pending
  BY DEF Next, Tick, Steps, Acquire, InvalidInput, Retry, TimesOut, Stopped, Returns, Fails,
         ThreadStarts, OrphanEnds
<1>2. b[1] \in Calls
  BY <1>1 DEF RetryInv, TypeOK
<1> QED
  BY <1>1, <1>2 DEF RetryInv, TypeOK, PoolFollowsCalls, TimersSet

\* A sync body starts only while its own attempt waits for it, and not past the
\* deadline: a timed-out attempt takes its body out of the pool's queue.
THEOREM StartsAreAwaited == Spec => StartsWhileAwaited
<1>1. RetryInv /\ [Next]_vars =>
        [\A b \in threads' \ threads :
           /\ call[b[1]].state = "attempt" /\ call[b[1]].attempts = b[2]
           /\ clock <= Deadline[b[1]]]_vars
  BY StartIsAwaited
<1> QED
  BY <1>1, RetryInvariant, PTL DEF Spec, StartsWhileAwaited

-----------------------------------------------------------------------------
(* The limits *)

LimitsKept == Cardinality(Holding) <= MaxTools /\ Cardinality(threads) <= MaxTools

\* A set that gains nothing, or one element below its limit, stays within it.
LEMMA WithinLimit ==
  ASSUME NEW S, NEW T, IsFiniteSet(S), Cardinality(S) <= MaxTools,
         \/ T \subseteq S
         \/ Cardinality(S) < MaxTools /\ \E x : T \subseteq S \cup {x}
  PROVE  Cardinality(T) <= MaxTools
<1>1. ASSUME T \subseteq S PROVE Cardinality(T) <= MaxTools
  <2>1. IsFiniteSet(T) /\ Cardinality(T) <= Cardinality(S)
    BY <1>1, FS_Subset
  <2>2. Cardinality(T) \in Nat /\ Cardinality(S) \in Nat
    BY <2>1, FS_CardinalityType
  <2> QED
    BY <2>1, <2>2
<1>2. ASSUME NEW x, T \subseteq S \cup {x}, Cardinality(S) < MaxTools
      PROVE  Cardinality(T) <= MaxTools
  <2>1. /\ IsFiniteSet(S \cup {x})
        /\ Cardinality(S \cup {x}) = Cardinality(S) \/ Cardinality(S \cup {x}) = Cardinality(S) + 1
    BY FS_AddElement
  <2>2. IsFiniteSet(T) /\ Cardinality(T) <= Cardinality(S \cup {x})
    BY <1>2, <2>1, FS_Subset
  <2>3. Cardinality(T) \in Nat /\ Cardinality(S) \in Nat
    BY <2>2, FS_CardinalityType
  <2> QED
    BY <1>2, <2>1, <2>2, <2>3
<1> QED
  BY <1>1, <1>2

\* Only the acquisition of a permit makes a call hold one.
LEMMA HoldingStep ==
  ASSUME RetryInv, [Next]_vars
  PROVE  \/ Holding' \subseteq Holding
         \/ Cardinality(Holding) < MaxTools /\ \E c : Holding' \subseteq Holding \cup {c}
<1>1. call \in [Calls -> [state : States, attempts : 0 .. Retries + 1, until : Nat]]
  BY DEF RetryInv, TypeOK
<1>2. ASSUME NEW c \in Calls, \A d \in Calls \ {c} : call'[d] = call[d]
      PROVE  Holding' \subseteq Holding \cup {c}
  BY <1>2 DEF Holding, Timed
<1>3. ASSUME NEW c \in Calls, NEW n, Raises(c, n) \/ Begin(c, n)
      PROVE  \A d \in Calls \ {c} : call'[d] = call[d]
  BY <1>1, <1>3 DEF Raises, Begin
<1>4. ASSUME NEW c \in Calls, Acquire(c)
      PROVE  Cardinality(Holding) < MaxTools /\ Holding' \subseteq Holding \cup {c}
  BY <1>2, <1>3, <1>4 DEF Acquire
<1>5. ASSUME NEW c \in Calls, Retry(c) \/ TimesOut(c) \/ Fails(c) \/ Returns(c) \/ Stopped(c)
      PROVE  Holding' \subseteq Holding
  <2>1. c \in Holding
    BY <1>5 DEF Retry, TimesOut, Fails, Returns, Stopped, Executing, Holding, Timed
  <2>2. \A d \in Calls \ {c} : call'[d] = call[d]
    <3>1. CASE \E n : Raises(c, n) \/ Begin(c, n)
      BY <1>3, <3>1
    <3>2. CASE \E state : call' = [call EXCEPT ![c].state = state]
      BY <1>1, <3>2
    <3> QED
      BY <1>5, <3>1, <3>2 DEF Retry, TimesOut, GivesUp, Fails, Returns, Stopped
  <2> QED
    BY <1>2, <2>1, <2>2
<1>7. ASSUME NEW c \in Calls, InvalidInput(c) PROVE Holding' \subseteq Holding
  <2>1. call'[c].state = "error" /\ \A d \in Calls \ {c} : call'[d] = call[d]
    BY <1>1, <1>7 DEF InvalidInput
  <2> QED
    BY <2>1 DEF Holding, Timed
<1>8. ASSUME UNCHANGED call PROVE Holding' \subseteq Holding
  BY <1>8 DEF Holding, Timed
<1> QED
  BY <1>4, <1>5, <1>7, <1>8 DEF Next, Steps, Tick, ThreadStarts, OrphanEnds, vars

LEMMA ThreadsStep ==
  ASSUME RetryInv, [Next]_vars
  PROVE  \/ threads' \subseteq threads
         \/ Cardinality(threads) < MaxTools /\ \E b : threads' \subseteq threads \cup {b}
BY DEF Next, Steps, Tick, Acquire, InvalidInput, Retry, TimesOut, Stopped, Returns, Fails, ThreadStarts,
       OrphanEnds, vars

\* max_concurrent_tools bounds the runs that hold a permit and the threads of the
\* pool, each on its own: a body nobody waits for takes a worker, never a permit.
THEOREM LimitsAreKept == Spec => []LimitsKept
<1>1. Init => LimitsKept
  <2> SUFFICES ASSUME Init PROVE LimitsKept
    OBVIOUS
  <2>1. Holding = {} /\ threads = {}
    BY DEF Init, Holding, Timed
  <2> QED
    BY <2>1, FS_EmptySet DEF LimitsKept
<1>2. RetryInv /\ LimitsKept /\ [Next]_vars => LimitsKept'
  <2> SUFFICES ASSUME RetryInv, LimitsKept, [Next]_vars PROVE LimitsKept'
    OBVIOUS
  <2>1. IsFiniteSet(Holding)
    BY FS_Subset DEF Holding, Timed
  <2>2. IsFiniteSet(threads)
    <3>1. IsFiniteSet(Sync)
      BY FS_Subset
    <3>2. IsFiniteSet(1 .. Retries + 1)
      BY FS_Interval
    <3>3. IsFiniteSet(Sync \X (1 .. Retries + 1))
      BY <3>1, <3>2, FS_Product
    <3> QED
      BY <3>3, FS_Subset DEF RetryInv, TypeOK
  <2> QED
    BY <2>1, <2>2, HoldingStep, ThreadsStep, WithinLimit DEF LimitsKept
<1> QED
  BY <1>1, <1>2, RetryInvariant, PTL DEF Spec
=============================================================================
