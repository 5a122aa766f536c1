--------------------------- MODULE BreakerPromise ---------------------------
(***************************************************************************)
(* What the circuit breaker promises, without generations, deadlines or    *)
(* per-call records: a mode, the failures in a row, the calls whose result *)
(* still counts, and how long the breaker goes on refusing.  The numbers   *)
(* and the stale-result check of CircuitBreaker implement `counting`.      *)
(***************************************************************************)
EXTENDS Integers

CONSTANTS Calls, Failures, Recovery

VARIABLES
  mode,      \* "closed", "open" or "half_open"
  streak,    \* failures in a row while closed
  counting,  \* calls in progress whose result the breaker will take
  wait       \* ticks for which every new call is refused

promiseVars == <<mode, streak, counting, wait>>

Init ==
  /\ mode = "closed"
  /\ streak = 0
  /\ counting = {}
  /\ wait = 0

Tick ==
  /\ wait > 0
  /\ wait' = wait - 1
  /\ UNCHANGED <<mode, streak, counting>>

AdmitFreely(c) ==
  /\ mode = "closed"
  /\ counting' = counting \cup {c}
  /\ UNCHANGED <<mode, streak, wait>>

\* The probe alone counts from now on; a probe that outlived its window does not.
AdmitProbe(c) ==
  /\ mode # "closed"
  /\ wait = 0
  /\ mode' = "half_open"
  /\ counting' = {c}
  /\ wait' = Recovery
  /\ UNCHANGED streak

Trip ==
  /\ mode' = "open"
  /\ streak' = 0
  /\ counting' = {}
  /\ wait' = Recovery

Fail(c) ==
  /\ c \in counting
  /\ IF mode = "half_open" \/ streak + 1 >= Failures
       THEN Trip
       ELSE /\ streak' = streak + 1
            /\ counting' = counting \ {c}
            /\ UNCHANGED <<mode, wait>>

\* Mutant: a successful probe only makes room for the next one.
SucceedWithoutClosing(c) ==
  /\ c \in counting
  /\ mode' = IF mode = "half_open" THEN "open" ELSE mode
  /\ streak' = 0
  /\ counting' = counting \ {c}
  /\ wait' = 0

Succeed(c) ==
  /\ c \in counting
  /\ mode' = "closed"
  /\ streak' = 0
  /\ counting' = counting \ {c}
  /\ wait' = 0

\* A neutral result: while half open the next caller may probe at once.
Ignore(c) ==
  /\ c \in counting
  /\ mode' = IF mode = "half_open" THEN "open" ELSE mode
  /\ counting' = counting \ {c}
  /\ wait' = 0
  /\ UNCHANGED streak

Admit(c) == c \notin counting /\ (AdmitFreely(c) \/ AdmitProbe(c))

Next ==
  \/ Tick
  \/ \E c \in Calls : Admit(c) \/ Fail(c) \/ Succeed(c) \/ Ignore(c)

Spec == Init /\ [][Next]_promiseVars
=============================================================================
