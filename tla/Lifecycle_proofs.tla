-------------------------- MODULE Lifecycle_proofs --------------------------
(***************************************************************************)
(* What registration, heartbeats and shutdown guarantee for any number of  *)
(* calls of start(), of tools registered on the way and of failures.       *)
(***************************************************************************)
EXTENDS Lifecycle, TLAPS

USE StarterAssumption, LimitAssumption

-----------------------------------------------------------------------------
(* The counters of the heartbeat loop *)

\* A loop that beats is below both limits.
BelowLimits == loop.pc \in Beating => loop.auth < MaxAuth /\ loop.other < MaxFailures

LoopPcs == Beating \cup {"none", "failed", "cancelled"}
Loops == [pc : LoopPcs, snapshot : Manifests \cup {NoManifest},
          auth : 0 .. MaxAuth, other : 0 .. MaxFailures, by : Starters \cup {NoOne}]

StarterPcs == Active \cup {"idle", "done", "failed", "cancelled"}
Calls == [Starters -> [pc : StarterPcs, snapshot : Manifests \cup {NoManifest}]]

\* A loop with one field or all the counted ones replaced is a loop.
LEMMA FieldsTyped ==
  ASSUME NEW run \in Loops, NEW pc \in LoopPcs, NEW auth \in 0 .. MaxAuth,
         NEW other \in 0 .. MaxFailures
  PROVE  /\ [run EXCEPT !.pc = pc] \in Loops
         /\ [run EXCEPT !.auth = auth] \in Loops
         /\ [run EXCEPT !.other = other] \in Loops
BY DEF Loops

LEMMA CountersTyped ==
  ASSUME NEW run \in Loops, NEW pc \in LoopPcs, NEW auth \in 0 .. MaxAuth,
         NEW other \in 0 .. MaxFailures
  PROVE  [[[run EXCEPT !.auth = auth] EXCEPT !.other = other] EXCEPT !.pc = pc] \in Loops
BY FieldsTyped, Zenon

\* A failure counted is a loop again.
LEMMA MissedTyped ==
  ASSUME loop \in Loops, BelowLimits, loop.pc \in Beating, NEW kind \in Failures
  PROVE  Missed(kind) \in Loops
<1>1. /\ loop.auth \in 0 .. MaxAuth /\ loop.auth + 1 \in 0 .. MaxAuth
      /\ loop.other \in 0 .. MaxFailures /\ loop.other + 1 \in 0 .. MaxFailures
  BY DEF Loops, BelowLimits
<1>2. {"failed", "sleeping"} \subseteq LoopPcs
  BY DEF LoopPcs, Beating
<1>3. CASE kind = "auth"
  <2> DEFINE next == IF loop.auth + 1 >= MaxAuth THEN "failed" ELSE "sleeping"
  <2>1. next \in LoopPcs
    BY <1>2
  <2>2. Missed(kind) =
          [[[loop EXCEPT !.auth = loop.auth + 1] EXCEPT !.other = 0] EXCEPT !.pc = next]
    BY <1>3 DEF Missed, Loops
  <2>3. 0 \in 0 .. MaxFailures
    OBVIOUS
  <2> HIDE DEF next
  <2>4. [[[loop EXCEPT !.auth = loop.auth + 1] EXCEPT !.other = 0] EXCEPT !.pc = next] \in Loops
    BY <1>1, <2>1, <2>3, CountersTyped, Zenon
  <2> QED
    BY <2>2, <2>4, Zenon
<1>4. CASE kind # "auth"
  <2> DEFINE next == IF loop.other + 1 >= MaxFailures THEN "failed" ELSE "sleeping"
  <2>1. next \in LoopPcs
    BY <1>2
  <2>2. Missed(kind) =
          [[[loop EXCEPT !.auth = 0] EXCEPT !.other = loop.other + 1] EXCEPT !.pc = next]
    BY <1>4 DEF Missed, Loops
  <2>3. 0 \in 0 .. MaxAuth
    OBVIOUS
  <2> HIDE DEF next
  <2>4. [[[loop EXCEPT !.auth = 0] EXCEPT !.other = loop.other + 1] EXCEPT !.pc = next] \in Loops
    BY <1>1, <2>1, <2>3, CountersTyped, Zenon
  <2> QED
    BY <2>2, <2>4, Zenon
<1> QED
  BY <1>3, <1>4

\* A call of start() that moves is a call of start().
LEMMA GoesTyped ==
  ASSUME starter \in Calls, NEW s \in Starters, NEW pc \in StarterPcs, Goes(s, pc)
  PROVE  starter' \in Calls
BY DEF Calls, Goes


\* The rest of the state.
Phases == {"idle", "startup", "heartbeat", "deregistering", "closed", "aborted"}
Manager ==
  /\ manifest \in Manifests
  /\ lastRegistered \in Manifests \cup {NoManifest}
  /\ registered \in BOOLEAN
  /\ lock \in Starters \cup {NoOne}
  /\ startupDone \in BOOLEAN
  /\ close \in Phases
  /\ serve \in {"idle", "starting", "waiting", "stopping", "closing", "over"}
  /\ known \in Manifests \cup {NoManifest}

LEMMA TypesNamed ==
  TypeOK <=> /\ Manager /\ starter \in Calls /\ loop \in Loops
             /\ beats \in Seq({"ok", "auth", "other"})
BY DEF TypeOK, Manager, Phases, Loops, LoopPcs, Calls, StarterPcs

LEMMA StarterStepTyped ==
  ASSUME starter \in Calls, Manager, [Next]_vars
  PROVE  starter' \in Calls
<1>1. {"waiting", "connecting", "registering", "beating", "deregistering", "done", "failed",
       "cancelled"} \subseteq StarterPcs
  BY DEF StarterPcs, Active
<1>2. ASSUME NEW s \in Starters, CallStart(s) \/ Starts(s)
      PROVE  starter' \in Calls
  <2>1. CASE Enter(s)
    <3>1. [pc |-> "connecting", snapshot |-> manifest]
            \in [pc : StarterPcs, snapshot : Manifests \cup {NoManifest}]
      BY <1>1 DEF Manager
    <3> QED
      BY <2>1, <3>1 DEF Enter, Calls
  <2>2. CASE ~Enter(s)
    <3>1. PICK pc \in StarterPcs : Goes(s, pc)
      BY <1>1, <1>2, <2>2 DEF CallStart, Starts, AlreadyStarted, StartUnconnected, Register,
         Registered, RegistrationFails, Started, FirstBeatFails, StartWithdrawn
    <3> QED
      BY <3>1, GoesTyped
  <2> QED
    BY <2>1, <2>2
<1>3. CASE CancelStartup
  BY <1>1, <1>3, GoesTyped DEF CancelStartup, StartupPending
<1>4. CASE CallServe
  BY <1>1, <1>4, GoesTyped DEF CallServe
<1>5. CASE starter' = starter
  BY <1>5
<1> QED
  BY <1>2, <1>3, <1>4, <1>5
     DEF Next, RegisterTool, Wake, Refreshed, Beat, BeatFails, AcloseStarts, Closes,
         StartupAwaited, CancelHeartbeat, HeartbeatAwaited, AcloseEnds, ServeStopped, Serves,
         ServeWaits, ServeCleansUp, ServeEnds, vars

LEMMA LoopStepTyped ==
  ASSUME loop \in Loops, BelowLimits, Manager, [Next]_vars
  PROVE  loop' \in Loops /\ BelowLimits'
<1>1. {"none", "sleeping", "registering", "beating", "failed", "cancelled"} = LoopPcs
  BY DEF LoopPcs, Beating
<1>2. ASSUME NEW s \in Starters, Started(s), loop.pc \notin Beating
      PROVE  loop' \in Loops /\ BelowLimits'
  <2>1. loop' = [pc |-> "sleeping", snapshot |-> NoManifest, auth |-> 0, other |-> 0, by |-> s]
    BY <1>2 DEF Started
  <2>2. 0 \in 0 .. MaxAuth /\ 0 \in 0 .. MaxFailures
    OBVIOUS
  <2> QED
    BY <1>1, <2>1, <2>2 DEF Loops, BelowLimits
<1>3. CASE Wake \/ Refreshed \/ CancelHeartbeat
  BY <1>1, <1>3 DEF Wake, Refreshed, CancelHeartbeat, Loops, BelowLimits, Beating, Manager
<1>4. CASE Beat
  <2>1. 0 \in 0 .. MaxAuth /\ 0 \in 0 .. MaxFailures /\ "sleeping" \in LoopPcs
    BY <1>1
  <2>2. loop' = [[[loop EXCEPT !.auth = 0] EXCEPT !.other = 0] EXCEPT !.pc = "sleeping"]
    BY <1>4 DEF Beat, Loops
  <2>3. loop' \in Loops
    BY <2>1, <2>2, CountersTyped
  <2>4. loop'.auth = 0 /\ loop'.other = 0
    BY <2>2 DEF Loops
  <2> QED
    BY <2>3, <2>4 DEF BelowLimits
<1>5. ASSUME NEW kind \in Failures, BeatFails(kind)
      PROVE  loop' \in Loops /\ BelowLimits'
  <2>1. loop' = Missed(kind) /\ loop.pc \in Beating
    BY <1>5 DEF BeatFails, Beating
  <2>2. loop' \in Loops
    BY <2>1, MissedTyped
  <2>3. BelowLimits'
    BY <2>1 DEF Missed, BelowLimits, Loops, Beating
  <2> QED
    BY <2>2, <2>3
<1>6. CASE loop' = loop
  BY <1>6 DEF BelowLimits
<1> QED
  BY <1>2, <1>3, <1>4, <1>5, <1>6
     DEF Next, RegisterTool, CallStart, Starts, AlreadyStarted, Enter, StartUnconnected, Register,
         Registered, RegistrationFails, Started, FirstBeatFails, StartWithdrawn, managerVars,
         AcloseStarts, Closes, CancelStartup, StartupAwaited, HeartbeatAwaited, AcloseEnds,
         CallServe, Serve, ServeStopped, Serves, ServeWaits, ServeCleansUp, ServeEnds, vars

LEMMA ManagerStepTyped ==
  ASSUME Manager, starter \in Calls, loop \in Loops, [Next]_vars
  PROVE  Manager'
<1>1. /\ \A s \in Starters : starter[s].snapshot \in Manifests \cup {NoManifest}
      /\ loop.snapshot \in Manifests \cup {NoManifest}
  BY DEF Calls, Loops
<1> USE DEF Manager, managerVars, Phases
<1>2. CASE RegisterTool
  BY <1>2 DEF RegisterTool, Manifests
<1>3. ASSUME NEW s \in Starters, CallStart(s) \/ Starts(s)
      PROVE  Manager'
  BY <1>1, <1>3 DEF CallStart, Starts, AlreadyStarted, Enter, StartUnconnected, Register,
     Registered, RegistrationFails, MayKnow, Started, FirstBeatFails, StartWithdrawn, Deregisters
<1>4. CASE Wake \/ Refreshed \/ Beat \/ \E kind \in Failures : BeatFails(kind)
  BY <1>1, <1>4 DEF Wake, Refreshed, Beat, BeatFails, MayKnow
<1>5. CASE AcloseStarts \/ Closes
  BY <1>1, <1>5 DEF AcloseStarts, Closes, CancelStartup, StartupPending, StartupAwaited,
     CancelHeartbeat, HeartbeatAwaited, AcloseEnds, MayKnow, Deregisters
<1>6. CASE CallServe \/ ServeStopped \/ Serves
  BY <1>6 DEF CallServe, ServeStopped, Serves, ServeWaits, ServeCleansUp, ServeEnds, Serve
<1>7. CASE UNCHANGED vars
  BY <1>7 DEF vars
<1> QED
  BY <1>2, <1>3, <1>4, <1>5, <1>6, <1>7 DEF Next

LEMMA BeatsStepTyped ==
  ASSUME beats \in Seq({"ok", "auth", "other"}), [Next]_vars
  PROVE  beats' \in Seq({"ok", "auth", "other"})
<1>1. << >> \in Seq({"ok", "auth", "other"})
  OBVIOUS
<1>2. \A kind \in {"ok", "auth", "other"} : Append(beats, kind) \in Seq({"ok", "auth", "other"})
  OBVIOUS
<1>3. beats' \in {beats, << >>} \cup {Append(beats, kind) : kind \in {"ok", "auth", "other"}}
  BY DEF Next, RegisterTool, CallStart, Starts, AlreadyStarted, Enter, StartUnconnected, Register,
         Registered, RegistrationFails, Started, FirstBeatFails, StartWithdrawn, Wake, Refreshed,
         Beat, BeatFails, AcloseStarts, Closes, CancelStartup, StartupAwaited, CancelHeartbeat,
         HeartbeatAwaited, AcloseEnds, CallServe, Serve, ServeStopped, Serves, ServeWaits,
         ServeCleansUp, ServeEnds, vars
<1> QED
  BY <1>1, <1>2, <1>3

LEMMA InitTyped == Init => TypeOK /\ BelowLimits
<1> SUFFICES ASSUME Init
             PROVE  TypeOK /\ BelowLimits
  OBVIOUS
<1>1. Manager
  <2>1. /\ manifest = 0 /\ lastRegistered = NoManifest /\ registered = FALSE /\ lock = NoOne
        /\ startupDone = FALSE /\ close = "idle" /\ serve = "idle" /\ known = NoManifest
    BY DEF Init
  <2>2. 0 \in Manifests
    BY DEF Manifests
  <2> QED
    BY <2>1, <2>2 DEF Manager, Phases
<1>2. starter \in Calls
  BY DEF Init, Calls, StarterPcs
<1>3. loop \in Loops /\ BelowLimits
  <2>1. 0 \in 0 .. MaxAuth /\ 0 \in 0 .. MaxFailures
    OBVIOUS
  <2> QED
    BY <2>1 DEF Init, Loops, LoopPcs, BelowLimits, Beating
<1>4. beats \in Seq({"ok", "auth", "other"})
  <2>1. << >> \in Seq({"ok", "auth", "other"})
    OBVIOUS
  <2> QED
    BY <2>1 DEF Init
<1> QED
  BY <1>1, <1>2, <1>3, <1>4, TypesNamed

LEMMA NextTyped == TypeOK /\ BelowLimits /\ [Next]_vars => TypeOK' /\ BelowLimits'
<1> SUFFICES ASSUME TypeOK, BelowLimits, [Next]_vars
             PROVE  TypeOK' /\ BelowLimits'
  OBVIOUS
<1>1. Manager /\ starter \in Calls /\ loop \in Loops /\ beats \in Seq({"ok", "auth", "other"})
  BY TypesNamed
<1>2. Manager' /\ starter' \in Calls /\ loop' \in Loops /\ BelowLimits'
      /\ beats' \in Seq({"ok", "auth", "other"})
  BY <1>1, StarterStepTyped, LoopStepTyped, ManagerStepTyped, BeatsStepTyped
<1> QED
  BY <1>2 DEF TypeOK, Manager, Phases, Loops, LoopPcs, Calls, StarterPcs

\* Every value of the lifecycle has its type: the two failure counters stay
\* within their limits, whatever fails (lifecycle.py:337-384).
THEOREM TypeCorrect == Spec => []TypeOK
<1> QED
  BY InitTyped, NextTyped, PTL DEF Spec

-----------------------------------------------------------------------------
(* One startup at a time *)

Busy == {"connecting", "registering", "beating", "deregistering"}

\* The startup lock is held by the one call of start() that is past it, and by
\* nobody once a startup is done.
LockGuards ==
  /\ \A s \in Starters : starter[s].pc \in Busy <=> lock = s
  /\ startupDone => lock = NoOne

\* A call of start() moves, and nothing else of any call does.
LEMMA GoesMoves ==
  ASSUME starter \in Calls, NEW s \in Starters, NEW pc, Goes(s, pc)
  PROVE  \A r \in Starters : /\ starter'[r].pc = IF r = s THEN pc ELSE starter[r].pc
                             /\ starter'[r].snapshot = starter[r].snapshot
BY DEF Calls, Goes

\* The call that enters takes the manifest as it is, and moves no other.
LEMMA EnterMoves ==
  ASSUME starter \in Calls, NEW s \in Starters, Enter(s)
  PROVE  \A r \in Starters :
           /\ starter'[r].pc = IF r = s THEN "connecting" ELSE starter[r].pc
           /\ r # s => starter'[r].snapshot = starter[r].snapshot
BY DEF Calls, Enter

LEMMA LockStep ==
  ASSUME TypeOK, LockGuards, [Next]_vars
  PROVE  LockGuards'
<1>1. starter \in Calls
  BY TypesNamed
<1> USE DEF LockGuards, Busy, managerVars
<1>2. ASSUME NEW s \in Starters, CallStart(s)
      PROVE  LockGuards'
  BY <1>1, <1>2, GoesMoves DEF CallStart
<1>3. ASSUME NEW s \in Starters, Starts(s)
      PROVE  LockGuards'
  <2>1. CASE Enter(s)
    <3>1. lock = NoOne /\ lock' = s /\ ~startupDone /\ startupDone' = startupDone
      BY <2>1 DEF Enter
    <3>2. \A r \in Starters : starter'[r].pc = IF r = s THEN "connecting" ELSE starter[r].pc
      BY <1>1, <2>1, EnterMoves
    <3> QED
      BY <3>1, <3>2
  <2>2. CASE AlreadyStarted(s)
    BY <1>1, <2>2, GoesMoves DEF AlreadyStarted
  <2>3. CASE StartUnconnected(s)
    BY <1>1, <2>3, GoesMoves DEF StartUnconnected
  <2>4. CASE Register(s)
    BY <1>1, <2>4, GoesMoves DEF Register
  <2>5. CASE Registered(s)
    BY <1>1, <2>5, GoesMoves DEF Registered
  <2>6. CASE RegistrationFails(s)
    BY <1>1, <2>6, GoesMoves DEF RegistrationFails
  <2>7. CASE Started(s)
    <3>1. starter[s].pc = "beating" /\ Goes(s, "done") /\ lock' = NoOne
      BY <2>7 DEF Started
    <3> QED
      BY <1>1, <3>1, GoesMoves
  <2>8. CASE FirstBeatFails(s)
    BY <1>1, <2>8, GoesMoves DEF FirstBeatFails
  <2>9. CASE StartWithdrawn(s)
    BY <1>1, <2>9, GoesMoves DEF StartWithdrawn
  <2> QED
    BY <1>3, <2>1, <2>2, <2>3, <2>4, <2>5, <2>6, <2>7, <2>8, <2>9 DEF Starts
<1>4. CASE CancelStartup
  <2>1. /\ AutoStart \in Starters /\ Goes(AutoStart, "cancelled")
        /\ lock' = IF lock = AutoStart THEN NoOne ELSE lock
        /\ startupDone' = startupDone
    BY <1>4 DEF CancelStartup, StartupPending
  <2> QED
    BY <1>1, <2>1, GoesMoves
<1>5. CASE AcloseEnds
  BY <1>5 DEF AcloseEnds
<1>6. CASE CallServe
  BY <1>1, <1>6, GoesMoves DEF CallServe, Serve
<1>7. CASE UNCHANGED <<starter, lock, startupDone>>
  BY <1>7
<1> QED
  BY <1>2, <1>3, <1>4, <1>5, <1>6, <1>7
     DEF Next, RegisterTool, Wake, Refreshed, Beat, BeatFails, AcloseStarts, Closes,
         StartupAwaited, CancelHeartbeat, HeartbeatAwaited, ServeStopped, Serves, Serve,
         ServeWaits, ServeCleansUp, ServeEnds, vars

LEMMA LockInit == Init => LockGuards
BY DEF Init, LockGuards, Busy

LockInv == TypeOK /\ BelowLimits /\ LockGuards

LEMMA LockInvariant == Spec => []LockInv
<1>1. Init => LockInv
  BY InitTyped, LockInit DEF LockInv
<1>2. LockInv /\ [Next]_vars => LockInv'
  BY NextTyped, LockStep DEF LockInv
<1> QED
  BY <1>1, <1>2, PTL DEF Spec

\* Once a startup is done every other call of start() is still before the lock,
\* and will find the startup done: it "will only start once" (lifecycle.py:127).
THEOREM StartsAtMostOnce == Spec => []StartsOnce
<1>1. LockInv => StartsOnce
  BY DEF LockInv, LockGuards, StartsOnce, Active, Busy
<1> QED
  BY <1>1, LockInvariant, PTL

-----------------------------------------------------------------------------
(* What the platform knows *)

\* What was registered, or is being, is a manifest of now or of before.
Past(m) == m \in 0 .. manifest \cup {NoManifest}

SnapshotsPast ==
  /\ Past(lastRegistered) /\ Past(loop.snapshot)
  /\ \A s \in Starters : Past(starter[s].snapshot)

\* A heartbeat loop lives beside no startup, until aclose() is over.
LoopAfterStart == loop.pc # "none" => startupDone

\* What a startup registered is what the platform has and what the SDK thinks it has.
StartupKnown ==
  \A s \in Starters :
    starter[s].pc = "beating" => known = starter[s].snapshot /\ lastRegistered = known

\* So does the loop, unless a tool was registered since: then its next beat is
\* preceded by a registration.
LoopKnown ==
  /\ loop.pc = "beating" => known = loop.snapshot
  /\ loop.pc \in Beating /\ lastRegistered = manifest => known = manifest
  /\ loop.pc = "registering" /\ lastRegistered = manifest => loop.snapshot = manifest

\* A request that sends a registration, or follows one, has it counted.
Counted ==
  /\ \A s \in Starters :
       starter[s].pc \in {"registering", "beating", "deregistering"} => registered
  /\ loop.pc = "registering" => registered

\* A registration that does not count is one a failed startup has withdrawn.
Withdrawn == known # NoManifest /\ ~registered => \E s \in Starters : starter[s].pc = "failed"

BeforeClose == LoopAfterStart /\ StartupKnown /\ LoopKnown /\ Counted /\ Withdrawn

KnownInv == LockInv /\ SnapshotsPast /\ (close # "closed" => BeforeClose)

LEMMA KnownInit == Init => SnapshotsPast /\ BeforeClose
<1> SUFFICES ASSUME Init
             PROVE  SnapshotsPast /\ BeforeClose
  OBVIOUS
<1>1. /\ lastRegistered = NoManifest /\ loop.snapshot = NoManifest /\ loop.pc = "none"
      /\ known = NoManifest
      /\ \A s \in Starters : starter[s].pc = "idle" /\ starter[s].snapshot = NoManifest
  BY DEF Init
<1> QED
  BY <1>1 DEF SnapshotsPast, Past, BeforeClose, LoopAfterStart, StartupKnown, LoopKnown, Counted,
     Withdrawn, Beating

LEMMA PastStep ==
  ASSUME TypeOK, SnapshotsPast, [Next]_vars
  PROVE  SnapshotsPast'
<1>1. starter \in Calls /\ loop \in Loops /\ manifest \in Nat
  BY TypesNamed DEF Manager, Manifests
<1>2. CASE RegisterTool
  BY <1>1, <1>2 DEF RegisterTool, SnapshotsPast, Past
<1> USE DEF managerVars
<1>3. ASSUME NEW s \in Starters, CallStart(s) \/ Starts(s)
      PROVE  SnapshotsPast'
  <2>1. CASE Enter(s)
    <3>1. starter'[s].snapshot = manifest /\ manifest' = manifest
          /\ lastRegistered' = lastRegistered /\ loop' = loop
      BY <1>1, <2>1 DEF Enter, Calls
    <3>2. \A r \in Starters : r # s => starter'[r].snapshot = starter[r].snapshot
      BY <1>1, <2>1, EnterMoves
    <3> QED
      BY <1>1, <3>1, <3>2 DEF SnapshotsPast, Past
  <2>2. CASE ~Enter(s)
    <3>1. \E pc \in StarterPcs : Goes(s, pc)
      BY <1>3, <2>2 DEF CallStart, Starts, AlreadyStarted, StartUnconnected, Register,
         Registered, RegistrationFails, Started, FirstBeatFails, StartWithdrawn, StarterPcs, Active
    <3>2. \A r \in Starters : starter'[r].snapshot = starter[r].snapshot
      BY <1>1, <3>1, GoesMoves
    <3>3. /\ manifest' = manifest
          /\ lastRegistered' \in {lastRegistered, starter[s].snapshot}
          /\ loop'.snapshot \in {loop.snapshot, NoManifest}
      BY <1>3, <2>2 DEF CallStart, Starts, AlreadyStarted, StartUnconnected, Register,
         Registered, RegistrationFails, Started, FirstBeatFails, StartWithdrawn
    <3> QED
      BY <3>2, <3>3 DEF SnapshotsPast, Past
  <2> QED
    BY <2>1, <2>2
<1>4. CASE Wake \/ Refreshed \/ Beat \/ CancelHeartbeat \/ \E kind \in Failures : BeatFails(kind)
  <2>1. /\ manifest' = manifest /\ starter' = starter
        /\ lastRegistered' \in {lastRegistered, loop.snapshot}
    BY <1>4 DEF Wake, Refreshed, Beat, CancelHeartbeat, BeatFails
  <2>2. loop'.snapshot \in {loop.snapshot, manifest}
    BY <1>1, <1>4 DEF Wake, Refreshed, Beat, CancelHeartbeat, BeatFails, Missed, Loops
  <2> QED
    BY <1>1, <2>1, <2>2 DEF SnapshotsPast, Past
<1>5. CASE CancelStartup \/ CallServe
  <2>1. /\ manifest' = manifest /\ lastRegistered' = lastRegistered /\ loop' = loop
        /\ \E s \in Starters, pc \in StarterPcs : Goes(s, pc)
    BY <1>5 DEF CancelStartup, StartupPending, CallServe, Serve, StarterPcs, Active
  <2>2. \A r \in Starters : starter'[r].snapshot = starter[r].snapshot
    BY <1>1, <2>1, GoesMoves
  <2> QED
    BY <2>1, <2>2 DEF SnapshotsPast, Past
<1>6. CASE UNCHANGED <<manifest, lastRegistered, loop, starter>>
  BY <1>6 DEF SnapshotsPast, Past
<1> QED
  BY <1>2, <1>3, <1>4, <1>5, <1>6
     DEF Next, AcloseStarts, Closes, StartupAwaited, HeartbeatAwaited, AcloseEnds, ServeStopped,
         Serves, Serve, ServeWaits, ServeCleansUp, ServeEnds, vars

\* aclose() is over for good.
LEMMA ClosedStays == close = "closed" /\ [Next]_vars => close' = "closed"
BY DEF Next, RegisterTool, CallStart, Starts, AlreadyStarted, Enter, StartUnconnected, Register,
       Registered, RegistrationFails, Started, FirstBeatFails, StartWithdrawn, Wake, Refreshed,
       Beat, BeatFails, AcloseStarts, Closes, CancelStartup, StartupAwaited, CancelHeartbeat,
       HeartbeatAwaited, AcloseEnds, CallServe, Serve, ServeStopped, Serves, ServeWaits,
       ServeCleansUp, ServeEnds, vars

\* Beside a startup that is past the lock there is neither another nor a loop.
LEMMA BusyAlone ==
  ASSUME KnownInv, close # "closed", NEW s \in Starters, starter[s].pc \in Busy
  PROVE  /\ lock = s /\ loop.pc = "none"
         /\ \A r \in Starters : r # s => starter[r].pc \notin Busy
BY DEF KnownInv, LockInv, LockGuards, BeforeClose, LoopAfterStart

\* Beside a loop there is no such startup.
LEMMA LoopAlone ==
  ASSUME KnownInv, close # "closed", loop.pc # "none"
  PROVE  startupDone /\ \A s \in Starters : starter[s].pc \notin Busy
BY DEF KnownInv, LockInv, LockGuards, BeforeClose, LoopAfterStart

\* A call of start() keeps what the platform knows in order.
LEMMA StartKeepsKnown ==
  ASSUME KnownInv, close # "closed", NEW s \in Starters, CallStart(s) \/ Starts(s)
  PROVE  BeforeClose'
<1>1. starter \in Calls /\ BeforeClose
  BY TypesNamed DEF KnownInv, LockInv
<1>2. /\ starter[s].pc # "failed" /\ manifest' = manifest
      /\ starter[s].pc \in {"idle", "waiting"} \cup Busy
  BY DEF CallStart, Starts, AlreadyStarted, Enter, StartUnconnected, Register, Registered,
         RegistrationFails, Started, FirstBeatFails, StartWithdrawn, Busy, managerVars
<1> USE DEF BeforeClose, LoopAfterStart, StartupKnown, LoopKnown, Counted, Withdrawn, managerVars
<1>3. CASE CallStart(s)
  <2>1. Goes(s, "waiting") /\ UNCHANGED <<managerVars, loop, known>>
    BY <1>3 DEF CallStart
  <2> QED
    BY <1>1, <1>2, <2>1, GoesMoves
<1>4. CASE AlreadyStarted(s)
  <2>1. Goes(s, "done") /\ UNCHANGED <<managerVars, loop, known>>
    BY <1>4 DEF AlreadyStarted
  <2> QED
    BY <1>1, <1>2, <2>1, GoesMoves
<1>5. CASE Enter(s)
  <2>1. UNCHANGED <<manifest, lastRegistered, registered, startupDone, loop, known>>
    BY <1>5 DEF Enter
  <2>2. \A r \in Starters : /\ starter'[r].pc = IF r = s THEN "connecting" ELSE starter[r].pc
                            /\ r # s => starter'[r].snapshot = starter[r].snapshot
    BY <1>1, <1>5, EnterMoves
  <2> QED
    BY <1>1, <1>2, <2>1, <2>2
<1>6. CASE StartUnconnected(s)
  <2>1. /\ Goes(s, "failed")
        /\ UNCHANGED <<manifest, lastRegistered, registered, startupDone, loop, known>>
    BY <1>6 DEF StartUnconnected
  <2> QED
    BY <1>1, <1>2, <2>1, GoesMoves
<1>7. CASE Register(s)
  <2>1. /\ Goes(s, "registering") /\ registered' = TRUE
        /\ UNCHANGED <<manifest, lastRegistered, startupDone, loop, known>>
    BY <1>7 DEF Register
  <2> QED
    BY <1>1, <1>2, <2>1, GoesMoves
<1>8. CASE Registered(s)
  <2>1. /\ Goes(s, "beating") /\ starter[s].pc = "registering"
        /\ known' = starter[s].snapshot /\ lastRegistered' = starter[s].snapshot
        /\ UNCHANGED <<manifest, registered, startupDone, loop>>
    BY <1>8 DEF Registered
  <2>2. loop.pc = "none" /\ \A r \in Starters : r # s => starter[r].pc \notin Busy
    BY <2>1, BusyAlone DEF Busy
  <2> QED
    BY <1>1, <2>1, <2>2, GoesMoves DEF Busy, Beating
<1>9. CASE RegistrationFails(s)
  <2>1. /\ Goes(s, "failed") /\ starter[s].pc = "registering"
        /\ UNCHANGED <<manifest, lastRegistered, registered, startupDone, loop>>
    BY <1>9 DEF RegistrationFails
  <2>2. loop.pc = "none" /\ \A r \in Starters : r # s => starter[r].pc \notin Busy
    BY <2>1, BusyAlone DEF Busy
  <2> QED
    BY <1>1, <2>1, <2>2, GoesMoves DEF Busy, Beating
<1>10. CASE Started(s)
  <2>1. /\ Goes(s, "done") /\ starter[s].pc = "beating" /\ startupDone' = TRUE
        /\ UNCHANGED <<manifest, lastRegistered, registered, known>>
    BY <1>10 DEF Started
  <2>2. loop.pc = "none" /\ \A r \in Starters : r # s => starter[r].pc \notin Busy
    BY <2>1, BusyAlone DEF Busy
  <2>3. loop'.pc = "sleeping"
    BY <1>10, <2>2 DEF Started, Beating
  <2>4. lastRegistered = known
    BY <1>1, <2>1
  <2> QED
    BY <1>1, <2>1, <2>2, <2>3, <2>4, GoesMoves DEF Busy
<1>11. CASE FirstBeatFails(s)
  <2>1. /\ Goes(s, "deregistering") \/ Goes(s, "failed")
        /\ starter[s].pc = "beating"
        /\ UNCHANGED <<manifest, lastRegistered, registered, startupDone, loop, known>>
    BY <1>11 DEF FirstBeatFails
  <2>2. registered
    BY <1>1, <2>1
  <2> QED
    BY <1>1, <1>2, <2>1, <2>2, GoesMoves
<1>12. CASE StartWithdrawn(s)
  <2>1. /\ Goes(s, "failed") /\ starter[s].pc = "deregistering"
        /\ UNCHANGED <<manifest, lastRegistered, startupDone, loop>>
    BY <1>12 DEF StartWithdrawn
  <2>2. loop.pc = "none" /\ \A r \in Starters : r # s => starter[r].pc \notin Busy
    BY <2>1, BusyAlone DEF Busy
  <2> QED
    BY <1>1, <2>1, <2>2, GoesMoves DEF Busy, Beating
<1> QED
  BY <1>3, <1>4, <1>5, <1>6, <1>7, <1>8, <1>9, <1>10, <1>11, <1>12 DEF Starts

\* So does the heartbeat loop.
LEMMA LoopKeepsKnown ==
  ASSUME KnownInv, close # "closed",
         Wake \/ Refreshed \/ Beat \/ (\E kind \in Failures : BeatFails(kind))
  PROVE  BeforeClose'
<1>1. loop \in Loops /\ BeforeClose /\ SnapshotsPast
  BY TypesNamed DEF KnownInv, LockInv
<1>2. /\ loop.pc # "none"
      /\ UNCHANGED <<manifest, startupDone, starter>>
  BY DEF Wake, Refreshed, Beat, BeatFails, managerVars
<1>3. startupDone /\ \A s \in Starters : starter[s].pc \notin Busy
  BY <1>2, LoopAlone
<1>4. LoopAfterStart' /\ StartupKnown'
  BY <1>2, <1>3 DEF LoopAfterStart, StartupKnown, Busy
<1>5. Counted' /\ Withdrawn'
  <2>1. CASE Wake
    <3>1. known' = known /\ (registered' = TRUE \/ (registered' = registered /\ loop'.pc = "beating"))
      BY <1>1, <2>1 DEF Wake, Loops
    <3> QED
      BY <1>1, <1>2, <1>3, <3>1 DEF BeforeClose, Counted, Withdrawn, Busy
  <2>2. CASE Refreshed
    <3>1. registered' = registered /\ loop.pc = "registering" /\ loop'.pc = "beating"
      BY <1>1, <2>2 DEF Refreshed, Loops
    <3> QED
      BY <1>1, <1>2, <1>3, <3>1 DEF BeforeClose, Counted, Withdrawn, Busy
  <2>3. CASE Beat
    <3>1. registered' = registered /\ known' = known /\ loop'.pc = "sleeping"
      BY <1>1, <2>3 DEF Beat, Loops, managerVars
    <3> QED
      BY <1>1, <1>2, <1>3, <3>1 DEF BeforeClose, Counted, Withdrawn, Busy
  <2>4. ASSUME NEW kind \in Failures, BeatFails(kind)
        PROVE  Counted' /\ Withdrawn'
    <3>1. /\ registered' = registered
          /\ loop.pc = "registering" \/ known' = known
          /\ loop'.pc \in {"sleeping", "failed"}
      BY <1>1, <2>4 DEF BeatFails, Missed, Loops, managerVars
    <3> QED
      BY <1>1, <1>2, <1>3, <3>1 DEF BeforeClose, Counted, Withdrawn, Busy
  <2> QED
    BY <2>1, <2>2, <2>3, <2>4
<1>6. LoopKnown'
  <2>1. CASE Wake
    <3>1. /\ UNCHANGED <<known, lastRegistered, manifest>>
          /\ loop.pc = "sleeping" /\ loop'.snapshot = manifest
          /\ loop'.pc = "registering" \/ (loop'.pc = "beating" /\ lastRegistered = manifest)
      BY <1>1, <2>1 DEF Wake, Loops
    <3> QED
      BY <1>1, <3>1 DEF BeforeClose, LoopKnown, Beating
  <2>2. CASE Refreshed
    <3>1. /\ loop'.pc = "beating" /\ loop'.snapshot = loop.snapshot
          /\ known' = loop.snapshot /\ lastRegistered' = loop.snapshot /\ manifest' = manifest
      BY <1>1, <2>2 DEF Refreshed, Loops
    <3> QED
      BY <1>1, <3>1 DEF LoopKnown
  <2>3. CASE Beat
    <3>1. /\ loop.pc = "beating" /\ loop'.pc = "sleeping"
          /\ UNCHANGED <<known, lastRegistered, manifest>>
      BY <1>1, <2>3 DEF Beat, Loops, managerVars
    <3> QED
      BY <1>1, <3>1 DEF BeforeClose, LoopKnown, Beating
  <2>4. ASSUME NEW kind \in Failures, BeatFails(kind)
        PROVE  LoopKnown'
    <3>1. /\ loop'.pc \in {"sleeping", "failed"} /\ loop.pc \in Beating
          /\ UNCHANGED <<lastRegistered, manifest>>
          /\ known' = known \/ (loop.pc = "registering" /\ known' = loop.snapshot)
      BY <1>1, <2>4 DEF BeatFails, MayKnow, Missed, Loops, managerVars, Beating
    <3> QED
      BY <1>1, <3>1 DEF BeforeClose, LoopKnown
  <2> QED
    BY <2>1, <2>2, <2>3, <2>4
<1> QED
  BY <1>4, <1>5, <1>6 DEF BeforeClose

\* So do aclose(), before it is over, and a tool registered on the way.
LEMMA CloseKeepsKnown ==
  ASSUME KnownInv, close # "closed",
         RegisterTool \/ CancelStartup \/ CancelHeartbeat
  PROVE  BeforeClose'
<1>1. starter \in Calls /\ loop \in Loops /\ BeforeClose /\ SnapshotsPast /\ manifest \in Nat
  BY TypesNamed DEF KnownInv, LockInv, Manager, Manifests
<1> USE DEF BeforeClose, LoopAfterStart, StartupKnown, LoopKnown, Counted, Withdrawn, managerVars
<1>2. CASE RegisterTool
  <2>1. /\ manifest' = manifest + 1 /\ manifest' \in 0 .. MaxManifest
        /\ UNCHANGED <<lastRegistered, registered, startupDone, starter, loop, known>>
    BY <1>1, <1>2 DEF RegisterTool
  <2>2. lastRegistered # manifest'
    BY <1>1, <2>1 DEF SnapshotsPast, Past
  <2> QED
    BY <1>1, <2>1, <2>2
<1>3. CASE CancelStartup
  <2>1. /\ AutoStart \in Starters /\ Goes(AutoStart, "cancelled")
        /\ starter[AutoStart].pc # "failed"
        /\ UNCHANGED <<manifest, lastRegistered, registered, startupDone, loop>>
        /\ starter[AutoStart].pc \in {"registering", "deregistering"} \/ known' = known
    BY <1>3 DEF CancelStartup, StartupPending, Active
  <2>2. CASE starter[AutoStart].pc \in {"registering", "deregistering"}
    <3>1. loop.pc = "none" /\ \A r \in Starters : r # AutoStart => starter[r].pc \notin Busy
      BY <2>1, <2>2, BusyAlone DEF Busy
    <3> QED
      BY <1>1, <2>1, <2>2, <3>1, GoesMoves DEF Busy, Beating
  <2>3. CASE known' = known
    BY <1>1, <2>1, <2>3, GoesMoves
  <2> QED
    BY <2>1, <2>2, <2>3
<1>4. CASE CancelHeartbeat
  <2>1. /\ loop.pc \in Beating /\ loop'.pc = "cancelled"
        /\ loop.pc = "registering" \/ known' = known
        /\ UNCHANGED <<manifest, lastRegistered, registered, startupDone, starter>>
    BY <1>1, <1>4 DEF CancelHeartbeat, Loops
  <2>2. startupDone /\ \A s \in Starters : starter[s].pc \notin Busy
    BY <2>1, LoopAlone DEF Beating
  <2> QED
    BY <1>1, <2>1, <2>2 DEF Busy, Beating
<1> QED
  BY <1>2, <1>3, <1>4

LEMMA KnownStep == KnownInv /\ [Next]_vars => KnownInv'
<1> SUFFICES ASSUME KnownInv, [Next]_vars
             PROVE  KnownInv'
  OBVIOUS
<1>1. LockInv' /\ SnapshotsPast'
  BY NextTyped, LockStep, PastStep DEF KnownInv, LockInv
<1>2. ASSUME close' # "closed"
      PROVE  BeforeClose'
  <2>1. close # "closed"
    BY <1>2, ClosedStays
  <2>2. CASE UNCHANGED <<managerVars, starter, loop, known>>
    BY <2>1, <2>2 DEF KnownInv, BeforeClose, LoopAfterStart, StartupKnown, LoopKnown, Counted,
       Withdrawn, managerVars
  <2>3. CASE CallServe
    <3>1. Goes(Server, "waiting") /\ UNCHANGED <<managerVars, loop, known>>
          /\ starter[Server].pc = "idle"
      BY <2>3 DEF CallServe, Serve
    <3>2. starter \in Calls
      BY TypesNamed DEF KnownInv, LockInv
    <3> QED
      BY <2>1, <3>1, <3>2, GoesMoves DEF KnownInv, BeforeClose, LoopAfterStart, StartupKnown,
         LoopKnown, Counted, Withdrawn, managerVars
  <2>4. CASE AcloseEnds
    BY <1>2, <2>4 DEF AcloseEnds
  <2> QED
    BY <2>1, <2>2, <2>3, <2>4, StartKeepsKnown, LoopKeepsKnown, CloseKeepsKnown
       DEF Next, AcloseStarts, Closes, StartupAwaited, HeartbeatAwaited, ServeStopped, Serves,
           Serve, ServeWaits, ServeCleansUp, ServeEnds, vars
<1> QED
  BY <1>1, <1>2 DEF KnownInv

LEMMA KnownInvariant == Spec => []KnownInv
<1>1. Init => KnownInv
  BY InitTyped, LockInit, KnownInit DEF KnownInv, LockInv
<1> QED
  BY <1>1, KnownStep, PTL DEF Spec

\* Until aclose() withdraws it, the platform has the manifest of every heartbeat
\* it is sent, whatever replies are lost and whatever tools are registered
\* between a registration and its beat (lifecycle.py:288).
THEOREM BeatsAreKnown == Spec => []BeatsReferenceKnown
<1>1. KnownInv => BeatsReferenceKnown
  BY DEF KnownInv, BeforeClose, StartupKnown, LoopKnown, BeatsReferenceKnown
<1> QED
  BY <1>1, KnownInvariant, PTL

\* A registration the platform may hold counts as one until aclose() or a failed
\* startup has tried to withdraw it (lifecycle.py:247, 399).
THEOREM RegistrationsAreRemembered == Spec => []RegistrationRemembered
<1>1. KnownInv => RegistrationRemembered
  BY DEF KnownInv, BeforeClose, Withdrawn, RegistrationRemembered
<1> QED
  BY <1>1, KnownInvariant, PTL

-----------------------------------------------------------------------------
(* The end of aclose *)

\* Beyond the await of the startup task nothing of it is left; beyond the await
\* of the heartbeat task no loop of its making is.
StartupOver ==
  /\ close \in {"heartbeat", "deregistering", "closed"} => ~StartupPending
  /\ close \in {"deregistering", "closed"} => (loop.pc \in Beating => loop.by # AutoStart)

LEMMA OverStep ==
  ASSUME TypeOK, StartupOver, [Next]_vars
  PROVE  StartupOver'
<1>1. starter \in Calls /\ loop \in Loops
  BY TypesNamed
<1> USE DEF StartupOver, StartupPending, Active, managerVars
<1>2. ASSUME NEW s \in Starters, CallStart(s) \/ Starts(s)
      PROVE  StartupOver'
  <2>1. starter[s].pc \in Active \cup {"idle"} /\ close' = close
    BY <1>2 DEF CallStart, Starts, AlreadyStarted, Enter, StartUnconnected, Register, Registered,
       RegistrationFails, Started, FirstBeatFails, StartWithdrawn
  <2>2. \A r \in Starters : r # s => starter'[r].pc = starter[r].pc
    <3>1. CASE Enter(s)
      BY <1>1, <3>1, EnterMoves
    <3>2. CASE ~Enter(s)
      <4>1. \E pc \in StarterPcs : Goes(s, pc)
        BY <1>2, <3>2 DEF CallStart, Starts, AlreadyStarted, StartUnconnected, Register,
           Registered, RegistrationFails, Started, FirstBeatFails, StartWithdrawn, StarterPcs
      <4> QED
        BY <1>1, <4>1, GoesMoves
    <3> QED
      BY <3>1, <3>2
  <2>3. loop' = loop \/ loop'.by = s
    BY <1>2 DEF CallStart, Starts, AlreadyStarted, Enter, StartUnconnected, Register, Registered,
       RegistrationFails, Started, FirstBeatFails, StartWithdrawn
  <2>4. CASE s = AutoStart
    BY <2>1, <2>4
  <2>5. CASE s # AutoStart
    BY <2>1, <2>2, <2>3, <2>5
  <2> QED
    BY <2>4, <2>5
<1>3. CASE Wake \/ Refreshed \/ Beat \/ CancelHeartbeat \/ \E kind \in Failures : BeatFails(kind)
  <2>1. /\ close' = close /\ starter' = starter /\ loop.pc \in Beating
        /\ loop'.by = loop.by
    BY <1>1, <1>3 DEF Wake, Refreshed, Beat, CancelHeartbeat, BeatFails, Missed, Loops, Beating
  <2> QED
    BY <2>1
<1>4. CASE CancelStartup
  <2>1. close = "startup" /\ close' = close
    BY <1>4 DEF CancelStartup
  <2> QED
    BY <2>1
<1>5. CASE CallServe
  <2>1. close' = close /\ loop' = loop /\ starter[Server].pc = "idle" /\ Goes(Server, "waiting")
    BY <1>5 DEF CallServe, Serve
  <2> QED
    BY <1>1, <2>1, GoesMoves
<1>6. CASE StartupAwaited
  BY <1>6 DEF StartupAwaited
<1>7. CASE HeartbeatAwaited
  BY <1>7 DEF HeartbeatAwaited
<1>8. CASE /\ UNCHANGED <<starter, loop>>
           /\ \/ close' = close
              \/ close' = "startup"
              \/ close = "deregistering" /\ close' = "closed"
  BY <1>8
<1> QED
  BY <1>2, <1>3, <1>4, <1>5, <1>6, <1>7, <1>8
     DEF Next, RegisterTool, AcloseStarts, Closes, AcloseEnds, ServeStopped, Serves, Serve,
         ServeWaits, ServeCleansUp, ServeEnds, vars

\* After aclose() nothing of the startup task goes on, and no heartbeat loop of
\* its making: it awaits the one before it cancels the other (lifecycle.py:419).
THEOREM ClosedQuietly == Spec => []ClosedIsQuiet
<1> DEFINE OverInv == TypeOK /\ BelowLimits /\ StartupOver
<1>1. Init => OverInv
  BY InitTyped DEF Init, StartupOver
<1>2. OverInv /\ [Next]_vars => OverInv'
  BY NextTyped, OverStep
<1>3. OverInv => ClosedIsQuiet
  BY DEF StartupOver, ClosedIsQuiet, UnderWay, StartupPending
<1> HIDE DEF OverInv
<1> QED
  BY <1>1, <1>2, <1>3, PTL DEF Spec

-----------------------------------------------------------------------------
(* When the heartbeat loop gives up *)

\* The counters are the lengths of the runs the loop's beats end with, and the
\* loop has given up when one of them is at its limit.
StreakCounted ==
  loop.pc # "none" =>
    /\ \A n \in 1 .. MaxAuth : EndsWithRun("auth", n) <=> n <= loop.auth
    /\ \A n \in 1 .. MaxFailures : EndsWithRun("other", n) <=> n <= loop.other
    /\ loop.pc = "failed" <=> loop.auth = MaxAuth \/ loop.other = MaxFailures

\* One more result ends in a run if it is of the kind and the run before it was
\* one shorter.
LEMMA RunGrows ==
  ASSUME beats \in Seq({"ok", "auth", "other"}), NEW k \in {"ok", "auth", "other"},
         NEW kind \in {"auth", "other"}, NEW n \in Nat \ {0}, beats' = Append(beats, k)
  PROVE  EndsWithRun(kind, n)' <=> k = kind /\ (n = 1 \/ EndsWithRun(kind, n - 1))
<1>1. /\ Len(beats) \in Nat /\ Len(beats') = Len(beats) + 1
      /\ \A i \in 1 .. Len(beats) : beats'[i] = beats[i]
      /\ beats'[Len(beats) + 1] = k
  OBVIOUS
<1>2. ASSUME EndsWithRun(kind, n)'
      PROVE  k = kind /\ (n = 1 \/ EndsWithRun(kind, n - 1))
  BY <1>1, <1>2 DEF EndsWithRun
<1>3. ASSUME k = kind, n = 1 \/ EndsWithRun(kind, n - 1)
      PROVE  EndsWithRun(kind, n)'
  BY <1>1, <1>3 DEF EndsWithRun
<1> QED
  BY <1>2, <1>3

LEMMA StreakStep ==
  ASSUME TypeOK, BelowLimits, StreakCounted, [Next]_vars
  PROVE  StreakCounted'
<1>1. loop \in Loops /\ beats \in Seq({"ok", "auth", "other"})
  BY TypesNamed
<1>2. ASSUME NEW s \in Starters, Started(s), loop.pc \notin Beating
      PROVE  StreakCounted'
  <2>1. /\ loop'.pc = "sleeping" /\ loop'.auth = 0 /\ loop'.other = 0 /\ beats' = << >>
    BY <1>2 DEF Started
  <2>2. \A n \in Nat \ {0} : ~EndsWithRun("auth", n)' /\ ~EndsWithRun("other", n)'
    BY <2>1 DEF EndsWithRun
  <2> QED
    BY <2>1, <2>2 DEF StreakCounted
<1>3. CASE Wake \/ Refreshed \/ CancelHeartbeat
  <2>1. /\ beats' = beats /\ loop.pc \in Beating /\ loop'.pc \notin {"none", "failed"}
        /\ loop'.auth = loop.auth /\ loop'.other = loop.other
    BY <1>1, <1>3 DEF Wake, Refreshed, CancelHeartbeat, Loops, Beating
  <2> QED
    BY <1>1, <2>1 DEF StreakCounted, EndsWithRun, BelowLimits, Beating, Loops
<1>4. CASE Beat
  <2>1. /\ loop'.pc = "sleeping" /\ loop'.auth = 0 /\ loop'.other = 0
        /\ beats' = Append(beats, "ok")
    BY <1>1, <1>4 DEF Beat, Loops
  <2>2. \A n \in Nat \ {0} : ~EndsWithRun("auth", n)' /\ ~EndsWithRun("other", n)'
    BY <1>1, <2>1, RunGrows
  <2> QED
    BY <2>1, <2>2 DEF StreakCounted
<1>5. ASSUME BeatFails("auth")
      PROVE  StreakCounted'
  <2>1. /\ loop.pc \in Beating /\ loop'.auth = loop.auth + 1 /\ loop'.other = 0
        /\ loop'.pc = IF loop.auth + 1 >= MaxAuth THEN "failed" ELSE "sleeping"
        /\ beats' = Append(beats, "auth")
    BY <1>1, <1>5 DEF BeatFails, Missed, Loops, Beating
  <2>2. \A n \in Nat \ {0} : /\ ~EndsWithRun("other", n)'
                             /\ EndsWithRun("auth", n)' <=> n = 1 \/ EndsWithRun("auth", n - 1)
    BY <1>1, <2>1, RunGrows
  <2>3. loop.auth \in Nat /\ loop.auth < MaxAuth
    BY <1>1, <2>1 DEF BelowLimits, Loops
  <2>4. \A n \in 1 .. MaxAuth : EndsWithRun("auth", n)' <=> n <= loop'.auth
    BY <2>1, <2>2, <2>3 DEF StreakCounted, Beating
  <2> QED
    BY <2>1, <2>2, <2>3, <2>4 DEF StreakCounted
<1>6. ASSUME BeatFails("other")
      PROVE  StreakCounted'
  <2>1. /\ loop.pc \in Beating /\ loop'.other = loop.other + 1 /\ loop'.auth = 0
        /\ loop'.pc = IF loop.other + 1 >= MaxFailures THEN "failed" ELSE "sleeping"
        /\ beats' = Append(beats, "other")
    BY <1>1, <1>6 DEF BeatFails, Missed, Loops, Beating
  <2>2. \A n \in Nat \ {0} : /\ ~EndsWithRun("auth", n)'
                             /\ EndsWithRun("other", n)' <=> n = 1 \/ EndsWithRun("other", n - 1)
    BY <1>1, <2>1, RunGrows
  <2>3. loop.other \in Nat /\ loop.other < MaxFailures
    BY <1>1, <2>1 DEF BelowLimits, Loops
  <2>4. \A n \in 1 .. MaxFailures : EndsWithRun("other", n)' <=> n <= loop'.other
    BY <2>1, <2>2, <2>3 DEF StreakCounted, Beating
  <2> QED
    BY <2>1, <2>2, <2>3, <2>4 DEF StreakCounted
<1>7. CASE UNCHANGED <<loop, beats>>
  BY <1>7 DEF StreakCounted, EndsWithRun
<1> QED
  BY <1>2, <1>3, <1>4, <1>5, <1>6, <1>7
     DEF Next, RegisterTool, CallStart, Starts, AlreadyStarted, Enter, StartUnconnected, Register,
         Registered, RegistrationFails, Started, FirstBeatFails, StartWithdrawn, managerVars,
         AcloseStarts, Closes, CancelStartup, StartupAwaited, HeartbeatAwaited, AcloseEnds,
         CallServe, Serve, ServeStopped, Serves, ServeWaits, ServeCleansUp, ServeEnds, vars

\* The loop gives up after MaxAuth rejections or MaxFailures other failures back
\* to back, and after nothing else, however many results it has had.
THEOREM GivesUpOnStreaks == Spec => []GivesUpOnStreak
<1> DEFINE StreakInv == TypeOK /\ BelowLimits /\ StreakCounted
<1>1. Init => StreakInv
  BY InitTyped DEF Init, StreakCounted
<1>2. StreakInv /\ [Next]_vars => StreakInv'
  BY NextTyped, StreakStep
<1>3. StreakInv => GivesUpOnStreak
  <2>1. TypeOK => loop.auth \in 0 .. MaxAuth /\ loop.other \in 0 .. MaxFailures
    BY TypesNamed DEF Loops
  <2> QED
    BY <2>1 DEF StreakCounted, GivesUpOnStreak
<1> HIDE DEF StreakInv
<1> QED
  BY <1>1, <1>2, <1>3, PTL DEF Spec
=============================================================================
