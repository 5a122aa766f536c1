------------------------------ MODULE Lifecycle ------------------------------
(***************************************************************************)
(* Registration, heartbeats and shutdown of a hosted agent                 *)
(* (LifecycleManager in src/src/dualeai/lifecycle.py).  A starter is one   *)
(* call of start(); AutoStart is the one __init__ schedules under          *)
(* auto_start, the only one aclose() cancels.  Requests to the bridge      *)
(* settle in one step, in which the platform has seen a failed or          *)
(* cancelled one or not.                                                   *)
(* The platform is external.                                               *)
(***************************************************************************)
EXTENDS Integers, Sequences

CONSTANTS
  Starters,     \* calls of start()
  AutoStart,    \* _startup_task
  Server,       \* the call of start() that serve() makes
  NoOne,        \* nobody holds the startup lock
  NoManifest,   \* no manifest
  MaxManifest,  \* bound on the tools registered while running
  MaxAuth,      \* MAX_CONSECUTIVE_HEARTBEAT_AUTH_FAILURES
  MaxFailures,  \* MAX_CONSECUTIVE_HEARTBEAT_FAILURES
  Failures,     \* the failures that happen, of "auth" and "other"
  MaxBeats      \* bound on the beats of a loop

ASSUME StarterAssumption == NoOne \notin Starters /\ Server \in Starters

ASSUME LimitAssumption ==
  /\ MaxManifest \in Nat
  /\ NoManifest \notin 0 .. MaxManifest
  /\ MaxAuth \in Nat \ {0}
  /\ MaxFailures \in Nat \ {0}
  /\ Failures \subseteq {"auth", "other"}
  /\ MaxBeats \in Nat

VARIABLES
  manifest,        \* the tool manifest, by its hash; it only grows
  lastRegistered,  \* _last_registered_config_hash
  registered,      \* _lifecycle_registered
  lock,            \* who holds _startup_lock
  startupDone,     \* _startup_done
  starter,         \* each call of start(), and the manifest it registers
  loop,            \* _heartbeat_task
  close,           \* aclose()
  serve,           \* serve()
  known,           \* platform: the manifest of this process
  beats            \* history: the results of the loop's beats

managerVars == <<manifest, lastRegistered, registered, lock, startupDone>>
vars == <<managerVars, starter, loop, close, serve, known, beats>>

Manifests == 0 .. MaxManifest

Active == {"waiting", "connecting", "registering", "beating", "deregistering"}
Beating == {"sleeping", "registering", "beating"}

Init ==
  /\ manifest = 0
  /\ lastRegistered = NoManifest
  /\ registered = FALSE
  /\ lock = NoOne
  /\ startupDone = FALSE
  /\ starter = [s \in Starters |-> [pc |-> "idle", snapshot |-> NoManifest]]
  /\ loop = [pc |-> "none", snapshot |-> NoManifest, auth |-> 0, other |-> 0, by |-> NoOne]
  /\ close = "idle"
  /\ serve = "idle"
  /\ known = NoManifest
  /\ beats = << >>

\* register_tool
RegisterTool ==
  /\ manifest < MaxManifest
  /\ manifest' = manifest + 1
  /\ UNCHANGED <<lastRegistered, registered, lock, startupDone, starter, loop, close, known,
                 beats, serve>>

-----------------------------------------------------------------------------
(* start *)

Goes(s, pc) == starter' = [starter EXCEPT ![s].pc = pc]

CallStart(s) ==
  /\ starter[s].pc = "idle"
  /\ Goes(s, "waiting")
  /\ UNCHANGED <<managerVars, loop, close, known, beats, serve>>

AlreadyStarted(s) ==
  /\ starter[s].pc = "waiting" /\ lock = NoOne /\ startupDone
  /\ Goes(s, "done")
  /\ UNCHANGED <<managerVars, loop, close, known, beats, serve>>

\* Mutant: _startup_done is read before the lock is taken, and not after.
EnterUnchecked(s) ==
  /\ starter[s].pc = "waiting" /\ lock = NoOne
  /\ lock' = s
  /\ starter' = [starter EXCEPT ![s] = [pc |-> "connecting", snapshot |-> manifest]]
  /\ UNCHANGED <<manifest, lastRegistered, registered, startupDone, loop, close, known, beats, serve>>

\* The lock, and the manifest as it is now.
Enter(s) ==
  /\ starter[s].pc = "waiting" /\ lock = NoOne /\ ~startupDone
  /\ lock' = s
  /\ starter' = [starter EXCEPT ![s] = [pc |-> "connecting", snapshot |-> manifest]]
  /\ UNCHANGED <<manifest, lastRegistered, registered, startupDone, loop, close, known, beats, serve>>

\* No connection: start() raises before it has sent anything.
StartUnconnected(s) ==
  /\ starter[s].pc = "connecting" /\ Failures # {}
  /\ lock' = NoOne
  /\ Goes(s, "failed")
  /\ UNCHANGED <<manifest, lastRegistered, registered, startupDone, loop, close, known, beats, serve>>

\* Mutant: the registration counts only once it is acknowledged.
RegisterUncounted(s) ==
  /\ starter[s].pc = "connecting"
  /\ Goes(s, "registering")
  /\ UNCHANGED <<managerVars, loop, close, known, beats, serve>>

\* The message names the manifest; it counts as registered from the moment it is sent.
Register(s) ==
  /\ starter[s].pc = "connecting"
  /\ registered' = TRUE
  /\ Goes(s, "registering")
  /\ UNCHANGED <<manifest, lastRegistered, lock, startupDone, loop, close, known, beats, serve>>

Registered(s) ==
  /\ starter[s].pc = "registering"
  /\ known' = starter[s].snapshot
  /\ lastRegistered' = starter[s].snapshot
  /\ Goes(s, "beating")
  /\ UNCHANGED <<manifest, registered, lock, startupDone, loop, close, beats, serve>>

\* The request may have reached the platform all the same.
MayKnow(snapshot) == known' \in {known, snapshot}

RegistrationFails(s) ==
  /\ starter[s].pc = "registering" /\ Failures # {}
  /\ MayKnow(starter[s].snapshot)
  /\ lock' = NoOne
  /\ Goes(s, "failed")
  /\ UNCHANGED <<manifest, lastRegistered, registered, startupDone, loop, close, beats, serve>>

\* The first heartbeat is answered: the loop, and start() is done.
Started(s) ==
  /\ starter[s].pc = "beating"
  /\ IF loop.pc \in Beating
       THEN UNCHANGED <<loop, beats>>
       ELSE /\ loop' = [pc |-> "sleeping", snapshot |-> NoManifest, auth |-> 0, other |-> 0,
                        by |-> s]
            /\ beats' = << >>
  /\ startupDone' = TRUE
  /\ lock' = NoOne
  /\ Goes(s, "done")
  /\ UNCHANGED <<manifest, lastRegistered, registered, close, known, serve>>

\* startup_failed: the registration is withdrawn before the error is raised.
FirstBeatFails(s) ==
  /\ starter[s].pc = "beating" /\ Failures # {}
  /\ IF registered
       THEN Goes(s, "deregistering") /\ UNCHANGED lock
       ELSE Goes(s, "failed") /\ lock' = NoOne
  /\ UNCHANGED <<manifest, lastRegistered, registered, startupDone, loop, close, known, beats, serve>>

\* Best effort: a failure is suppressed and the flag reset all the same.
Deregisters == known' = NoManifest \/ (Failures # {} /\ known' = known)

StartWithdrawn(s) ==
  /\ starter[s].pc = "deregistering"
  /\ Deregisters
  /\ registered' = FALSE
  /\ lock' = NoOne
  /\ Goes(s, "failed")
  /\ UNCHANGED <<manifest, lastRegistered, startupDone, loop, close, beats, serve>>

-----------------------------------------------------------------------------
(* _heartbeat_loop *)

\* Mutant: a manifest that changed is registered by the next refresh only.
WakeUnchecked ==
  /\ loop.pc = "sleeping" /\ Len(beats) < MaxBeats
  /\ \E due \in BOOLEAN :
       IF due
         THEN /\ loop' = [loop EXCEPT !.pc = "registering", !.snapshot = manifest]
              /\ registered' = TRUE
         ELSE /\ loop' = [loop EXCEPT !.pc = "beating", !.snapshot = manifest]
              /\ UNCHANGED registered
  /\ UNCHANGED <<manifest, lastRegistered, lock, startupDone, starter, close, known, beats, serve>>

\* _ensure_manifest_registered: first the manifest, when it changed or the
\* anti-entropy refresh is due.
Wake ==
  /\ loop.pc = "sleeping" /\ Len(beats) < MaxBeats
  /\ \/ /\ loop' = [loop EXCEPT !.pc = "registering", !.snapshot = manifest]
        /\ registered' = TRUE
     \/ /\ lastRegistered = manifest
        /\ loop' = [loop EXCEPT !.pc = "beating", !.snapshot = manifest]
        /\ UNCHANGED registered
  /\ UNCHANGED <<manifest, lastRegistered, lock, startupDone, starter, close, known, beats, serve>>

Refreshed ==
  /\ loop.pc = "registering"
  /\ known' = loop.snapshot
  /\ lastRegistered' = loop.snapshot
  /\ loop' = [loop EXCEPT !.pc = "beating"]
  /\ UNCHANGED <<manifest, registered, lock, startupDone, starter, close, beats, serve>>

Beat ==
  /\ loop.pc = "beating"
  /\ loop' = [loop EXCEPT !.pc = "sleeping", !.auth = 0, !.other = 0]
  /\ beats' = Append(beats, "ok")
  /\ UNCHANGED <<managerVars, starter, close, known, serve>>

\* Mutant: a failure of one kind leaves the count of the other.
MissedKeeping(kind) ==
  IF kind = "auth"
    THEN [loop EXCEPT !.auth = @ + 1, !.pc = IF loop.auth + 1 >= MaxAuth THEN "failed" ELSE "sleeping"]
    ELSE [loop EXCEPT !.other = @ + 1,
                      !.pc = IF loop.other + 1 >= MaxFailures THEN "failed" ELSE "sleeping"]

\* Consecutive means back to back of the same kind.
Missed(kind) ==
  IF kind = "auth"
    THEN [loop EXCEPT !.other = 0, !.auth = @ + 1,
                      !.pc = IF loop.auth + 1 >= MaxAuth THEN "failed" ELSE "sleeping"]
    ELSE [loop EXCEPT !.auth = 0, !.other = @ + 1,
                      !.pc = IF loop.other + 1 >= MaxFailures THEN "failed" ELSE "sleeping"]

BeatFails(kind) ==
  /\ loop.pc \in {"registering", "beating"}
  /\ IF loop.pc = "registering" THEN MayKnow(loop.snapshot) ELSE UNCHANGED known
  /\ loop' = Missed(kind)
  /\ beats' = Append(beats, kind)
  /\ UNCHANGED <<managerVars, starter, close, serve>>

-----------------------------------------------------------------------------
(* aclose *)

UnderWay == {s \in Starters : starter[s].pc \in Active}

AcloseStarts ==
  /\ close = "idle"
  /\ close' = "startup"
  /\ UNCHANGED <<managerVars, starter, loop, known, beats, serve>>

\* The startup task is there from __init__ on, before its first step.
StartupPending == AutoStart \in Starters /\ starter[AutoStart].pc \in Active \cup {"idle"}

\* CancelledError in the startup task, at the await it is suspended in.
CancelStartup ==
  /\ close = "startup"
  /\ StartupPending
  /\ CASE starter[AutoStart].pc = "registering" -> MayKnow(starter[AutoStart].snapshot)
       [] starter[AutoStart].pc = "deregistering" -> MayKnow(NoManifest)
       [] starter[AutoStart].pc \notin {"registering", "deregistering"} -> UNCHANGED known
  /\ lock' = IF lock = AutoStart THEN NoOne ELSE lock
  /\ Goes(AutoStart, "cancelled")
  /\ UNCHANGED <<manifest, lastRegistered, registered, startupDone, loop, close, beats, serve>>

StartupFailed == AutoStart \in Starters /\ starter[AutoStart].pc = "failed"

\* Mutant: the heartbeat is cancelled before the startup task is awaited.
StartupAwaitedLate ==
  /\ close = "startup"
  /\ IF StartupFailed THEN close' = "aborted" ELSE close' = "heartbeat"
  /\ UNCHANGED <<managerVars, starter, loop, known, beats, serve>>

\* Awaiting the startup task: it suppresses a cancellation, and raises the error
\* of a startup that failed.
StartupAwaited ==
  /\ close = "startup"
  /\ ~StartupPending
  /\ IF StartupFailed THEN close' = "aborted" ELSE close' = "heartbeat"
  /\ UNCHANGED <<managerVars, starter, loop, known, beats, serve>>

\* Mutant: a loop is cancelled in a request and not in its sleep.
CancelHeartbeatBusy ==
  /\ close = "heartbeat"
  /\ loop.pc \in {"registering", "beating"}
  /\ IF loop.pc = "registering" THEN MayKnow(loop.snapshot) ELSE UNCHANGED known
  /\ loop' = [loop EXCEPT !.pc = "cancelled"]
  /\ UNCHANGED <<managerVars, starter, close, beats, serve>>

CancelHeartbeat ==
  /\ close = "heartbeat"
  /\ loop.pc \in Beating
  /\ IF loop.pc = "registering" THEN MayKnow(loop.snapshot) ELSE UNCHANGED known
  /\ loop' = [loop EXCEPT !.pc = "cancelled"]
  /\ UNCHANGED <<managerVars, starter, close, beats, serve>>

\* Likewise: a loop that gave up raises its error here.
HeartbeatAwaited ==
  /\ close = "heartbeat"
  /\ loop.pc \notin Beating
  /\ IF loop.pc = "failed" THEN close' = "aborted" ELSE close' = "deregistering"
  /\ UNCHANGED <<managerVars, starter, loop, known, beats, serve>>

AcloseEnds ==
  /\ close = "deregistering"
  /\ IF registered THEN Deregisters ELSE UNCHANGED known
  /\ registered' = FALSE
  /\ startupDone' = FALSE
  /\ close' = "closed"
  /\ UNCHANGED <<manifest, lastRegistered, lock, starter, loop, beats, serve>>

-----------------------------------------------------------------------------
(* serve: start(), then until the stop event or the end of the heartbeat loop.   *)
(* Its on_stop is cleanup(), which is modelled once: by whomever it is called.  *)

Serve(pc) ==
  /\ serve' = pc
  /\ UNCHANGED <<managerVars, loop, known, beats>>

CallServe ==
  /\ serve = "idle" /\ starter[Server].pc = "idle"
  /\ Serve("starting")
  /\ Goes(Server, "waiting")
  /\ UNCHANGED close

ServeWaits ==
  /\ serve = "starting" /\ starter[Server].pc = "done"
  /\ Serve("waiting")
  /\ UNCHANGED <<starter, close>>

ServeStopped ==
  /\ serve = "waiting"
  /\ Serve("stopping")
  /\ UNCHANGED <<starter, close>>

\* Mutant: serve() waits for the stop event only.
HeartbeatUnseen == serve = "starting" /\ starter[Server].pc = "failed"
ServeFails ==
  \/ serve = "starting" /\ starter[Server].pc = "failed"
  \/ serve = "waiting" /\ loop.pc \in {"failed", "cancelled"}

\* The finally: a failed startup or loop ends in on_stop, too.
ServeCleansUp ==
  /\ serve = "stopping" \/ ServeFails
  /\ Serve("closing")
  /\ close' = IF close = "idle" THEN "startup" ELSE close
  /\ UNCHANGED starter

ServeEnds ==
  /\ serve = "closing" /\ close \in {"closed", "aborted"}
  /\ Serve("over")
  /\ UNCHANGED <<starter, close>>

-----------------------------------------------------------------------------
Starts(s) ==
  \/ AlreadyStarted(s)
  \/ Enter(s)
  \/ StartUnconnected(s)
  \/ Register(s)
  \/ Registered(s)
  \/ RegistrationFails(s)
  \/ Started(s)
  \/ FirstBeatFails(s)
  \/ StartWithdrawn(s)

Closes ==
  \/ CancelStartup
  \/ StartupAwaited
  \/ CancelHeartbeat
  \/ HeartbeatAwaited
  \/ AcloseEnds

Serves == ServeWaits \/ ServeCleansUp \/ ServeEnds

Next ==
  \/ RegisterTool
  \/ \E s \in Starters : CallStart(s) \/ Starts(s)
  \/ Wake
  \/ Refreshed
  \/ Beat
  \/ \E kind \in Failures : BeatFails(kind)
  \/ AcloseStarts
  \/ Closes
  \/ CallServe
  \/ ServeStopped
  \/ Serves

Spec == Init /\ [][Next]_vars

(* Requests settle and the event loop runs what is ready. *)
FairSpec == Spec /\ WF_vars(Closes) /\ WF_vars(Serves) /\ \A s \in Starters : WF_vars(Starts(s))

-----------------------------------------------------------------------------
(* Properties *)

TypeOK ==
  /\ manifest \in Manifests
  /\ lastRegistered \in Manifests \cup {NoManifest}
  /\ registered \in BOOLEAN
  /\ lock \in Starters \cup {NoOne}
  /\ startupDone \in BOOLEAN
  /\ starter \in [Starters -> [pc : Active \cup {"idle", "done", "failed", "cancelled"},
                               snapshot : Manifests \cup {NoManifest}]]
  /\ loop \in [pc : Beating \cup {"none", "failed", "cancelled"},
               snapshot : Manifests \cup {NoManifest},
               auth : 0 .. MaxAuth, other : 0 .. MaxFailures, by : Starters \cup {NoOne}]
  /\ close \in {"idle", "startup", "heartbeat", "deregistering", "closed", "aborted"}
  /\ serve \in {"idle", "starting", "waiting", "stopping", "closing", "over"}
  /\ known \in Manifests \cup {NoManifest}
  /\ beats \in Seq({"ok", "auth", "other"})

\* "Refresh the full manifest before heartbeats can reference it": until aclose()
\* withdraws it, the platform knows the manifest of every heartbeat it is sent,
\* through lost replies and tools registered between a registration and its beat.
BeatsReferenceKnown ==
  close # "closed" =>
    /\ \A s \in Starters : starter[s].pc = "beating" => known = starter[s].snapshot
    /\ loop.pc = "beating" => known = loop.snapshot

EndsWithRun(kind, n) ==
  /\ Len(beats) >= n
  /\ \A i \in Len(beats) - n + 1 .. Len(beats) : beats[i] = kind

\* The loop gives up after two rejections or three other failures back to back,
\* and after nothing else.
GivesUpOnStreak ==
  loop.pc # "none" =>
    (loop.pc = "failed" <=> EndsWithRun("auth", MaxAuth) \/ EndsWithRun("other", MaxFailures))

\* A registration the platform may hold is never forgotten before it has been
\* withdrawn: until aclose() or a failed startup has tried, the flag is up.
RegistrationRemembered ==
  known # NoManifest /\ ~registered =>
    close = "closed" \/ \E s \in Starters : starter[s].pc = "failed"

\* "Safe to call multiple times - will only start once": once a startup is done,
\* no other call of start() is on its way to a second one.
StartsOnce ==
  startupDone => \A s \in Starters : starter[s].pc \in Active => starter[s].pc = "waiting"

\* "Cancel the startup + heartbeat tasks and deregister": nothing of the startup
\* task goes on after aclose(), and no heartbeat loop of its making.
ClosedIsQuiet ==
  close = "closed" =>
    /\ AutoStart \notin UnderWay
    /\ loop.pc \in Beating => loop.by # AutoStart

\* aclose() comes to its end, a loop or a startup that failed before included.
CloseCompletes == close # "aborted"

\* aclose() does not wait for ever, whatever startup and heartbeat are doing, and
\* serve(), which runs the lifecycle "until stopped or lifecycle failure", gets to
\* it and through it when its start or the heartbeat loop fails.
CloseSettles ==
  /\ close = "startup" ~> close \in {"closed", "aborted"}
  /\ serve \notin {"idle", "over"} /\ "failed" \in {starter[Server].pc, loop.pc} ~> serve = "over"
=============================================================================
