------------------------------ MODULE Connection ------------------------------
(***************************************************************************)
(* How calls reach the platform: the sessions of HTTPTransport             *)
(* (src/src/dualeai/events/http_transport.py), CloudEventsClient           *)
(* (events/client.py), the SDK's single-flight connection and its cleanup  *)
(* (sdk.py), and the calls that answer with one reply: the operations of   *)
(* LibrariesClient (libraries.py), the wait for a document, the posts of   *)
(* the agent lifecycle.                                                    *)
(* A client is named by its number; so is the transport it makes. The      *)
(* transport an application injects has number 0.                          *)
(***************************************************************************)
EXTENDS Integers, FiniteSets

CONSTANTS
  Calls,    \* calls of Library operations
  Polls,    \* calls of wait_for_document
  Posts,    \* registrations, heartbeats and deregistrations
  Batch,    \* the call of upload_attachments
  Closer,   \* the caller of cleanup()
  NoCaller,
  Groups    \* bound: who takes part together

Callers == Calls \cup Polls \cup Posts \cup {Batch}
Clients == 1 .. 2   \* cleanup() runs once, so there is at most a second client
Transports == {0} \cup Clients
NoClient == 0

ASSUME CallersAssumption ==
  /\ Batch \notin Calls \cup Polls \cup Posts
  /\ Polls \cap Posts = {}
  /\ Closer \notin Callers /\ NoCaller \notin Callers \cup {Closer}

VARIABLES
  actors,
  injected,   \* the SDK was given its transport
  tenant,     \* the configuration has a tenant_id
  session,    \* per transport _session: "none", "stored" or "open"
  library,    \* per transport: there is a _library_session
  up,         \* per transport: _connected
  client,     \* _events_client, or NoClient
  made,       \* clients made
  bound,      \* per client: it has a _transport
  says,       \* per client: its _connected
  lock,       \* the holder of _events_client_lock
  pc,         \* where each call is
  held,       \* the client a call works with
  resolved,   \* the batch knows its Library
  document,   \* the state of the document that is waited for
  stage,      \* how far cleanup() is
  live,       \* history: HPKE sessions entered and not left
  broken,     \* history: transports an entry or exit of which failed
  cold,       \* history: calls that were handed a client that is not connected
  outlived    \* history: calls whose client cleanup() disconnected

transportVars == <<session, library, up, live, broken>>
clientVars == <<client, made, bound, says, lock>>
callVars == <<pc, held, resolved, cold>>
fixedVars == <<actors, injected, tenant>>
connectionVars ==
  <<transportVars, clientVars, callVars, fixedVars, document, stage, outlived>>

Final == {"ready", "failed"}
Errors == {"auth", "business", "connection"}
Over == Errors \cup {"answered", "raw", "runtime", "configuration", "timeout",
                     "cancelled", "invalid", "no agent", "upload"}

ConnectionInit ==
  /\ actors \in Groups
  /\ injected \in BOOLEAN
  /\ tenant \in BOOLEAN
  /\ \E connected \in IF injected THEN BOOLEAN ELSE {FALSE} :
       /\ session = [t \in Transports |-> IF connected /\ t = 0 THEN "open" ELSE "none"]
       /\ library = [t \in Transports |-> connected /\ t = 0]
       /\ up = [t \in Transports |-> connected /\ t = 0]
       /\ live = IF connected THEN 1 ELSE 0
  /\ client = NoClient /\ made = 0
  /\ bound = [g \in Clients |-> FALSE]
  /\ says = [g \in Clients |-> FALSE]
  /\ lock = NoCaller
  /\ pc = [c \in Callers |-> "idle"]
  /\ held = [c \in Callers |-> NoClient]
  /\ resolved = FALSE
  /\ document = "queued"
  /\ stage = "none"
  /\ broken = {} /\ cold = {} /\ outlived = {}

TransportOf(g) == IF injected THEN 0 ELSE g

\* is_connected of a transport, and of a client.
IsUp(t) == session[t] # "none" /\ library[t] /\ up[t]
IsConnected(g) == says[g] /\ bound[g] /\ IsUp(TransportOf(g))

-----------------------------------------------------------------------------
(* What a call does with the client it is handed, without a suspension *)

\* Where a request gets to when its transport is connected or is not.
Request(c, isUp) ==
  CASE ~isUp -> "connection"
    [] isUp /\ c \notin Posts /\ ~tenant -> "configuration"
    [] OTHER -> "asking"

Begins(c, g, isUp) ==
  /\ held' = [held EXCEPT ![c] = g]
  /\ cold' = IF isUp THEN cold ELSE cold \cup {c}
  /\ pc' = [pc EXCEPT ![c] = IF c = Batch /\ resolved THEN "uploading" ELSE Request(c, isUp)]
  /\ UNCHANGED resolved

Ends(c, how) ==
  /\ pc' = [pc EXCEPT ![c] = how]
  /\ UNCHANGED <<held, resolved, cold>>

-----------------------------------------------------------------------------
(* DualeAISDK._ensure_events_client *)

Rest == UNCHANGED <<fixedVars, document, stage, outlived>>

\* The batch asks twice: for its Library, and then to upload.
Ensure(c) ==
  /\ pc[c] \in {"idle", "resolved"} /\ c \in actors
  /\ IF client # NoClient /\ IsConnected(client)
     THEN Begins(c, client, TRUE)
     ELSE Ends(c, "locking")
  /\ Rest /\ UNCHANGED <<transportVars, clientVars>>

\* Mutant: a connection without the lock.
Unlocked == TRUE
LockFree == lock = NoCaller

Current == IF client = NoClient THEN made + 1 ELSE client

\* A new client keeps the injected transport, or has none yet.
MakesClient ==
  /\ client' = Current
  /\ made' = IF client = NoClient THEN made + 1 ELSE made
  /\ bound' = IF client = NoClient THEN [bound EXCEPT ![Current] = injected] ELSE bound

\* CloudEventsClient.connect on an injected transport that needs no entry: one
\* that is connected, or whose connect() returns because a session is stored.
Connectionless(c) ==
  LET isUp == IsUp(TransportOf(Current)) IN
  /\ IsConnected(Current) \/ (bound'[Current] /\ session[TransportOf(Current)] # "none")
  /\ says' = [says EXCEPT ![Current] = TRUE]
  /\ Begins(c, Current, isUp)
  /\ UNCHANGED <<transportVars, lock>>

\* HTTPTransport.connect stores the session, and then enters it.
Enters(c) ==
  /\ ~(bound'[Current] /\ session[TransportOf(Current)] # "none")
  /\ session' = [session EXCEPT ![TransportOf(Current)] = "stored"]
  /\ lock' = c
  /\ Ends(c, "connecting")
  /\ UNCHANGED <<library, up, live, broken, says>>

Locks(c) ==
  /\ pc[c] = "locking" /\ LockFree
  /\ MakesClient
  /\ Connectionless(c) \/ Enters(c)
  /\ Rest

Connected(c) ==
  LET t == TransportOf(client) IN
  /\ pc[c] = "connecting"
  /\ session' = [session EXCEPT ![t] = "open"]
  /\ library' = [library EXCEPT ![t] = TRUE]
  /\ up' = [up EXCEPT ![t] = TRUE]
  /\ live' = live + 1
  /\ bound' = [bound EXCEPT ![client] = TRUE]
  /\ says' = [says EXCEPT ![client] = TRUE]
  /\ lock' = NoCaller
  /\ Begins(c, client, TRUE)
  /\ Rest /\ UNCHANGED <<client, made, broken>>

\* Mutant: the client keeps the transport it made although its entry failed.
EntryEndsKept(c) ==
  LET t == TransportOf(client) IN
  /\ session' = [session EXCEPT ![t] = "stored"]
  /\ bound' = [bound EXCEPT ![client] = TRUE]
  /\ broken' = broken \cup {t}
  /\ lock' = NoCaller
  /\ UNCHANGED <<library, up, live, client, made, says>>

\* Mutant: the lock is not released when the entry fails.
EntryEndsLocked(c) ==
  LET t == TransportOf(client) IN
  /\ session' = [session EXCEPT ![t] = IF injected THEN "stored" ELSE "none"]
  /\ broken' = broken \cup {t}
  /\ UNCHANGED <<library, up, live, client, made, bound, says, lock>>

\* The session of a transport that was injected stays stored; a transport the
\* client made itself is dropped.
EntryEnds(c) ==
  LET t == TransportOf(client) IN
  /\ session' = [session EXCEPT ![t] = IF injected THEN "stored" ELSE "none"]
  /\ broken' = broken \cup {t}
  /\ lock' = NoCaller
  /\ UNCHANGED <<library, up, live, client, made, bound, says>>

EntryFails(c) ==
  /\ pc[c] = "connecting"
  /\ EntryEnds(c)
  /\ Ends(c, "connection")
  /\ Rest

-----------------------------------------------------------------------------
(* Replies *)

Causes == {"status 401", "status 400", "status 500", "malformed", "lost"}

\* _raise_for_http_status, and a reply that does not match its schema.
StatusError(cause) ==
  CASE cause = "status 401" -> "HTTPTransportAuthError"
    [] cause = "status 400" -> "HTTPTransportResponseError"
    [] OTHER -> "HTTPTransportConnectionError"

\* Mutant: the request of a Library operation lets the errors of aiohttp through.
LetsThrough(cause) == IF cause = "lost" THEN "aiohttp.ClientError" ELSE StatusError(cause)

\* Library operations and stop_task.
LibraryError(cause) == StatusError(cause)

\* The posts of the lifecycle do let them through.
PostError(cause) == IF cause = "lost" THEN "aiohttp.ClientError" ELSE StatusError(cause)

\* _raise_translated: the SDK's error.
Translated(error) ==
  CASE error = "HTTPTransportAuthError" -> "auth"
    [] error = "HTTPTransportResponseError" -> "business"
    [] error = "HTTPTransportConnectionError" -> "connection"
    [] OTHER -> "raw"   \* not a transport error, so not translated

\* The reply to a poll is final, or there is another after a pause; the Library
\* of the batch is known.
Answered(c) ==
  /\ pc[c] = "asking"
  /\ pc' = [pc EXCEPT ![c] =
       CASE c \in Polls /\ document \notin Final -> "sleeping"
         [] c = Batch -> "resolved"
         [] OTHER -> "answered"]
  /\ resolved' = (resolved \/ c = Batch)
  /\ Rest /\ UNCHANGED <<transportVars, clientVars, held, cold>>

Refused(c) ==
  /\ pc[c] = "asking"
  /\ \E cause \in Causes :
       Ends(c, Translated(IF c \in Posts THEN PostError(cause) ELSE LibraryError(cause)))
  /\ Rest /\ UNCHANGED <<transportVars, clientVars>>

\* A poll asks the client for its transport anew each time.
PollsAgain(c) ==
  /\ pc[c] = "sleeping"
  /\ Ends(c, IF bound[held[c]] THEN Request(c, IsUp(TransportOf(held[c]))) ELSE "runtime")
  /\ Rest /\ UNCHANGED <<transportVars, clientVars>>

\* The deadline of wait_for_document, or the caller's own cancellation.
Interrupted(c) ==
  /\ pc[c] \in {"locking", "connecting", "asking", "sleeping"}
  /\ Ends(c, IF c \in Polls THEN "timeout" ELSE "cancelled")
  /\ IF pc[c] = "connecting" THEN EntryEnds(c) ELSE UNCHANGED <<transportVars, clientVars>>
  /\ Rest

Ingested ==
  /\ document = "queued" /\ Polls \cap actors # {}
  /\ document' \in Final
  /\ UNCHANGED <<transportVars, clientVars, callVars, fixedVars, stage, outlived>>

-----------------------------------------------------------------------------
(* The connection's part of DualeAISDK.cleanup *)

Drops ==
  /\ client' = NoClient
  /\ stage' = "closed"

\* CloudEventsClient.disconnect does nothing when its transport is not connected.
CloseStarts ==
  LET t == TransportOf(client) IN
  /\ stage = "none" /\ Closer \in actors /\ lock = NoCaller
  /\ IF client # NoClient /\ bound[client] /\ IsUp(t)
     THEN /\ up' = [up EXCEPT ![t] = FALSE]
          /\ lock' = Closer
          /\ stage' = "library"
          /\ UNCHANGED client
     ELSE Drops /\ UNCHANGED <<up, lock>>
  /\ UNCHANGED <<session, library, live, broken, made, bound, says, callVars, fixedVars,
                 document, outlived>>

LibraryCloses ==
  /\ stage = "library"
  /\ library' = [library EXCEPT ![TransportOf(client)] = FALSE]
  /\ stage' = "session"
  /\ UNCHANGED <<session, up, live, broken, clientVars, callVars, fixedVars, document, outlived>>

\* An exit that fails leaves the session stored; it is left in any case.
SessionCloses ==
  LET t == TransportOf(client) IN
  /\ stage = "session"
  /\ \/ /\ session' = [session EXCEPT ![t] = "none"]
        /\ UNCHANGED broken
     \/ /\ session' = [session EXCEPT ![t] = "stored"]
        /\ broken' = broken \cup {t}
  /\ live' = live - 1
  /\ bound' = [bound EXCEPT ![client] = FALSE]
  /\ says' = [says EXCEPT ![client] = FALSE]
  /\ outlived' = {c \in Callers : held[c] = client}
  /\ Drops
  /\ lock' = NoCaller
  /\ UNCHANGED <<library, up, made, callVars, fixedVars, document>>

Close == CloseStarts \/ LibraryCloses \/ SessionCloses

Call(c) ==
  \/ Ensure(c) \/ Locks(c) \/ Connected(c) \/ EntryFails(c)
  \/ Answered(c) \/ Refused(c) \/ PollsAgain(c) \/ Interrupted(c)

-----------------------------------------------------------------------------
(* Properties *)

ConnectionTypeOK ==
  /\ session \in [Transports -> {"none", "stored", "open"}]
  /\ library \in [Transports -> BOOLEAN] /\ up \in [Transports -> BOOLEAN]
  /\ client \in {NoClient} \cup Clients /\ made \in {0} \cup Clients
  /\ bound \in [Clients -> BOOLEAN] /\ says \in [Clients -> BOOLEAN]
  /\ lock \in Callers \cup {Closer, NoCaller}
  /\ pc \in [Callers -> Over \cup {"idle", "locking", "connecting", "asking", "sleeping",
                                   "resolved", "uploading"}]
  /\ stage \in {"none", "library", "session", "closed"}

\* No HPKE session is lost: those that were entered and not left are the open
\* ones, there is one at most, and none when the SDK has no client. The lock
\* around the first connection and cleanup() keep it so (sdk.py:396, 1757).
SessionsAccounted ==
  /\ live = Cardinality({t \in Transports : session[t] = "open"})
  /\ live <= 1
  /\ client = NoClient /\ made > 0 => live = 0

\* A call is handed a client that is not connected only where the application
\* injected the transport and an entry or exit of its session failed: connect()
\* then returns early for ever (http_transport.py:329, client.py:149). A
\* transport of the client's own recovers with the next call.
HandsOutConnected ==
  /\ cold # {} => injected /\ 0 \in broken
  /\ 0 \in broken => ~IsUp(0)

\* A Library operation ends with an answer or an error of the SDK; an error of
\* aiohttp reaches only the posts of the lifecycle (http_transport.py:677), and
\* the RuntimeError of a client without a transport only a poll that cleanup()
\* overtook (libraries.py:172).
ErrorsTranslated ==
  \A c \in Callers :
    /\ pc[c] = "raw" => c \in Posts
    /\ pc[c] = "runtime" => c \in Polls \cap outlived
=============================================================================
