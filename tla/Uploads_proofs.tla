---------------------------- MODULE Uploads_proofs ----------------------------
(***************************************************************************)
(* Proofs about Uploads and the connection below it, for any callers, any  *)
(* batch and any limits.                                                   *)
(***************************************************************************)
EXTENDS Uploads, FiniteSetTheorems, TLAPS

Closing == stage \in {"library", "session"}
Entering == lock \in Callers

\* Types the invariants of the model leave open.
ConnectionTypes ==
  /\ ConnectionTypeOK
  /\ injected \in BOOLEAN
  /\ held \in [Callers -> {NoClient} \cup Clients]

\* Clients are made one after the other, the second only after cleanup().
ClientsCounted ==
  /\ stage # "closed" => client = made /\ made <= 1
  /\ stage = "closed" => client = made \/ (client = NoClient /\ made <= 1)
  /\ \A g \in Clients : g > made => ~bound[g]
  /\ injected /\ client # NoClient => bound[client]

\* The lock is held by the one caller that enters a session, or by cleanup().
LockHeld ==
  /\ \A c \in Callers : pc[c] = "connecting" <=> lock = c
  /\ lock = Closer <=> Closing
  /\ Entering =>
       /\ client # NoClient /\ session[TransportOf(client)] = "stored"
       /\ ~injected => ~bound[client]
  /\ Closing =>
       /\ client # NoClient /\ bound[client]
       /\ session[TransportOf(client)] = "open" /\ ~up[TransportOf(client)]

\* An open session belongs to the transport that was injected or to the client,
\* and is connected unless it is being closed.
SessionsOwned ==
  /\ \A t \in Transports :
       /\ up[t] => session[t] = "open"
       /\ session[t] = "open" =>
            /\ IF injected THEN t = 0 ELSE client # NoClient /\ t = client /\ bound[client]
            /\ Closing \/ (library[t] /\ up[t])
  /\ injected /\ client = NoClient /\ made > 0 => session[0] # "open"
  /\ ~injected => session[0] = "none"
  /\ ~injected /\ client # NoClient /\ bound[client] => session[client] = "open"

\* The number of sessions that are entered and not left.
LiveCounted == live = IF \E t \in Transports : session[t] = "open" THEN 1 ELSE 0

\* A session of the injected transport is stored and not open while it is being
\* entered, or for ever once an entry or an exit has failed.
StoredIsBroken ==
  /\ session[0] = "stored" /\ ~Entering => 0 \in broken
  /\ 0 \in broken => injected /\ session[0] = "stored" /\ ~Entering
  /\ cold # {} => injected /\ 0 \in broken

\* A call keeps its client, which has its transport until cleanup() closes it.
HeldIsBound ==
  /\ stage # "closed" => outlived = {}
  /\ \A c \in Callers :
       /\ held[c] <= made
       /\ held[c] # NoClient /\ ~bound[held[c]] => c \in outlived
       /\ pc[c] \in {"asking", "sleeping"} => held[c] # NoClient
       /\ pc[c] = "sleeping" => c \in Polls

ConnInv ==
  /\ ConnectionTypes /\ ClientsCounted /\ LockHeld /\ SessionsOwned /\ LiveCounted
  /\ StoredIsBroken /\ HeldIsBound /\ ErrorsTranslated

-----------------------------------------------------------------------------
(* The files of the batch *)

\* Attachments are taken in their order, and the others wait.
TakenInOrder == \A a \in Attachments : file[a] = "waiting" <=> a > taken

\* A document exists only for an attachment that came to its creation, whole.
CreatedWhole ==
  \A a \in Attachments :
    /\ documents[a] \in {0, 1}
    /\ documents[a] = 1 => file[a] \in {"created", "done", "failed"} /\ Whole(a)
    /\ file[a] \in {"created", "done"} => documents[a] = 1
    /\ file[a] \in {"creating", "created", "done"} => Whole(a)

\* A receipt is there for what is done; a document without one is being received
\* or was cut off.
ReceiptsOfDone ==
  /\ \A a \in Attachments : a \in receipts <=> file[a] = "done"
  /\ \A a \in Attachments : documents[a] = 1 /\ file[a] = "failed" => a \in unsure

\* Nothing is reported before the batch is over, and nothing works after that.
ReportInv ==
  /\ reported \subseteq receipts
  /\ pc[Batch] = "answered" => reported = Attachments
  /\ pc[Batch] = "upload" => reported = receipts /\ Working = {}

\* The part of TypeOK that is the batch's own.
BatchTypes ==
  /\ taken \in 0 .. Len(Sizes)
  /\ file \in [Attachments -> {"waiting", "opening", "moving", "draining", "creating",
                               "created", "done", "failed"}]
  /\ digest \in [Attachments -> {"none", "reading", "stopping", "read", "failed"}]
  /\ part \in [Parts -> {"none", "queued", "putting", "stopping", "put", "failed"}]
  /\ error \in {"none", "upload", "transport", "cancelled"} /\ torn \in BOOLEAN
  /\ receipts \subseteq Attachments /\ reported \subseteq Attachments

\* A part that waits for a place has an attempt left.
PutsBounded ==
  /\ puts \in [Parts -> 0 .. MaxPuts]
  /\ \A p \in Parts : part[p] = "queued" => puts[p] < MaxPuts

\* Nothing of an attachment runs before it is opened, nothing starts while it
\* drains, and nothing runs on when it has failed.
FileQuiet(a) ==
  /\ file[a] \in {"waiting", "opening"} =>
       digest[a] = "none" /\ \A p \in Own(a) : part[p] = "none" /\ puts[p] = 0
  /\ file[a] \in {"draining", "failed"} =>
       digest[a] # "reading" /\ \A p \in Own(a) : part[p] \notin {"queued", "putting"}
  /\ file[a] = "failed" =>
       digest[a] # "stopping" /\ \A p \in Own(a) : part[p] # "stopping"

QuietInv ==
  /\ Cardinality(Putting) <= Limit /\ Cardinality(Working) <= Limit
  /\ PutsBounded
  /\ \A a \in Attachments : FileQuiet(a)
  /\ pc[Batch] # "uploading" => Working = {}

BatchInv ==
  /\ BatchTypes
  /\ documents \in [Attachments -> Nat] /\ unsure \subseteq Attachments
  /\ TakenInOrder /\ CreatedWhole /\ ReceiptsOfDone /\ ReportInv

-----------------------------------------------------------------------------
(* The connection: steps that change what one call does *)

PcStates ==
  Over \cup {"idle", "locking", "connecting", "asking", "sleeping", "resolved", "uploading"}

\* A call moves on without entering or leaving a session; the client it is handed
\* has a transport.
LEMMA QuietStep ==
  ASSUME ConnInv, NEW c \in Callers, NEW how \in PcStates \ {"connecting"},
         UNCHANGED <<transportVars, clientVars, fixedVars, stage, outlived>>,
         pc[c] # "connecting",
         pc' = [pc EXCEPT ![c] = how],
         cold' = cold,
         \/ held' = held
         \/ held' = [held EXCEPT ![c] = client] /\ client # NoClient /\ bound[client],
         how \in {"asking", "sleeping"} => held'[c] # NoClient,
         how = "sleeping" => c \in Polls,
         how = "raw" => c \in Posts,
         how = "runtime" => c \in Polls \cap outlived
  PROVE  ConnInv'
<1> USE DEF transportVars, clientVars, fixedVars
<1>1. /\ pc \in [Callers -> PcStates] /\ held \in [Callers -> {NoClient} \cup Clients]
      /\ lock # c /\ client \in {NoClient} \cup Clients
      /\ client = made \/ client = NoClient
      /\ made \in {0} \cup Clients
  BY DEF ConnInv, ConnectionTypes, ConnectionTypeOK, PcStates, LockHeld, ClientsCounted
<1>2. pc' \in [Callers -> PcStates] /\ held' \in [Callers -> {NoClient} \cup Clients]
  BY <1>1
<1>3. ConnectionTypes'
  BY <1>2 DEF ConnInv, ConnectionTypes, ConnectionTypeOK, PcStates
<1>4. ClientsCounted'
  BY DEF ConnInv, ClientsCounted
<1>5. LockHeld'
  BY <1>1 DEF ConnInv, LockHeld, Closing, Entering, TransportOf
<1>6. SessionsOwned' /\ LiveCounted' /\ StoredIsBroken'
  BY DEF ConnInv, SessionsOwned, LiveCounted, StoredIsBroken, Closing, Entering
<1>7. HeldIsBound'
  <2>1. \A d \in Callers : /\ held'[d] = held[d] \/ (held'[d] = client /\ client # NoClient /\ bound[client])
                           /\ d # c => pc'[d] = pc[d] /\ held'[d] = held[d]
    BY <1>1
  <2>2. client <= made
    BY <1>1 DEF Clients, NoClient
  <2> QED
    BY <1>1, <2>1, <2>2 DEF ConnInv, HeldIsBound
<1>8. ErrorsTranslated'
  BY <1>1 DEF ConnInv, ErrorsTranslated
<1> QED
  BY <1>3, <1>4, <1>5, <1>6, <1>7, <1>8 DEF ConnInv

\* Where the connection is left alone nothing changes.
LEMMA SameStep ==
  ASSUME ConnInv,
         UNCHANGED <<transportVars, clientVars, callVars, fixedVars, stage, outlived>>
  PROVE  ConnInv'
  BY DEF ConnInv, transportVars, clientVars, callVars, fixedVars, ConnectionTypes,
     ConnectionTypeOK, ClientsCounted, LockHeld, SessionsOwned, LiveCounted, StoredIsBroken,
     HeldIsBound, ErrorsTranslated, Closing, Entering, TransportOf

LEMMA RequestType ==
  ASSUME NEW c, NEW isUp \in BOOLEAN
  PROVE  Request(c, isUp) \in {"connection", "configuration", "asking"}
  BY DEF Request

LEMMA TranslatedType ==
  ASSUME NEW cause \in Causes
  PROVE  /\ Translated(LibraryError(cause)) \in Errors
         /\ Translated(PostError(cause)) \in Errors \cup {"raw"}
<1>1. StatusError(cause) \in {"HTTPTransportAuthError", "HTTPTransportResponseError",
                              "HTTPTransportConnectionError"}
  BY DEF StatusError
<1> QED
  BY <1>1 DEF LibraryError, PostError, Translated, Errors

\* A connected client has a transport with an open session.
LEMMA EnsureStep ==
  ASSUME ConnInv, NEW c \in Callers, Ensure(c)
  PROVE  ConnInv'
<1>1. UNCHANGED <<transportVars, clientVars, fixedVars, stage, outlived>>
  BY DEF Ensure, Rest, fixedVars
<1>2. pc[c] # "connecting"
  BY DEF Ensure
<1>3. CASE client # NoClient /\ IsConnected(client)
  <2>1. Begins(c, client, TRUE)
    BY <1>3 DEF Ensure
  <2>2. Request(c, TRUE) \in PcStates \ {"connecting", "sleeping", "raw", "runtime"}
    BY RequestType DEF PcStates, Over, Errors
  <2> DEFINE how == IF c = Batch /\ resolved THEN "uploading" ELSE Request(c, TRUE)
  <2>3. /\ pc' = [pc EXCEPT ![c] = how]
        /\ held' = [held EXCEPT ![c] = client] /\ cold' = cold
    BY <2>1 DEF Begins
  <2>4. how \in PcStates \ {"connecting", "sleeping", "raw", "runtime"}
    BY <2>2 DEF PcStates
  <2>5. held \in [Callers -> {NoClient} \cup Clients]
    BY DEF ConnInv, ConnectionTypes
  <2> HIDE DEF how
  <2> QED
    BY <1>1, <1>2, <1>3, <2>3, <2>4, <2>5, QuietStep DEF IsConnected
<1>4. CASE ~(client # NoClient /\ IsConnected(client))
  <2>1. pc' = [pc EXCEPT ![c] = "locking"] /\ held' = held /\ cold' = cold
    BY <1>4 DEF Ensure, Ends
  <2> QED
    BY <1>1, <1>2, <2>1, QuietStep DEF PcStates
<1> QED
  BY <1>3, <1>4

LEMMA AnsweredStep ==
  ASSUME ConnInv, NEW c \in Callers, Answered(c)
  PROVE  ConnInv'
<1>1. UNCHANGED <<transportVars, clientVars, fixedVars, stage, outlived, held, cold>>
  BY DEF Answered, Rest, fixedVars
<1>2. pc[c] = "asking" /\ held[c] # NoClient
  BY DEF Answered, ConnInv, HeldIsBound
<1>3. PICK how \in {"sleeping", "resolved", "answered"} :
        pc' = [pc EXCEPT ![c] = how] /\ (how = "sleeping" => c \in Polls)
  <2>1. CASE c \in Polls /\ document \notin Final
    <3>1. c # Batch
      BY <2>1, CallersAssumption
    <3> QED
      BY <2>1, <3>1 DEF Answered
  <2>2. CASE c = Batch
    <3>1. c \notin Polls
      BY <2>2, CallersAssumption
    <3> QED
      BY <2>2, <3>1 DEF Answered
  <2>3. CASE ~(c \in Polls /\ document \notin Final) /\ c # Batch
    BY <2>3 DEF Answered
  <2> QED
    BY <2>1, <2>2, <2>3
<1>4. how \in PcStates \ {"connecting", "raw", "runtime"}
  BY DEF PcStates, Over
<1> QED
  BY <1>1, <1>2, <1>3, <1>4, QuietStep

LEMMA RefusedStep ==
  ASSUME ConnInv, NEW c \in Callers, Refused(c)
  PROVE  ConnInv'
<1>1. UNCHANGED <<transportVars, clientVars, fixedVars, stage, outlived, held, cold>>
  BY DEF Refused, Rest, fixedVars, Ends
<1>2. pc[c] = "asking"
  BY DEF Refused
<1>3. PICK cause \in Causes :
        Ends(c, Translated(IF c \in Posts THEN PostError(cause) ELSE LibraryError(cause)))
  BY DEF Refused
<1> DEFINE how == Translated(IF c \in Posts THEN PostError(cause) ELSE LibraryError(cause))
<1>4. how \in Errors \cup {"raw"} /\ (how = "raw" => c \in Posts)
  BY TranslatedType DEF Errors
<1>5. pc' = [pc EXCEPT ![c] = how]
  BY <1>3 DEF Ends
<1> HIDE DEF how
<1>6. how \in PcStates \ {"connecting", "asking", "sleeping", "runtime"}
  BY <1>4 DEF PcStates, Over, Errors
<1> QED
  BY <1>1, <1>2, <1>4, <1>5, <1>6, QuietStep

\* Only a client that cleanup() disconnected has no transport for a poll.
LEMMA PollsAgainStep ==
  ASSUME ConnInv, NEW c \in Callers, PollsAgain(c)
  PROVE  ConnInv'
<1>1. UNCHANGED <<transportVars, clientVars, fixedVars, stage, outlived, held, cold>>
  BY DEF PollsAgain, Rest, fixedVars, Ends
<1>2. pc[c] = "sleeping" /\ c \in Polls /\ held[c] # NoClient
  BY DEF PollsAgain, ConnInv, HeldIsBound
<1> DEFINE how == IF bound[held[c]] THEN Request(c, IsUp(TransportOf(held[c]))) ELSE "runtime"
<1>3. pc' = [pc EXCEPT ![c] = how]
  BY DEF PollsAgain, Ends
<1>4. CASE bound[held[c]]
  <2>1. IsUp(TransportOf(held[c])) \in BOOLEAN
    BY DEF IsUp, ConnInv, ConnectionTypes, ConnectionTypeOK, TransportOf, Transports
  <2>2. how \in {"connection", "configuration", "asking"}
    BY <1>4, <2>1, RequestType
  <2> HIDE DEF how
  <2> QED
    BY <1>1, <1>2, <1>3, <2>2, QuietStep DEF PcStates, Over, Errors
<1>5. CASE ~bound[held[c]]
  <2>1. how = "runtime"
    BY <1>5
  <2>2. c \in outlived
    BY <1>2, <1>5 DEF ConnInv, HeldIsBound
  <2> HIDE DEF how
  <2> QED
    BY <1>1, <1>2, <1>3, <2>1, <2>2, QuietStep DEF PcStates, Over
<1> QED
  BY <1>4, <1>5

-----------------------------------------------------------------------------
(* Entering a session *)

\* The client a caller works with once it holds the lock.
LEMMA ClientMade ==
  ASSUME ConnInv, lock = NoCaller, MakesClient
  PROVE  /\ client' \in Clients /\ client' = Current /\ client' = made' /\ made <= made'
         /\ bound' \in [Clients -> BOOLEAN]
         /\ \A g \in Clients : bound[g] => bound'[g]
         /\ \A g \in Clients : g > made' => ~bound'[g]
         /\ injected => bound'[client']
         /\ ~injected /\ bound'[client'] => client # NoClient /\ client' = client /\ bound[client]
         /\ client # NoClient => client' = client
         /\ stage # "closed" => made' <= 1
<1>1. /\ bound \in [Clients -> BOOLEAN] /\ made \in {0} \cup Clients /\ injected \in BOOLEAN
      /\ client \in {NoClient} \cup Clients
      /\ ClientsCounted
  BY DEF ConnInv, ConnectionTypes, ConnectionTypeOK
<1> USE DEF Clients, NoClient
<1>2. CASE client = NoClient
  <2>1. made + 1 \in Clients /\ (stage # "closed" => made = 0)
    BY <1>1, <1>2 DEF ClientsCounted
  <2>2. client' = made + 1 /\ made' = made + 1 /\ bound' = [bound EXCEPT ![made + 1] = injected]
    BY <1>2 DEF MakesClient, Current
  <2>3. ~bound[made + 1]
    BY <1>1, <2>1 DEF ClientsCounted
  <2>4. bound'[made + 1] = injected /\ \A g \in Clients \ {made + 1} : bound'[g] = bound[g]
    BY <1>1, <2>1, <2>2
  <2>5. bound' \in [Clients -> BOOLEAN]
    BY <1>1, <2>2
  <2> QED
    BY <1>1, <1>2, <2>1, <2>2, <2>3, <2>4, <2>5 DEF ClientsCounted, Current
<1>3. CASE client # NoClient
  <2>1. client' = client /\ made' = made /\ bound' = bound
    BY <1>3 DEF MakesClient, Current
  <2> QED
    BY <1>1, <1>3, <2>1 DEF ClientsCounted, Current
<1> QED
  BY <1>2, <1>3

\* With the lock free nothing is being entered or closed.
LEMMA LockFreeFacts ==
  ASSUME ConnInv, lock = NoCaller
  PROVE  ~Closing /\ ~Entering /\ \A d \in Callers : pc[d] # "connecting"
  BY CallersAssumption DEF ConnInv, LockHeld, Entering

\* A client of the SDK's own that has a transport has an open session that is up.
LEMMA OwnIsUp ==
  ASSUME ConnInv, lock = NoCaller, ~injected, client # NoClient, bound[client]
  PROVE  IsUp(TransportOf(client))
<1>1. client \in Transports /\ ~Closing
  BY LockFreeFacts DEF ConnInv, ConnectionTypes, ConnectionTypeOK, NoClient, Transports
<1> QED
  BY <1>1 DEF ConnInv, SessionsOwned, IsUp, TransportOf

LEMMA ConnectionlessStep ==
  ASSUME ConnInv, NEW c \in Callers, pc[c] = "locking", lock = NoCaller, MakesClient,
         Connectionless(c), Rest
  PROVE  ConnInv'
<1> DEFINE isUp == IsUp(TransportOf(Current))
<1>1. /\ UNCHANGED <<transportVars, lock, fixedVars, stage, outlived>>
      /\ says' = [says EXCEPT ![Current] = TRUE]
      /\ Begins(c, Current, isUp)
      /\ IsConnected(Current) \/ (bound'[Current] /\ session[TransportOf(Current)] # "none")
  BY DEF Connectionless, Rest
<1>2. /\ client' \in Clients /\ client' = Current /\ client' = made' /\ made <= made'
      /\ bound' \in [Clients -> BOOLEAN]
      /\ \A g \in Clients : bound[g] => bound'[g]
      /\ \A g \in Clients : g > made' => ~bound'[g]
      /\ injected => bound'[client']
      /\ ~injected /\ bound'[client'] => client # NoClient /\ client' = client /\ bound[client]
      /\ client # NoClient => client' = client
      /\ stage # "closed" => made' <= 1
  BY ClientMade
<1>3. ~Closing /\ ~Entering /\ \A d \in Callers : pc[d] # "connecting"
  BY LockFreeFacts
<1>4. /\ pc \in [Callers -> PcStates] /\ held \in [Callers -> {NoClient} \cup Clients]
      /\ says \in [Clients -> BOOLEAN] /\ made \in {0} \cup Clients /\ injected \in BOOLEAN
      /\ session \in [Transports -> {"none", "stored", "open"}]
  BY DEF ConnInv, ConnectionTypes, ConnectionTypeOK, PcStates
<1>5. bound'[client']
  BY <1>1, <1>2 DEF IsConnected
<1>6. ~isUp => injected /\ 0 \in broken
  <2> SUFFICES ASSUME ~isUp PROVE injected /\ 0 \in broken
    OBVIOUS
  <2>1. session[TransportOf(Current)] # "none"
    BY <1>1 DEF IsConnected
  <2>2. injected
    BY <1>2, <1>5, OwnIsUp
  <2>3. TransportOf(Current) = 0 /\ 0 \in Transports
    BY <2>2 DEF TransportOf, Transports
  <2>4. session[0] # "open"
    BY <1>3, <2>3 DEF ConnInv, SessionsOwned, IsUp
  <2> QED
    BY <1>3, <1>4, <2>1, <2>2, <2>3, <2>4 DEF ConnInv, StoredIsBroken
<1> DEFINE how == IF c = Batch /\ resolved THEN "uploading" ELSE Request(c, isUp)
<1>7. /\ pc' = [pc EXCEPT ![c] = how] /\ held' = [held EXCEPT ![c] = Current]
      /\ cold' = IF isUp THEN cold ELSE cold \cup {c}
  BY <1>1 DEF Begins
<1>8. how \in PcStates \ {"connecting", "sleeping", "raw", "runtime"}
  <2>1. isUp \in BOOLEAN
    BY <1>2 DEF IsUp, ConnInv, ConnectionTypes, ConnectionTypeOK, TransportOf, Transports
  <2>2. Request(c, isUp) \in {"connection", "configuration", "asking"}
    BY <2>1, RequestType
  <2> QED
    BY <2>2 DEF PcStates, Over, Errors
<1> HIDE DEF how, isUp
<1>9. /\ pc' \in [Callers -> PcStates] /\ held' \in [Callers -> {NoClient} \cup Clients]
      /\ pc'[c] = how /\ held'[c] = client'
      /\ \A d \in Callers \ {c} : pc'[d] = pc[d] /\ held'[d] = held[d]
  BY <1>2, <1>4, <1>7, <1>8
<1>10. ConnectionTypes'
  <2>1. says' \in [Clients -> BOOLEAN]
    BY <1>1, <1>4
  <2>2. made' \in {0} \cup Clients
    BY <1>2
  <2> QED
    BY <1>1, <1>2, <1>9, <2>1, <2>2
       DEF ConnInv, ConnectionTypes, ConnectionTypeOK, PcStates, transportVars, fixedVars
<1>11. ClientsCounted'
  BY <1>1, <1>2 DEF ConnInv, ClientsCounted, fixedVars, Clients, NoClient
<1>12. LockHeld'
  BY <1>1, <1>3, <1>8, <1>9, CallersAssumption DEF ConnInv, LockHeld, Closing, Entering
<1>13. SessionsOwned'
  <2>1. client' # NoClient
    BY <1>2 DEF Clients, NoClient
  <2> QED
    BY <1>1, <1>2, <2>1 DEF ConnInv, SessionsOwned, Closing, transportVars, fixedVars
<1>14. LiveCounted' /\ StoredIsBroken'
  BY <1>1, <1>6, <1>7 DEF ConnInv, LiveCounted, StoredIsBroken, Entering, transportVars, fixedVars
<1>15. HeldIsBound'
  <2>1. \A d \in Callers : held[d] <= made' /\ (held[d] # NoClient => held[d] \in Clients)
    BY <1>2, <1>4 DEF ConnInv, HeldIsBound, Clients, NoClient
  <2>2. client' # NoClient /\ client' <= made'
    BY <1>2 DEF Clients, NoClient
  <2> QED
    BY <1>1, <1>2, <1>5, <1>8, <1>9, <2>1, <2>2 DEF ConnInv, HeldIsBound
<1>16. ErrorsTranslated'
  BY <1>1, <1>8, <1>9 DEF ConnInv, ErrorsTranslated
<1> QED
  BY <1>10, <1>11, <1>12, <1>13, <1>14, <1>15, <1>16 DEF ConnInv

LEMMA EntersStep ==
  ASSUME ConnInv, NEW c \in Callers, pc[c] = "locking", lock = NoCaller, MakesClient,
         Enters(c), Rest
  PROVE  ConnInv'
<1> DEFINE t == TransportOf(Current)
<1>1. /\ UNCHANGED <<library, up, live, broken, says, fixedVars, stage, outlived, held, cold>>
      /\ session' = [session EXCEPT ![t] = "stored"]
      /\ lock' = c
      /\ pc' = [pc EXCEPT ![c] = "connecting"]
      /\ ~(bound'[Current] /\ session[t] # "none")
  BY DEF Enters, Rest, Ends
<1>2. /\ client' \in Clients /\ client' = Current /\ client' = made' /\ made <= made'
      /\ bound' \in [Clients -> BOOLEAN]
      /\ \A g \in Clients : bound[g] => bound'[g]
      /\ \A g \in Clients : g > made' => ~bound'[g]
      /\ injected => bound'[client']
      /\ ~injected /\ bound'[client'] => client # NoClient /\ client' = client /\ bound[client]
      /\ client # NoClient => client' = client
      /\ stage # "closed" => made' <= 1
  BY ClientMade
<1>3. ~Closing /\ ~Entering /\ \A d \in Callers : pc[d] # "connecting"
  BY LockFreeFacts
<1>4. /\ pc \in [Callers -> PcStates] /\ held \in [Callers -> {NoClient} \cup Clients]
      /\ made \in {0} \cup Clients /\ injected \in BOOLEAN
      /\ session \in [Transports -> {"none", "stored", "open"}]
      /\ client \in {NoClient} \cup Clients
  BY DEF ConnInv, ConnectionTypes, ConnectionTypeOK, PcStates
<1>5. t \in Transports /\ (injected => t = 0) /\ (~injected => t = client' /\ t # 0)
  BY <1>2 DEF TransportOf, Transports, Clients
<1>6. ~injected => ~bound'[client']
  <2> SUFFICES ASSUME ~injected, bound'[client'] PROVE FALSE
    OBVIOUS
  <2>1. client # NoClient /\ client' = client /\ bound[client]
    BY <1>2
  <2>2. session[t] = "open"
    BY <1>5, <2>1 DEF ConnInv, SessionsOwned
  <2> QED
    BY <1>1, <1>2, <2>2
<1>7. \A u \in Transports : session[u] # "open"
  <2> SUFFICES ASSUME NEW u \in Transports, session[u] = "open" PROVE FALSE
    OBVIOUS
  <2>1. CASE injected
    BY <1>1, <1>2, <1>5, <2>1 DEF ConnInv, SessionsOwned
  <2>2. CASE ~injected
    <3>1. client # NoClient /\ bound[client]
      BY <2>2 DEF ConnInv, SessionsOwned
    <3> QED
      BY <1>2, <1>6, <2>2, <3>1
  <2> QED
    BY <2>1, <2>2
<1>8. 0 \notin broken
  BY <1>1, <1>2, <1>5 DEF ConnInv, StoredIsBroken
<1> HIDE DEF t
<1>9. /\ session' \in [Transports -> {"none", "stored", "open"}]
      /\ session'[t] = "stored"
      /\ \A u \in Transports \ {t} : session'[u] = session[u]
  BY <1>1, <1>4, <1>5
<1>10. ConnectionTypes'
  <2>1. pc' \in [Callers -> PcStates]
    BY <1>1, <1>4 DEF PcStates
  <2>2. made' \in {0} \cup Clients
    BY <1>2
  <2> QED
    BY <1>1, <1>2, <1>9, <2>1, <2>2
       DEF ConnInv, ConnectionTypes, ConnectionTypeOK, PcStates, fixedVars
<1>11. ClientsCounted'
  BY <1>1, <1>2 DEF ConnInv, ClientsCounted, fixedVars, Clients, NoClient
<1>12. LockHeld'
  <2>1. client' # NoClient
    BY <1>2 DEF Clients, NoClient
  <2>2. t = IF injected' THEN 0 ELSE client'
    BY <1>1, <1>2 DEF t, TransportOf, fixedVars
  <2>3. injected' = injected
    BY <1>1 DEF fixedVars
  <2>4. \A d \in Callers : pc'[d] = "connecting" <=> lock' = d
    BY <1>1, <1>3, <1>4
  <2>5. lock' # Closer /\ ~Closing' /\ Entering'
    BY <1>1, <1>3, CallersAssumption DEF Closing, Entering
  <2> QED
    BY <1>6, <1>9, <2>1, <2>2, <2>3, <2>4, <2>5 DEF LockHeld, TransportOf
<1>13. \A u \in Transports : session'[u] # "open" /\ ~up'[u]
  BY <1>1, <1>7, <1>9 DEF ConnInv, SessionsOwned
<1>14. SessionsOwned'
  <2>1. 0 \in Transports
    BY DEF Transports
  <2> QED
    BY <1>1, <1>5, <1>6, <1>9, <1>13, <2>1 DEF ConnInv, SessionsOwned, fixedVars
<1>15. LiveCounted'
  BY <1>1, <1>7, <1>13 DEF ConnInv, LiveCounted
<1>16. StoredIsBroken'
  BY <1>1, <1>8 DEF ConnInv, StoredIsBroken, Entering
<1>17. HeldIsBound'
  <2>1. \A d \in Callers : held[d] <= made' /\ (held[d] # NoClient => held[d] \in Clients)
    BY <1>2, <1>4 DEF ConnInv, HeldIsBound, Clients, NoClient
  <2>2. \A d \in Callers : pc'[d] \in {"asking", "sleeping"} => pc[d] = pc'[d]
    BY <1>1, <1>4
  <2> QED
    BY <1>1, <1>2, <2>1, <2>2 DEF ConnInv, HeldIsBound
<1>18. ErrorsTranslated'
  <2>1. \A d \in Callers : pc'[d] \in {"raw", "runtime"} => pc[d] = pc'[d]
    BY <1>1, <1>4
  <2> QED
    BY <1>1, <2>1 DEF ConnInv, ErrorsTranslated
<1> QED
  BY <1>10, <1>11, <1>12, <1>14, <1>15, <1>16, <1>17, <1>18 DEF ConnInv

LEMMA LocksStep ==
  ASSUME ConnInv, NEW c \in Callers, Locks(c)
  PROVE  ConnInv'
  BY ConnectionlessStep, EntersStep DEF Locks, LockFree

\* What holds while a session is being entered: its client is made, and no session
\* is open.
LEMMA EnteringFacts ==
  ASSUME ConnInv, NEW c \in Callers, pc[c] = "connecting"
  PROVE  /\ lock = c /\ Entering /\ ~Closing /\ lock # Closer
         /\ client \in Clients /\ client # NoClient
         /\ TransportOf(client) \in Transports
         /\ session[TransportOf(client)] = "stored"
         /\ injected => TransportOf(client) = 0
         /\ ~injected => TransportOf(client) = client /\ client # 0 /\ ~bound[client]
         /\ \A u \in Transports : session[u] # "open" /\ ~up[u]
         /\ 0 \notin broken \/ ~Entering
         /\ cold = {}
         /\ \A d \in Callers \ {c} : pc[d] # "connecting"
<1>1. lock = c /\ lock # Closer
  BY CallersAssumption DEF ConnInv, LockHeld
<1>2. Entering /\ ~Closing
  BY <1>1 DEF Entering, ConnInv, LockHeld
<1>3. /\ client # NoClient /\ session[TransportOf(client)] = "stored"
      /\ ~injected => ~bound[client]
  BY <1>2 DEF ConnInv, LockHeld
<1>4. client \in Clients /\ client # 0
  BY <1>3 DEF ConnInv, ConnectionTypes, ConnectionTypeOK, NoClient
<1>5. /\ TransportOf(client) \in Transports
      /\ injected => TransportOf(client) = 0
      /\ ~injected => TransportOf(client) = client
  BY <1>4 DEF TransportOf, Transports
<1>6. \A u \in Transports : session[u] # "open" /\ ~up[u]
  <2> SUFFICES ASSUME NEW u \in Transports, session[u] = "open" PROVE FALSE
    BY DEF ConnInv, SessionsOwned
  <2>1. CASE injected
    BY <1>3, <1>5, <2>1 DEF ConnInv, SessionsOwned
  <2>2. CASE ~injected
    BY <1>3, <2>2 DEF ConnInv, SessionsOwned
  <2> QED
    BY <2>1, <2>2
<1>7. 0 \notin broken /\ cold = {}
  BY <1>2 DEF ConnInv, StoredIsBroken
<1>8. \A d \in Callers \ {c} : pc[d] # "connecting"
  BY <1>1 DEF ConnInv, LockHeld
<1> QED
  BY <1>1, <1>2, <1>3, <1>4, <1>5, <1>6, <1>7, <1>8

LEMMA ConnectedStep ==
  ASSUME ConnInv, NEW c \in Callers, Connected(c)
  PROVE  ConnInv'
<1> DEFINE t == TransportOf(client)
           how == IF c = Batch /\ resolved THEN "uploading" ELSE Request(c, TRUE)
<1>1. /\ UNCHANGED <<client, made, broken, fixedVars, stage, outlived, cold>>
      /\ session' = [session EXCEPT ![t] = "open"]
      /\ library' = [library EXCEPT ![t] = TRUE]
      /\ up' = [up EXCEPT ![t] = TRUE]
      /\ live' = live + 1
      /\ bound' = [bound EXCEPT ![client] = TRUE]
      /\ says' = [says EXCEPT ![client] = TRUE]
      /\ lock' = NoCaller
      /\ pc[c] = "connecting"
      /\ pc' = [pc EXCEPT ![c] = how]
      /\ held' = [held EXCEPT ![c] = client]
  BY DEF Connected, Rest, Begins
<1>2. /\ lock = c /\ Entering /\ ~Closing /\ lock # Closer
      /\ client \in Clients /\ client # NoClient
      /\ t \in Transports
      /\ session[t] = "stored"
      /\ injected => t = 0
      /\ ~injected => t = client /\ client # 0 /\ ~bound[client]
      /\ \A u \in Transports : session[u] # "open" /\ ~up[u]
      /\ 0 \notin broken
      /\ cold = {}
      /\ \A d \in Callers \ {c} : pc[d] # "connecting"
  BY <1>1, EnteringFacts
<1>3. /\ pc \in [Callers -> PcStates] /\ held \in [Callers -> {NoClient} \cup Clients]
      /\ made \in {0} \cup Clients /\ injected \in BOOLEAN
      /\ session \in [Transports -> {"none", "stored", "open"}]
      /\ library \in [Transports -> BOOLEAN] /\ up \in [Transports -> BOOLEAN]
      /\ bound \in [Clients -> BOOLEAN] /\ says \in [Clients -> BOOLEAN]
      /\ client = made
  BY <1>2 DEF ConnInv, ConnectionTypes, ConnectionTypeOK, PcStates, ClientsCounted
<1>4. how \in PcStates \ {"connecting", "sleeping", "raw", "runtime"}
  BY RequestType DEF PcStates, Over, Errors
<1> HIDE DEF how, t
<1>5. /\ session' \in [Transports -> {"none", "stored", "open"}] /\ session'[t] = "open"
      /\ library' \in [Transports -> BOOLEAN] /\ library'[t]
      /\ up' \in [Transports -> BOOLEAN] /\ up'[t]
      /\ \A u \in Transports \ {t} : session'[u] = session[u] /\ up'[u] = up[u]
      /\ bound' \in [Clients -> BOOLEAN] /\ says' \in [Clients -> BOOLEAN]
      /\ bound'[client] /\ \A g \in Clients \ {client} : bound'[g] = bound[g]
  BY <1>1, <1>2, <1>3
<1>6. /\ pc' \in [Callers -> PcStates] /\ held' \in [Callers -> {NoClient} \cup Clients]
      /\ pc'[c] = how /\ held'[c] = client
      /\ \A d \in Callers \ {c} : pc'[d] = pc[d] /\ held'[d] = held[d]
  BY <1>1, <1>2, <1>3, <1>4
<1>7. /\ injected' = injected /\ ~Closing' /\ ~Entering' /\ lock' # Closer
      /\ \A d \in Callers : lock' # d
  BY <1>1, <1>2, CallersAssumption DEF fixedVars, Closing, Entering
<1>8. ConnectionTypes'
  BY <1>1, <1>5, <1>6, <1>7, CallersAssumption
     DEF ConnInv, ConnectionTypes, ConnectionTypeOK, PcStates, fixedVars
<1>9. ClientsCounted'
  BY <1>1, <1>2, <1>3, <1>5, <1>7 DEF ConnInv, ClientsCounted, Clients, NoClient
<1>10. LockHeld'
  BY <1>2, <1>4, <1>6, <1>7 DEF LockHeld
<1>11. SessionsOwned'
  BY <1>1, <1>2, <1>5, <1>7 DEF ConnInv, SessionsOwned, Transports
<1>12. LiveCounted'
  BY <1>1, <1>2, <1>5 DEF ConnInv, LiveCounted
<1>13. StoredIsBroken'
  <2>1. session'[0] # "stored"
    BY <1>2, <1>3, <1>5, <1>1 DEF ConnInv, SessionsOwned, Transports
  <2> QED
    BY <1>1, <1>2, <2>1 DEF StoredIsBroken
<1>14. HeldIsBound'
  <2>1. \A d \in Callers : held[d] # NoClient => held[d] \in Clients
    BY <1>3
  <2>2. client <= made
    BY <1>3 DEF Clients
  <2> QED
    BY <1>1, <1>2, <1>4, <1>5, <1>6, <2>1, <2>2 DEF ConnInv, HeldIsBound
<1>15. ErrorsTranslated'
  BY <1>1, <1>4, <1>6 DEF ConnInv, ErrorsTranslated
<1> QED
  BY <1>8, <1>9, <1>10, <1>11, <1>12, <1>13, <1>14, <1>15 DEF ConnInv

\* An entry that fails or is interrupted.
LEMMA EntryEndsStep ==
  ASSUME ConnInv, NEW c \in Callers, pc[c] = "connecting", EntryEnds(c),
         NEW how \in {"connection", "timeout", "cancelled"}, Ends(c, how), Rest
  PROVE  ConnInv'
<1> DEFINE t == TransportOf(client)
<1>1. /\ UNCHANGED <<library, up, live, client, made, bound, says, fixedVars, stage, outlived,
                     held, cold>>
      /\ session' = [session EXCEPT ![t] = IF injected THEN "stored" ELSE "none"]
      /\ broken' = broken \cup {t}
      /\ lock' = NoCaller
      /\ pc' = [pc EXCEPT ![c] = how]
  BY DEF EntryEnds, Ends, Rest
<1>2. /\ lock = c /\ Entering /\ ~Closing /\ lock # Closer
      /\ client \in Clients /\ client # NoClient
      /\ t \in Transports
      /\ session[t] = "stored"
      /\ injected => t = 0
      /\ ~injected => t = client /\ client # 0 /\ ~bound[client]
      /\ \A u \in Transports : session[u] # "open" /\ ~up[u]
      /\ 0 \notin broken
      /\ cold = {}
      /\ \A d \in Callers \ {c} : pc[d] # "connecting"
  BY EnteringFacts
<1>3. /\ pc \in [Callers -> PcStates]
      /\ injected \in BOOLEAN
      /\ session \in [Transports -> {"none", "stored", "open"}]
  BY DEF ConnInv, ConnectionTypes, ConnectionTypeOK, PcStates
<1> HIDE DEF t
<1>4. /\ session' \in [Transports -> {"none", "stored", "open"}]
      /\ session'[t] = IF injected THEN "stored" ELSE "none"
      /\ \A u \in Transports \ {t} : session'[u] = session[u]
  BY <1>1, <1>2, <1>3
<1>5. how \in PcStates
  BY DEF PcStates, Over, Errors
<1>6. pc' \in [Callers -> PcStates] /\ pc'[c] = how /\ \A d \in Callers \ {c} : pc'[d] = pc[d]
  BY <1>1, <1>3, <1>5
<1>7. /\ injected' = injected /\ ~Closing' /\ ~Entering' /\ lock' # Closer
      /\ \A d \in Callers : lock' # d
  BY <1>1, <1>2, CallersAssumption DEF fixedVars, Closing, Entering
<1>8. ConnectionTypes'
  BY <1>1, <1>4, <1>6, <1>7, CallersAssumption
     DEF ConnInv, ConnectionTypes, ConnectionTypeOK, PcStates, fixedVars
<1>9. ClientsCounted'
  BY <1>1, <1>7 DEF ConnInv, ClientsCounted
<1>10. LockHeld'
  BY <1>2, <1>6, <1>7 DEF LockHeld
<1>11. SessionsOwned'
  BY <1>1, <1>2, <1>4, <1>7 DEF ConnInv, SessionsOwned, Transports
<1>12. LiveCounted'
  BY <1>1, <1>2, <1>4 DEF ConnInv, LiveCounted
<1>13. StoredIsBroken'
  BY <1>1, <1>2, <1>4, <1>7 DEF ConnInv, StoredIsBroken, SessionsOwned, Transports
<1>14. HeldIsBound' /\ ErrorsTranslated'
  BY <1>1, <1>6 DEF ConnInv, HeldIsBound, ErrorsTranslated
<1> QED
  BY <1>8, <1>9, <1>10, <1>11, <1>12, <1>13, <1>14 DEF ConnInv

LEMMA EntryFailsStep ==
  ASSUME ConnInv, NEW c \in Callers, EntryFails(c)
  PROVE  ConnInv'
  BY EntryEndsStep DEF EntryFails

LEMMA InterruptedStep ==
  ASSUME ConnInv, NEW c \in Callers, Interrupted(c)
  PROVE  ConnInv'
<1> DEFINE how == IF c \in Polls THEN "timeout" ELSE "cancelled"
<1>1. Ends(c, how) /\ Rest /\ how \in {"connection", "timeout", "cancelled"}
  BY DEF Interrupted
<1>2. how \in PcStates \ {"connecting", "asking", "sleeping", "raw", "runtime"}
  BY DEF PcStates, Over
<1> HIDE DEF how
<1>3. CASE pc[c] = "connecting"
  BY <1>1, <1>3, EntryEndsStep DEF Interrupted
<1>4. CASE pc[c] # "connecting"
  <2>1. UNCHANGED <<transportVars, clientVars, fixedVars, stage, outlived, held, cold>>
        /\ pc' = [pc EXCEPT ![c] = how]
    BY <1>1, <1>4 DEF Interrupted, Rest, Ends, fixedVars
  <2> QED
    BY <1>2, <1>4, <2>1, QuietStep
<1> QED
  BY <1>3, <1>4

-----------------------------------------------------------------------------
(* Cleanup *)

LEMMA CloseStartsStep ==
  ASSUME ConnInv, CloseStarts
  PROVE  ConnInv'
<1> DEFINE t == TransportOf(client)
<1>1. /\ stage = "none" /\ lock = NoCaller
      /\ UNCHANGED <<session, library, live, broken, made, bound, says, callVars, fixedVars,
                     outlived>>
  BY DEF CloseStarts
<1>2. ~Closing /\ ~Entering /\ \A d \in Callers : pc[d] # "connecting"
  BY <1>1, LockFreeFacts
<1>3. /\ client = made /\ made <= 1 /\ client \in {NoClient} \cup Clients
      /\ up \in [Transports -> BOOLEAN] /\ bound \in [Clients -> BOOLEAN]
      /\ injected \in BOOLEAN
  BY <1>1 DEF ConnInv, ConnectionTypes, ConnectionTypeOK, ClientsCounted
<1>4. injected' = injected /\ pc' = pc /\ held' = held /\ cold' = cold
  BY <1>1 DEF fixedVars, callVars
<1>5. HeldIsBound' /\ ErrorsTranslated'
  BY <1>1, <1>4 DEF ConnInv, CloseStarts, Drops, HeldIsBound, ErrorsTranslated
<1>6. CASE client # NoClient /\ bound[client] /\ IsUp(t)
  <2>1. /\ up' = [up EXCEPT ![t] = FALSE]
        /\ lock' = Closer /\ stage' = "library" /\ client' = client
    BY <1>6 DEF CloseStarts
  <2>2. t \in Transports /\ up[t] /\ session[t] = "open"
    BY <1>3, <1>6 DEF IsUp, TransportOf, Transports, ConnInv, SessionsOwned
  <2>3. Closing' /\ ~Entering' /\ \A d \in Callers : lock' # d
    BY <2>1, CallersAssumption DEF Closing, Entering
  <2>4. /\ up' \in [Transports -> BOOLEAN] /\ ~up'[t]
        /\ \A u \in Transports : up'[u] => up[u]
    BY <1>3, <2>1, <2>2
  <2>5. ConnectionTypes'
    BY <1>1, <1>4, <2>1, <2>4 DEF ConnInv, ConnectionTypes, ConnectionTypeOK
  <2>6. ClientsCounted'
    BY <1>1, <1>3, <1>4, <2>1 DEF ConnInv, ClientsCounted
  <2>7. LockHeld'
    BY <1>1, <1>2, <1>4, <1>6, <2>1, <2>2, <2>3, <2>4 DEF LockHeld, TransportOf
  <2>8. SessionsOwned'
    BY <1>1, <1>4, <2>1, <2>3, <2>4 DEF ConnInv, SessionsOwned
  <2>9. LiveCounted' /\ StoredIsBroken'
    BY <1>1, <1>2, <1>4, <2>3 DEF ConnInv, LiveCounted, StoredIsBroken
  <2> QED
    BY <1>5, <2>5, <2>6, <2>7, <2>8, <2>9 DEF ConnInv
<1>7. CASE ~(client # NoClient /\ bound[client] /\ IsUp(t))
  <2>1. client' = NoClient /\ stage' = "closed" /\ up' = up /\ lock' = lock
    BY <1>7 DEF CloseStarts, Drops
  <2>2. ~Closing' /\ ~Entering'
    BY <1>2, <2>1 DEF Closing, Entering
  <2>3. client # NoClient => \A u \in Transports : session[u] # "open"
    <3> SUFFICES ASSUME client # NoClient, NEW u \in Transports, session[u] = "open" PROVE FALSE
      OBVIOUS
    <3>1. IsUp(u)
      BY <1>2 DEF ConnInv, SessionsOwned, IsUp
    <3>2. u = t /\ bound[client]
      BY DEF ConnInv, SessionsOwned, ClientsCounted, TransportOf
    <3> QED
      BY <1>7, <3>1, <3>2
  <2>4. ConnectionTypes'
    BY <1>1, <1>4, <2>1 DEF ConnInv, ConnectionTypes, ConnectionTypeOK
  <2>5. ClientsCounted'
    BY <1>1, <1>3, <1>4, <2>1 DEF ConnInv, ClientsCounted
  <2>6. LockHeld'
    BY <1>1, <1>2, <1>4, <2>1, <2>2, CallersAssumption DEF ConnInv, LockHeld
  <2>7. SessionsOwned'
    <3>1. client = NoClient => made = 0
      BY <1>3 DEF NoClient
    <3>2. client = NoClient /\ ~injected => \A u \in Transports : session[u] # "open"
      BY DEF ConnInv, SessionsOwned
    <3>3. 0 \in Transports
      BY DEF Transports
    <3> QED
      BY <1>1, <1>2, <1>4, <2>1, <2>2, <2>3, <3>1, <3>2, <3>3 DEF ConnInv, SessionsOwned
  <2>8. LiveCounted' /\ StoredIsBroken'
    BY <1>1, <1>2, <1>4, <2>2 DEF ConnInv, LiveCounted, StoredIsBroken
  <2> QED
    BY <1>5, <2>4, <2>5, <2>6, <2>7, <2>8 DEF ConnInv
<1> QED
  BY <1>6, <1>7

LEMMA LibraryClosesStep ==
  ASSUME ConnInv, LibraryCloses
  PROVE  ConnInv'
<1>1. /\ stage = "library" /\ stage' = "session"
      /\ library' = [library EXCEPT ![TransportOf(client)] = FALSE]
      /\ UNCHANGED <<session, up, live, broken, clientVars, callVars, fixedVars, outlived>>
  BY DEF LibraryCloses
<1>2. Closing /\ Closing' /\ Entering' = Entering
  BY <1>1 DEF Closing, Entering, clientVars
<1>3. ConnectionTypes'
  BY <1>1 DEF ConnInv, ConnectionTypes, ConnectionTypeOK, clientVars, callVars, fixedVars
<1>4. ClientsCounted' /\ LiveCounted' /\ StoredIsBroken' /\ HeldIsBound' /\ ErrorsTranslated'
  BY <1>1, <1>2 DEF ConnInv, ClientsCounted, LiveCounted, StoredIsBroken, HeldIsBound,
       ErrorsTranslated, clientVars, callVars, fixedVars
<1>5. LockHeld' /\ SessionsOwned'
  BY <1>1, <1>2 DEF ConnInv, LockHeld, SessionsOwned, TransportOf, clientVars, callVars, fixedVars
<1> QED
  BY <1>3, <1>4, <1>5 DEF ConnInv

LEMMA SessionClosesStep ==
  ASSUME ConnInv, SessionCloses
  PROVE  ConnInv'
<1> DEFINE t == TransportOf(client)
<1>1. /\ stage = "session" /\ stage' = "closed"
      /\ \/ session' = [session EXCEPT ![t] = "none"] /\ broken' = broken
         \/ session' = [session EXCEPT ![t] = "stored"] /\ broken' = broken \cup {t}
      /\ live' = live - 1
      /\ bound' = [bound EXCEPT ![client] = FALSE]
      /\ says' = [says EXCEPT ![client] = FALSE]
      /\ outlived' = {c \in Callers : held[c] = client}
      /\ client' = NoClient /\ lock' = NoCaller
      /\ UNCHANGED <<library, up, made, callVars, fixedVars>>
  BY DEF SessionCloses, Drops
<1>2. Closing /\ lock = Closer /\ ~Entering /\ outlived = {}
  BY <1>1, CallersAssumption DEF Closing, Entering, ConnInv, LockHeld, HeldIsBound
<1>3. client \in Clients /\ client # NoClient /\ bound[client] /\ session[t] = "open"
      /\ client = made /\ made <= 1
  BY <1>1, <1>2
     DEF ConnInv, LockHeld, ConnectionTypes, ConnectionTypeOK, NoClient, ClientsCounted
<1>4. /\ injected' = injected /\ pc' = pc /\ held' = held /\ cold' = cold
      /\ injected \in BOOLEAN
      /\ session \in [Transports -> {"none", "stored", "open"}]
      /\ bound \in [Clients -> BOOLEAN] /\ says \in [Clients -> BOOLEAN]
      /\ held \in [Callers -> {NoClient} \cup Clients]
  BY <1>1 DEF fixedVars, callVars, ConnInv, ConnectionTypes, ConnectionTypeOK
<1>5. t \in Transports /\ (injected => t = 0) /\ (~injected => t = client /\ t # 0)
  BY <1>3 DEF TransportOf, Transports, Clients
<1>6. \A u \in Transports \ {t} : session[u] # "open" /\ ~up[u]
  BY <1>3, <1>5 DEF ConnInv, SessionsOwned
<1>7. ~up[t] /\ 0 \notin broken /\ cold = {}
  <2>1. ~up[t]
    BY <1>2 DEF ConnInv, LockHeld, t
  <2>2. 0 \notin broken
    BY <1>3, <1>5 DEF ConnInv, StoredIsBroken
  <2> QED
    BY <2>1, <2>2 DEF ConnInv, StoredIsBroken
<1> HIDE DEF t
<1>8. /\ session' \in [Transports -> {"none", "stored", "open"}] /\ session'[t] # "open"
      /\ \A u \in Transports \ {t} : session'[u] = session[u]
      /\ session'[t] \in {"none", "stored"}
      /\ session'[t] = "stored" => t \in broken'
      /\ bound' \in [Clients -> BOOLEAN] /\ says' \in [Clients -> BOOLEAN]
      /\ ~bound'[client] /\ \A g \in Clients \ {client} : bound'[g] = bound[g]
  BY <1>1, <1>3, <1>4, <1>5
<1>9. ~Closing' /\ ~Entering' /\ lock' # Closer /\ \A d \in Callers : lock' # d
  BY <1>1, CallersAssumption DEF Closing, Entering
<1>10. ConnectionTypes'
  BY <1>1, <1>4, <1>8 DEF ConnInv, ConnectionTypes, ConnectionTypeOK
<1>11. ClientsCounted'
  BY <1>1, <1>3, <1>8 DEF ConnInv, ClientsCounted
<1>12. LockHeld'
  BY <1>2, <1>4, <1>9, CallersAssumption DEF ConnInv, LockHeld
<1>13. \A u \in Transports : session'[u] # "open" /\ ~up'[u]
  BY <1>1, <1>6, <1>7, <1>8
<1>14. SessionsOwned'
  BY <1>1, <1>4, <1>5, <1>8, <1>13 DEF ConnInv, SessionsOwned, Transports
<1>15. LiveCounted'
  <2>1. live = 1
    BY <1>3, <1>5 DEF ConnInv, LiveCounted
  <2> QED
    BY <1>1, <1>13, <2>1 DEF LiveCounted
<1>16. StoredIsBroken'
  <2>1. ~injected => session[0] = "none"
    BY DEF ConnInv, SessionsOwned
  <2>2. 0 \in broken' => t = 0 /\ injected /\ session'[0] = "stored"
    BY <1>1, <1>4, <1>5, <1>7
  <2>3. session'[0] = "stored" => 0 \in broken'
    BY <1>4, <1>5, <1>8, <2>1 DEF Transports
  <2> QED
    BY <1>4, <1>7, <1>9, <2>2, <2>3 DEF StoredIsBroken
<1>17. HeldIsBound' /\ ErrorsTranslated'
  BY <1>1, <1>2, <1>4, <1>8 DEF ConnInv, HeldIsBound, ErrorsTranslated
<1> QED
  BY <1>10, <1>11, <1>12, <1>14, <1>15, <1>16, <1>17 DEF ConnInv

-----------------------------------------------------------------------------
(* The invariant of the connection *)

LEMMA InitConn == Init => ConnInv
<1> SUFFICES ASSUME Init PROVE ConnInv
  OBVIOUS
<1>1. PICK connected \in IF injected THEN BOOLEAN ELSE {FALSE} :
        /\ session = [t \in Transports |-> IF connected /\ t = 0 THEN "open" ELSE "none"]
        /\ library = [t \in Transports |-> connected /\ t = 0]
        /\ up = [t \in Transports |-> connected /\ t = 0]
        /\ live = IF connected THEN 1 ELSE 0
  BY DEF Init, ConnectionInit
<1>2. /\ injected \in BOOLEAN /\ client = NoClient /\ made = 0
      /\ bound = [g \in Clients |-> FALSE] /\ says = [g \in Clients |-> FALSE]
      /\ lock = NoCaller /\ pc = [c \in Callers |-> "idle"]
      /\ held = [c \in Callers |-> NoClient] /\ stage = "none"
      /\ broken = {} /\ cold = {} /\ outlived = {}
  BY DEF Init, ConnectionInit
<1>3. connected \in BOOLEAN /\ (connected => injected)
  BY <1>1, <1>2
<1>4. ConnectionTypes
  BY <1>1, <1>2, <1>3 DEF ConnectionTypes, ConnectionTypeOK
<1>5. ClientsCounted
  BY <1>2 DEF ClientsCounted, Clients, NoClient
<1>6. LockHeld
  BY <1>2, CallersAssumption DEF LockHeld, Closing, Entering
<1>7. SessionsOwned
  <2>1. \A t \in Transports : up[t] <=> connected /\ t = 0
    BY <1>1
  <2>2. \A t \in Transports : library[t] <=> connected /\ t = 0
    BY <1>1
  <2>3. \A t \in Transports : session[t] = IF connected /\ t = 0 THEN "open" ELSE "none"
    BY <1>1
  <2>4. 0 \in Transports
    BY DEF Transports
  <2> QED
    BY <1>2, <1>3, <2>1, <2>2, <2>3, <2>4 DEF SessionsOwned
<1>8. LiveCounted
  BY <1>1, <1>3 DEF LiveCounted, Transports
<1>9. StoredIsBroken
  BY <1>1, <1>2, <1>3 DEF StoredIsBroken, Transports
<1>10. HeldIsBound /\ ErrorsTranslated
  BY <1>2 DEF HeldIsBound, ErrorsTranslated, NoClient
<1> QED
  BY <1>4, <1>5, <1>6, <1>7, <1>8, <1>9, <1>10 DEF ConnInv

\* A batch that ends, or that does not begin, leaves the connection alone.
LEMMA BatchQuietStep ==
  ASSUME ConnInv, Invalid \/ NoAgent \/ BatchEnds
  PROVE  ConnInv'
<1>1. Batch \in Callers
  BY DEF Callers
<1>2. PICK how \in {"invalid", "no agent", "answered", "upload", "cancelled"} \cup Errors :
        Ends(Batch, how)
  BY DEF Invalid, NoAgent, BatchEnds
<1>3. /\ pc[Batch] # "connecting"
      /\ UNCHANGED <<transportVars, clientVars, fixedVars, stage, outlived>>
  BY DEF Invalid, NoAgent, BatchEnds, Rest
<1>4. pc' = [pc EXCEPT ![Batch] = how] /\ held' = held /\ cold' = cold
  BY <1>2 DEF Ends
<1>5. how \in PcStates \ {"connecting", "asking", "sleeping", "raw", "runtime"}
  BY DEF PcStates, Over, Errors
<1> QED
  BY <1>1, <1>3, <1>4, <1>5, QuietStep

LEMMA CallStep ==
  ASSUME ConnInv, NEW c \in Callers, Call(c)
  PROVE  ConnInv'
  BY EnsureStep, LocksStep, ConnectedStep, EntryFailsStep, AnsweredStep, RefusedStep,
     PollsAgainStep, InterruptedStep DEF Call

\* Steps of the batch that no other call sees.
LEMMA BatchKeepsConnection ==
  ASSUME CallerCancelled \/ BatchStarts \/ WorkerFailed
           \/ (\E a \in Attachments : FileStep(a)) \/ (\E p \in Parts : PartStep(p))
  PROVE  UNCHANGED connectionVars
<1>1. ASSUME NEW kind, TearsDown(kind) PROVE UNCHANGED connectionVars
  BY <1>1 DEF TearsDown
<1>2. ASSUME NEW a \in Attachments, FileStep(a) PROVE UNCHANGED connectionVars
  BY <1>2 DEF FileStep, UploadOpened, UploadRefused, Digest, FileFails, DigestStopped, FileFailed,
       CreateStarts, PlatformCreates, CreateRefused, CreateLost, Receipt
<1>3. ASSUME NEW p \in Parts, PartStep(p) PROVE UNCHANGED connectionVars
  BY <1>3 DEF PartStep, PutStarts, PutEnds, PartStopped
<1> QED
  BY <1>1, <1>2, <1>3 DEF CallerCancelled, BatchStarts, WorkerFailed

LEMMA ConnStep == ConnInv /\ [Next]_vars => ConnInv'
<1> SUFFICES ASSUME ConnInv, [Next]_vars PROVE ConnInv'
  OBVIOUS
<1>1. ASSUME UNCHANGED connectionVars PROVE ConnInv'
  BY <1>1, SameStep DEF connectionVars
<1>2. CASE UNCHANGED vars
  BY <1>1, <1>2 DEF vars
<1>3. CASE Invalid \/ NoAgent \/ BatchEnds
  BY <1>3, BatchQuietStep
<1>4. CASE Close
  BY <1>4, CloseStartsStep, LibraryClosesStep, SessionClosesStep DEF Close
<1>5. CASE Ingested
  BY <1>5, SameStep DEF Ingested
<1>6. CASE \E c \in Callers : Call(c)
  BY <1>6, CallStep
<1>7. CASE CallerCancelled \/ BatchStarts \/ WorkerFailed
             \/ (\E a \in Attachments : FileStep(a)) \/ (\E p \in Parts : PartStep(p))
  BY <1>1, <1>7, BatchKeepsConnection
<1> QED
  BY <1>2, <1>3, <1>4, <1>5, <1>6, <1>7 DEF Next, Connecting, Uploading

LEMMA AlwaysConn == Spec => []ConnInv
<1>1. Init => ConnInv
  BY InitConn
<1>2. ConnInv /\ [Next]_vars => ConnInv'
  BY ConnStep
<1> QED
  BY <1>1, <1>2, PTL DEF Spec

\* What the SDK keeps of its connection has its type, and never more than two
\* clients are made.
THEOREM ConnectionTyped == Spec => []ConnectionTypeOK
<1>1. ConnInv => ConnectionTypeOK
  BY DEF ConnInv, ConnectionTypes
<1> QED
  BY <1>1, AlwaysConn, PTL

\* No HPKE session is lost, doubled or left behind by cleanup.
THEOREM SessionsAreAccounted == Spec => []SessionsAccounted
<1> DEFINE OpenOnes == {t \in Transports : session[t] = "open"}
<1>1. ASSUME ConnInv PROVE SessionsAccounted
  <2>1. CASE \E t \in Transports : session[t] = "open"
    <3>1. PICK t \in Transports : session[t] = "open"
      BY <2>1
    <3>2. OpenOnes = {t}
      BY <1>1, <3>1 DEF ConnInv, SessionsOwned
    <3>3. Cardinality(OpenOnes) = 1
      BY <3>2, FS_Singleton
    <3>4. ~(client = NoClient /\ made > 0)
      BY <1>1, <3>1 DEF ConnInv, SessionsOwned
    <3> QED
      BY <1>1, <2>1, <3>3, <3>4 DEF ConnInv, LiveCounted, SessionsAccounted
  <2>2. CASE ~\E t \in Transports : session[t] = "open"
    <3>1. OpenOnes = {}
      BY <2>2
    <3>2. Cardinality(OpenOnes) = 0
      BY <3>1, FS_EmptySet
    <3> QED
      BY <1>1, <2>2, <3>2 DEF ConnInv, LiveCounted, SessionsAccounted
  <2> QED
    BY <2>1, <2>2
<1> QED
  BY <1>1, AlwaysConn, PTL

\* Only an injected transport whose entry or exit failed leaves calls without a
\* connection.
THEOREM ClientsAreConnected == Spec => []HandsOutConnected
<1>1. ASSUME ConnInv PROVE HandsOutConnected
  <2>1. 0 \in broken => ~IsUp(0)
    BY <1>1 DEF ConnInv, StoredIsBroken, SessionsOwned, IsUp, Transports
  <2> QED
    BY <1>1, <2>1 DEF ConnInv, StoredIsBroken, HandsOutConnected
<1> QED
  BY <1>1, AlwaysConn, PTL

\* An error of aiohttp reaches only the posts of the lifecycle, and a missing
\* transport only a poll that cleanup overtook.
THEOREM ErrorsAreTranslated == Spec => []ErrorsTranslated
<1>1. ConnInv => ErrorsTranslated
  BY DEF ConnInv
<1> QED
  BY <1>1, AlwaysConn, PTL

\* While the connection is locked, the one that holds the lock has a step to take
\* that releases it or brings it closer: a caller whose session is being entered, or
\* cleanup between the two closes.
LockHasHolder ==
  lock # NoCaller =>
    \/ lock \in Callers /\ pc[lock] = "connecting"
    \/ lock = Closer /\ stage \in {"library", "session"}

\* However calls are cancelled, refused and overtaken by cleanup, none leaves the
\* lock of the connection behind, so none waits for it in vain.
THEOREM LockIsReleased == Spec => []LockHasHolder
<1>1. ConnInv => LockHasHolder
  BY DEF ConnInv, ConnectionTypes, ConnectionTypeOK, LockHeld, Closing, LockHasHolder
<1> QED
  BY <1>1, AlwaysConn, PTL

-----------------------------------------------------------------------------
(* The batch *)

LEMMA AttachmentsAre == Attachments = 1 .. Len(Sizes) /\ Len(Sizes) \in Nat
  BY SizesAssumption DEF Attachments

\* Taking the next attachments, however many they are.
LEMMA TakesNext ==
  ASSUME BatchInv, NEW k \in Nat, NEW left,
         Takes({b \in Attachments : taken < b /\ b <= taken + k}, left)
  PROVE  /\ taken' \in 0 .. Len(Sizes) /\ taken <= taken'
         /\ \A b \in Attachments :
              IF taken < b /\ b <= taken' THEN file'[b] \in {"opening", "failed"}
                                          ELSE file'[b] = left[b]
         /\ file' = [b \in Attachments |-> file'[b]]
         /\ error' \in {error, "transport"}
<1> DEFINE new == {b \in Attachments : taken < b /\ b <= taken + k}
           last == IF taken + k < Len(Sizes) THEN taken + k ELSE Len(Sizes)
<1>1. Attachments = 1 .. Len(Sizes) /\ Len(Sizes) \in Nat /\ taken \in 0 .. Len(Sizes)
  BY AttachmentsAre DEF BatchInv, BatchTypes
<1>2. new = (taken + 1) .. last
  BY <1>1
<1>3. Cardinality((taken + 1) .. last) = last - taken
  <2>1. taken + 1 \in Int /\ last \in Int /\ last >= taken
    BY <1>1
  <2> HIDE DEF last
  <2>2. Cardinality((taken + 1) .. last) = IF taken + 1 > last THEN 0 ELSE last - (taken + 1) + 1
    BY <2>1, FS_Interval, Zenon
  <2> QED
    BY <1>1, <2>1, <2>2
<1>4. taken' = taken + Cardinality(new)
  BY DEF Takes
<1>5. Cardinality(new) = last - taken
  BY <1>2, <1>3
<1>6. taken' = last
  BY <1>1, <1>4, <1>5
<1>7. \A b \in Attachments :
        IF b \in new THEN file'[b] \in {"opening", "failed"} ELSE file'[b] = left[b]
  <2>1. file' = [a \in Attachments |-> CASE a \in new /\ TransportUp -> "opening"
                                         [] a \in new /\ ~TransportUp -> "failed"
                                         [] OTHER -> left[a]]
    BY DEF Takes
  <2> HIDE DEF new
  <2> QED
    BY <2>1
<1>8. error' \in {error, "transport"} /\ file' = [b \in Attachments |-> file'[b]]
  BY DEF Takes
<1> QED
  BY <1>1, <1>2, <1>6, <1>7, <1>8

\* The ways of one attachment in one step.
Moves(b) ==
  \/ file'[b] = file[b] /\ documents'[b] = documents[b]
  \/ /\ file[b] = "waiting" /\ file'[b] \in {"opening", "failed"}
     /\ pc[Batch] = "uploading" \/ Working # {}
     /\ documents'[b] = documents[b]
  \/ file[b] = "opening" /\ file'[b] \in {"moving", "failed"} /\ documents'[b] = documents[b]
  \/ file[b] = "moving" /\ file'[b] \in {"draining", "failed"} /\ documents'[b] = documents[b]
  \/ file[b] = "moving" /\ file'[b] = "creating" /\ Whole(b) /\ documents'[b] = documents[b]
  \/ file[b] = "draining" /\ file'[b] = "failed" /\ documents'[b] = documents[b]
  \/ file[b] = "creating" /\ file'[b] = "created" /\ documents'[b] = documents[b] + 1
  \/ file[b] = "creating" /\ file'[b] = "failed" /\ documents'[b] = documents[b]
  \/ file[b] = "created" /\ file'[b] = "failed" /\ documents'[b] = documents[b] /\ b \in unsure'
  \/ file[b] = "created" /\ file'[b] = "done" /\ documents'[b] = documents[b]

\* What every step does to the batch, apart from its report.
BatchMoves ==
  /\ taken' \in 0 .. Len(Sizes)
  /\ \A b \in Attachments : file[b] = "waiting" /\ file'[b] # "waiting" <=> taken < b /\ b <= taken'
  /\ taken <= taken'
  /\ file' = [b \in Attachments |-> file'[b]]
  /\ documents' = [b \in Attachments |-> documents'[b]]
  /\ \A b \in Attachments : Moves(b)
  /\ receipts' \subseteq Attachments
  /\ \A b \in Attachments :
       b \in receipts' <=> b \in receipts \/ (file[b] = "created" /\ file'[b] = "done")
  /\ unsure \subseteq unsure' /\ unsure' \subseteq Attachments
  /\ error' \in {"none", "upload", "transport", "cancelled"} /\ torn' \in BOOLEAN

\* Steps that leave the files and what they left behind alone.
FilesSame == UNCHANGED <<taken, file, error, torn, receipts, documents, unsure>>

LEMMA FilesSameMoves ==
  ASSUME BatchInv, FilesSame
  PROVE  BatchMoves
<1>1. \A b \in Attachments : Moves(b)
  BY DEF Moves, FilesSame
<1>2. /\ taken' = taken /\ file' = file /\ error' = error /\ torn' = torn
      /\ receipts' = receipts /\ documents' = documents /\ unsure' = unsure
  BY DEF FilesSame
<1>3. /\ taken \in 0 .. Len(Sizes) /\ receipts \subseteq Attachments /\ unsure \subseteq Attachments
      /\ error \in {"none", "upload", "transport", "cancelled"} /\ torn \in BOOLEAN
      /\ file = [b \in Attachments |-> file[b]] /\ documents = [b \in Attachments |-> documents[b]]
  BY DEF BatchInv, BatchTypes
<1>4. taken' \in 0 .. Len(Sizes) /\ taken <= taken'
  BY <1>2, <1>3, AttachmentsAre
<1>5. \A b \in Attachments :
        file[b] = "waiting" /\ file'[b] # "waiting" <=> taken < b /\ b <= taken'
  <2>1. \A b \in Attachments : ~(taken < b /\ b <= taken)
    BY <1>3, AttachmentsAre
  <2> QED
    BY <1>2, <2>1, Zenon
<1>6. /\ file' = [b \in Attachments |-> file'[b]] /\ documents' = [b \in Attachments |-> documents'[b]]
      /\ receipts' \subseteq Attachments /\ unsure \subseteq unsure' /\ unsure' \subseteq Attachments
      /\ error' \in {"none", "upload", "transport", "cancelled"} /\ torn' \in BOOLEAN
  BY <1>2, <1>3
<1>7. \A b \in Attachments :
        b \in receipts' <=> b \in receipts \/ (file[b] = "created" /\ file'[b] = "done")
  BY <1>2
<1> QED
  BY <1>1, <1>4, <1>5, <1>6, <1>7, Zenon DEF BatchMoves

\* One file changes, and no other is taken.
LEMMA OneFileMoves ==
  ASSUME BatchInv, NEW a \in Attachments, NEW state, FileIs(a, state), state # "waiting",
         file[a] # "waiting", taken' = taken, receipts' = receipts, torn' = torn,
         file[a] = "created" => state # "done",
         error' \in {error, "upload", "transport"},
         \/ documents' = documents /\ unsure' = unsure
         \/ documents' = documents /\ unsure' = unsure \cup {a}
         \/ documents' = [documents EXCEPT ![a] = @ + 1] /\ unsure' = unsure,
         Moves(a)
  PROVE  BatchMoves
<1>1. /\ file \in [Attachments -> {"waiting", "opening", "moving", "draining", "creating",
                                   "created", "done", "failed"}]
      /\ documents \in [Attachments -> Nat]
  BY DEF BatchInv, BatchTypes
<1>2. /\ file'[a] = state /\ \A b \in Attachments \ {a} : file'[b] = file[b]
      /\ file' = [b \in Attachments |-> file'[b]]
  BY <1>1 DEF FileIs
<1>3. /\ \A b \in Attachments \ {a} : documents'[b] = documents[b]
      /\ documents' = [b \in Attachments |-> documents'[b]]
  BY <1>1
<1>4. \A b \in Attachments : Moves(b)
  BY <1>2, <1>3 DEF Moves
<1>5. \A b \in Attachments :
        b \in receipts' <=> b \in receipts \/ (file[b] = "created" /\ file'[b] = "done")
  BY <1>2
<1>6. /\ taken' \in 0 .. Len(Sizes) /\ taken <= taken'
      /\ \A b \in Attachments :
           file[b] = "waiting" /\ file'[b] # "waiting" <=> taken < b /\ b <= taken'
  BY <1>2, AttachmentsAre DEF BatchInv, BatchTypes
<1> QED
  BY <1>2, <1>3, <1>4, <1>5, <1>6 DEF BatchMoves, BatchInv, BatchTypes

LEMMA FileStepMoves ==
  ASSUME BatchInv, NEW a \in Attachments, FileStep(a)
  PROVE  BatchMoves
<1>1. /\ file \in [Attachments -> {"waiting", "opening", "moving", "draining", "creating",
                                   "created", "done", "failed"}]
      /\ documents \in [Attachments -> Nat]
  BY DEF BatchInv, BatchTypes
<1>2. ASSUME NEW state, FileIs(a, state) PROVE file'[a] = state
  BY <1>1, <1>2 DEF FileIs
<1>3. ASSUME NEW kind, Fails(a, kind) PROVE FileIs(a, "failed") /\ error' \in {error, kind}
  BY <1>3 DEF Fails
<1>4. CASE UploadOpened(a)
  <2>1. FileIs(a, "moving") /\ Moves(a)
    BY <1>2, <1>4 DEF UploadOpened, Moves
  <2> QED
    BY <1>4, <2>1, OneFileMoves DEF UploadOpened
<1>5. CASE UploadRefused(a)
  <2>1. FileIs(a, "failed") /\ error' \in {error, "transport"}
    BY <1>3, <1>5 DEF UploadRefused
  <2>2. Moves(a)
    BY <1>2, <1>5, <2>1 DEF UploadRefused, Moves
  <2> QED
    BY <1>5, <2>1, <2>2, OneFileMoves DEF UploadRefused
<1>6. CASE Digest(a) \/ DigestStopped(a)
  BY <1>6, FilesSameMoves DEF Digest, DigestStopped, FilesSame
<1>7. CASE FileFails(a)
  <2>1. FileIs(a, "draining") /\ Moves(a)
    BY <1>2, <1>7 DEF FileFails, Moves
  <2> QED
    BY <1>7, <2>1, OneFileMoves DEF FileFails
<1>8. CASE FileFailed(a)
  <2>1. FileIs(a, "failed") /\ error' \in {error, "upload"}
    BY <1>3, <1>8 DEF FileFailed
  <2>2. Moves(a)
    BY <1>2, <1>8, <2>1 DEF FileFailed, Moves
  <2> QED
    BY <1>8, <2>1, <2>2, OneFileMoves DEF FileFailed
<1>9. CASE CreateStarts(a)
  <2>1. CASE FileIs(a, "creating") /\ UNCHANGED error
    <3>1. Moves(a)
      BY <1>2, <1>9, <2>1 DEF CreateStarts, Moves
    <3> QED
      BY <1>9, <2>1, <3>1, OneFileMoves DEF CreateStarts
  <2>2. CASE Fails(a, "transport")
    <3>1. FileIs(a, "failed") /\ error' \in {error, "transport"}
      BY <1>3, <2>2
    <3>2. Moves(a)
      BY <1>2, <1>9, <3>1 DEF CreateStarts, Moves
    <3> QED
      BY <1>9, <3>1, <3>2, OneFileMoves DEF CreateStarts
  <2> QED
    BY <1>9, <2>1, <2>2 DEF CreateStarts
<1>10. CASE PlatformCreates(a)
  <2>1. FileIs(a, "created") /\ documents'[a] = documents[a] + 1
    BY <1>1, <1>10 DEF PlatformCreates
  <2>2. Moves(a)
    BY <1>2, <1>10, <2>1 DEF PlatformCreates, Moves
  <2> QED
    BY <1>10, <2>1, <2>2, OneFileMoves DEF PlatformCreates
<1>11. CASE CreateRefused(a)
  <2>1. FileIs(a, "failed") /\ error' \in {error, "transport"}
    BY <1>3, <1>11 DEF CreateRefused
  <2>2. Moves(a)
    BY <1>2, <1>11, <2>1 DEF CreateRefused, Moves
  <2> QED
    BY <1>11, <2>1, <2>2, OneFileMoves DEF CreateRefused
<1>12. CASE CreateLost(a)
  <2>1. FileIs(a, "failed") /\ error' \in {error, "transport"}
    BY <1>3, <1>12 DEF CreateLost
  <2>2. Moves(a)
    BY <1>2, <1>12, <2>1 DEF CreateLost, Moves
  <2> QED
    BY <1>12, <2>1, <2>2, OneFileMoves DEF CreateLost
<1>13. CASE Receipt(a)
  <2> DEFINE left == [file EXCEPT ![a] = "done"]
  <2>1. {taken + 1} \cap Attachments = {b \in Attachments : taken < b /\ b <= taken + 1}
    BY AttachmentsAre DEF BatchInv, BatchTypes
  <2>2. Takes({b \in Attachments : taken < b /\ b <= taken + 1}, left)
    BY <1>13, <2>1 DEF Receipt, NextOf
  <2>3. left[a] = "done" /\ \A b \in Attachments \ {a} : left[b] = file[b]
    BY <1>1
  <2> HIDE DEF left
  <2>4. /\ taken' \in 0 .. Len(Sizes) /\ taken <= taken'
        /\ \A b \in Attachments :
             IF taken < b /\ b <= taken' THEN file'[b] \in {"opening", "failed"}
                                         ELSE file'[b] = left[b]
        /\ file' = [b \in Attachments |-> file'[b]] /\ error' \in {error, "transport"}
    BY <2>2, TakesNext
  <2>5. file[a] = "created" /\ a <= taken /\ Working # {}
    BY <1>13, AttachmentsAre DEF Receipt, BatchInv, BatchTypes, TakenInOrder, Working
  <2>6. file'[a] = "done" /\ \A b \in Attachments \ {a} :
          IF taken < b /\ b <= taken' THEN file'[b] \in {"opening", "failed"}
                                      ELSE file'[b] = file[b]
    BY <2>3, <2>4, <2>5, AttachmentsAre DEF BatchInv, BatchTypes
  <2>7. \A b \in Attachments : file[b] = "waiting" <=> b > taken
    BY DEF BatchInv, TakenInOrder
  <2>8. documents' = documents /\ unsure' = unsure /\ receipts' = receipts \cup {a} /\ torn' = torn
    BY <1>13 DEF Receipt
  <2>9. \A b \in Attachments : Moves(b)
    BY <2>5, <2>6, <2>7, <2>8, AttachmentsAre DEF Moves, BatchInv, BatchTypes
  <2>10. \A b \in Attachments :
           file[b] = "waiting" /\ file'[b] # "waiting" <=> taken < b /\ b <= taken'
    BY <2>4, <2>5, <2>6, <2>7, AttachmentsAre DEF BatchInv, BatchTypes
  <2>11. \A b \in Attachments :
           b \in receipts' <=> b \in receipts \/ (file[b] = "created" /\ file'[b] = "done")
    BY <2>5, <2>6, <2>7, <2>8, AttachmentsAre DEF BatchInv, BatchTypes
  <2> QED
    BY <2>4, <2>8, <2>9, <2>10, <2>11 DEF BatchMoves, BatchInv, BatchTypes
<1> QED
  BY <1>4, <1>5, <1>6, <1>7, <1>8, <1>9, <1>10, <1>11, <1>12, <1>13 DEF FileStep

LEMMA BatchStartsMoves ==
  ASSUME BatchInv, BatchStarts
  PROVE  BatchMoves
<1>1. taken = 0 /\ Limit \in Nat
  BY LimitAssumption DEF BatchStarts
<1>2. {a \in Attachments : a <= Limit} = {b \in Attachments : taken < b /\ b <= taken + Limit}
  BY <1>1, AttachmentsAre
<1>3. Takes({b \in Attachments : taken < b /\ b <= taken + Limit}, file)
  BY <1>2 DEF BatchStarts
<1>4. /\ taken' \in 0 .. Len(Sizes) /\ taken <= taken'
      /\ \A b \in Attachments :
           IF taken < b /\ b <= taken' THEN file'[b] \in {"opening", "failed"}
                                       ELSE file'[b] = file[b]
      /\ file' = [b \in Attachments |-> file'[b]] /\ error' \in {error, "transport"}
  BY <1>1, <1>3, TakesNext
<1>5. /\ UNCHANGED <<torn, receipts, documents, unsure>> /\ pc[Batch] = "uploading"
      /\ \A b \in Attachments : file[b] = "waiting" <=> b > taken
  BY DEF BatchStarts, BatchInv, TakenInOrder
<1>6. \A b \in Attachments : Moves(b)
  BY <1>4, <1>5, AttachmentsAre DEF Moves, BatchInv, BatchTypes
<1>7. \A b \in Attachments :
        file[b] = "waiting" /\ file'[b] # "waiting" <=> taken < b /\ b <= taken'
  BY <1>4, <1>5, AttachmentsAre DEF BatchInv, BatchTypes
<1>8. \A b \in Attachments :
        b \in receipts' <=> b \in receipts \/ (file[b] = "created" /\ file'[b] = "done")
  BY <1>4, <1>5
<1> QED
  BY <1>4, <1>5, <1>6, <1>7, <1>8 DEF BatchMoves, BatchInv, BatchTypes

LEMMA TearsDownMoves ==
  ASSUME BatchInv, NEW kind \in {"upload", "transport", "cancelled"}, TearsDown(kind)
  PROVE  BatchMoves
<1>1. /\ taken' = taken /\ receipts' = receipts /\ documents' = documents
      /\ error' = kind /\ torn' = TRUE
      /\ unsure' = unsure \cup {a \in Attachments : file[a] \in {"creating", "created"}}
  BY DEF TearsDown
<1>2. /\ file' = [b \in Attachments |-> file'[b]]
      /\ \A b \in Attachments :
           \/ file[b] \in {"opening", "creating", "created"} /\ file'[b] = "failed"
           \/ file[b] = "moving" /\ file'[b] = "draining"
           \/ file'[b] = file[b]
  BY DEF TearsDown
<1>3. \A b \in Attachments : Moves(b)
  BY <1>1, <1>2 DEF Moves
<1>4. /\ taken' \in 0 .. Len(Sizes) /\ taken <= taken'
      /\ \A b \in Attachments :
           file[b] = "waiting" /\ file'[b] # "waiting" <=> taken < b /\ b <= taken'
  BY <1>1, <1>2, AttachmentsAre DEF BatchInv, BatchTypes
<1>5. \A b \in Attachments :
        b \in receipts' <=> b \in receipts \/ (file[b] = "created" /\ file'[b] = "done")
  BY <1>1, <1>2
<1> QED
  BY <1>1, <1>2, <1>3, <1>4, <1>5 DEF BatchMoves, BatchInv, BatchTypes

LEMMA NextMoves == BatchInv /\ [Next]_vars => BatchMoves
<1> SUFFICES ASSUME BatchInv, [Next]_vars PROVE BatchMoves
  OBVIOUS
<1>1. CASE \/ UNCHANGED vars \/ Invalid \/ NoAgent \/ Connecting \/ BatchEnds
           \/ \E p \in Parts : PartStep(p)
  <2>1. FilesSame
    BY <1>1 DEF vars, uploadVars, Invalid, NoAgent, Connecting, BatchEnds, PartStep, PutStarts,
         PutEnds, PartStopped, FilesSame
  <2> QED
    BY <2>1, FilesSameMoves
<1>2. CASE BatchStarts
  BY <1>2, BatchStartsMoves
<1>3. CASE CallerCancelled
  BY <1>3, TearsDownMoves DEF CallerCancelled
<1>4. CASE WorkerFailed
  <2>1. error \in {"upload", "transport", "cancelled"}
    BY <1>4 DEF WorkerFailed, BatchInv, BatchTypes
  <2> QED
    BY <1>4, <2>1, TearsDownMoves DEF WorkerFailed
<1>5. CASE \E a \in Attachments : FileStep(a)
  BY <1>5, FileStepMoves
<1> QED
  BY <1>1, <1>2, <1>3, <1>4, <1>5 DEF Next, Uploading

\* Parts and digests are of their types, and what is there stays there.
BatchKeeps ==
  /\ digest' \in [Attachments -> {"none", "reading", "stopping", "read", "failed"}]
  /\ part' \in [Parts -> {"none", "queued", "putting", "stopping", "put", "failed"}]
  /\ \A b \in Attachments : Whole(b) /\ file[b] # "opening" => Whole(b)'

LEMMA CancelledType ==
  ASSUME NEW state \in {"none", "queued", "putting", "stopping", "put", "failed"}
  PROVE  /\ Cancelled(state) \in {"none", "queued", "putting", "stopping", "put", "failed"}
         /\ state = "put" => Cancelled(state) = "put"
  BY DEF Cancelled

\* A step that changes neither a digest that was read nor a part that was put.
LEMMA WholeKept ==
  ASSUME BatchInv,
         digest' \in [Attachments -> {"none", "reading", "stopping", "read", "failed"}],
         part' \in [Parts -> {"none", "queued", "putting", "stopping", "put", "failed"}],
         \A b \in Attachments : digest[b] = "read" => digest'[b] = "read" \/ file[b] = "opening",
         \A p \in Parts : part[p] = "put" => part'[p] = "put" \/ file[p[1]] = "opening"
  PROVE  BatchKeeps
  BY DEF BatchKeeps, Whole, Own

LEMMA FileStepKeeps ==
  ASSUME BatchInv, NEW a \in Attachments, FileStep(a)
  PROVE  BatchKeeps
<1>1. /\ digest \in [Attachments -> {"none", "reading", "stopping", "read", "failed"}]
      /\ part \in [Parts -> {"none", "queued", "putting", "stopping", "put", "failed"}]
  BY DEF BatchInv, BatchTypes
<1>2. ASSUME UNCHANGED <<digest, part>> PROVE BatchKeeps
  BY <1>1, <1>2, WholeKept
<1>3. CASE UploadOpened(a)
  <2>1. /\ file[a] = "opening" /\ digest' = [digest EXCEPT ![a] = "reading"]
        /\ part' = [p \in Parts |-> IF p \in Own(a) THEN "queued" ELSE part[p]]
    BY <1>3 DEF UploadOpened
  <2>2. \A p \in Parts : part[p] = "put" => part'[p] = "put" \/ file[p[1]] = "opening"
    BY <2>1 DEF Own
  <2>3. part' \in [Parts -> {"none", "queued", "putting", "stopping", "put", "failed"}]
    BY <1>1, <2>1
  <2> QED
    BY <1>1, <2>1, <2>2, <2>3, WholeKept
<1>4. CASE Digest(a)
  <2>1. digest[a] = "reading" /\ part' = part
        /\ \E how \in {"read", "failed"} : digest' = [digest EXCEPT ![a] = how]
    BY <1>4 DEF Digest
  <2> QED
    BY <1>1, <2>1, WholeKept
<1>5. CASE DigestStopped(a)
  <2>1. digest[a] = "stopping" /\ part' = part /\ digest' = [digest EXCEPT ![a] = "failed"]
    BY <1>5 DEF DigestStopped
  <2> QED
    BY <1>1, <2>1, WholeKept
<1>6. CASE FileFails(a)
  <2>1. /\ digest' = [digest EXCEPT ![a] = IF digest[a] = "reading" THEN "stopping" ELSE digest[a]]
        /\ part' = [p \in Parts |-> IF p \in Own(a) THEN Cancelled(part[p]) ELSE part[p]]
    BY <1>6 DEF FileFails, StopsFile
  <2>2. /\ part' \in [Parts -> {"none", "queued", "putting", "stopping", "put", "failed"}]
        /\ \A p \in Parts : part[p] = "put" => part'[p] = "put"
    BY <1>1, <2>1, CancelledType
  <2> QED
    BY <1>1, <2>1, <2>2, WholeKept
<1> QED
  BY <1>2, <1>3, <1>4, <1>5, <1>6
     DEF FileStep, UploadRefused, FileFailed, CreateStarts, PlatformCreates, CreateRefused,
         CreateLost, Receipt

LEMMA PartStepKeeps ==
  ASSUME BatchInv, NEW p \in Parts, PartStep(p)
  PROVE  BatchKeeps
<1>1. /\ digest \in [Attachments -> {"none", "reading", "stopping", "read", "failed"}]
      /\ part \in [Parts -> {"none", "queued", "putting", "stopping", "put", "failed"}]
  BY DEF BatchInv, BatchTypes
<1>2. /\ part[p] \in {"queued", "putting", "stopping"} /\ digest' = digest
      /\ \E how \in {"queued", "putting", "put", "failed"} : part' = [part EXCEPT ![p] = how]
  BY DEF PartStep, PutStarts, PutEnds, PartStopped
<1> QED
  BY <1>1, <1>2, WholeKept

LEMMA TearsDownKeeps ==
  ASSUME BatchInv, NEW kind, TearsDown(kind)
  PROVE  BatchKeeps
<1>1. /\ digest \in [Attachments -> {"none", "reading", "stopping", "read", "failed"}]
      /\ part \in [Parts -> {"none", "queued", "putting", "stopping", "put", "failed"}]
  BY DEF BatchInv, BatchTypes
<1>2. /\ digest' = [a \in Attachments |-> IF digest[a] = "reading" THEN "stopping" ELSE digest[a]]
      /\ part' = [p \in Parts |-> Cancelled(part[p])]
  BY DEF TearsDown
<1>3. /\ part' \in [Parts -> {"none", "queued", "putting", "stopping", "put", "failed"}]
      /\ \A p \in Parts : part[p] = "put" => part'[p] = "put"
  BY <1>1, <1>2, CancelledType
<1> QED
  BY <1>1, <1>2, <1>3, WholeKept

LEMMA NextKeeps == BatchInv /\ [Next]_vars => BatchKeeps
<1> SUFFICES ASSUME BatchInv, [Next]_vars PROVE BatchKeeps
  OBVIOUS
<1>1. CASE UNCHANGED <<digest, part>>
  BY <1>1, WholeKept DEF BatchInv, BatchTypes
<1>2. CASE CallerCancelled \/ WorkerFailed
  BY <1>2, TearsDownKeeps DEF CallerCancelled, WorkerFailed
<1>3. CASE UNCHANGED vars \/ Invalid \/ NoAgent \/ Connecting \/ BatchStarts \/ BatchEnds
  BY <1>1, <1>3 DEF vars, uploadVars, Invalid, NoAgent, Connecting, BatchStarts, BatchEnds
<1> QED
  BY <1>2, <1>3, FileStepKeeps, PartStepKeeps DEF Next, Uploading

\* Apart from its end the call of the batch is in its upload once it got there, and
\* neither has its answer nor reports.
LEMMA BatchPc ==
  ASSUME ConnInv, [Next]_vars, ~BatchEnds
  PROVE  /\ reported' = reported
         /\ pc'[Batch] \in {"answered", "upload"} => pc'[Batch] = pc[Batch]
         /\ pc[Batch] = "uploading" => pc'[Batch] = "uploading"
<1> DEFINE Stays == /\ pc'[Batch] \in {"answered", "upload"} => pc'[Batch] = pc[Batch]
                    /\ pc[Batch] = "uploading" => pc'[Batch] = "uploading"
<1>1. pc \in [Callers -> PcStates] /\ Batch \in Callers
  BY DEF ConnInv, ConnectionTypes, ConnectionTypeOK, PcStates, Callers
<1>2. ASSUME NEW c \in Callers, NEW how, pc' = [pc EXCEPT ![c] = how],
             c = Batch => how \notin {"answered", "upload"} /\ pc[c] # "uploading"
      PROVE  Stays
  BY <1>1, <1>2
<1>3. CASE Invalid \/ NoAgent
  <2>1. /\ reported' = reported /\ pc[Batch] # "uploading"
        /\ \E how \in {"invalid", "no agent"} : Ends(Batch, how)
    BY <1>3 DEF Invalid, NoAgent, uploadVars
  <2> QED
    BY <1>1, <1>2, <2>1 DEF Ends
<1>4. CASE UNCHANGED vars \/ CallerCancelled \/ BatchStarts \/ WorkerFailed
             \/ (\E a \in Attachments : FileStep(a)) \/ (\E p \in Parts : PartStep(p))
  <2>1. UNCHANGED connectionVars
    BY <1>4, BatchKeepsConnection DEF vars
  <2>2. reported' = reported
    BY <1>4 DEF vars, uploadVars, CallerCancelled, TearsDown, BatchStarts, WorkerFailed, FileStep,
      UploadOpened, UploadRefused, Digest, FileFails, DigestStopped, FileFailed, CreateStarts,
      PlatformCreates, CreateRefused, CreateLost, Receipt, PartStep, PutStarts, PutEnds, PartStopped
  <2> QED
    BY <2>1, <2>2 DEF connectionVars, callVars
<1>5. CASE (Close \/ Ingested) /\ UNCHANGED uploadVars
  BY <1>5 DEF Close, CloseStarts, LibraryCloses, SessionCloses, Ingested, callVars, uploadVars
<1>6. ASSUME NEW c \in Callers, Call(c), UNCHANGED uploadVars
      PROVE  reported' = reported /\ Stays
  <2> SUFFICES Stays
    BY <1>6 DEF uploadVars
  <2>1. pc[c] # "uploading"
    BY <1>6 DEF Call, Ensure, Locks, Connected, EntryFails, Answered, Refused, PollsAgain, Interrupted
  <2>2. CASE Answered(c)
    BY <1>1, <2>1, <2>2, CallersAssumption DEF Answered
  <2>3. CASE Refused(c)
    <3>1. PICK cause \in Causes :
            Ends(c, Translated(IF c \in Posts THEN PostError(cause) ELSE LibraryError(cause)))
      BY <2>3 DEF Refused
    <3>2. Translated(IF c \in Posts THEN PostError(cause) ELSE LibraryError(cause))
            \notin {"answered", "upload"}
      BY TranslatedType DEF Errors
    <3> QED
      BY <1>2, <2>1, <3>1, <3>2 DEF Ends
  <2>4. ASSUME NEW g, NEW isUp \in BOOLEAN, Begins(c, g, isUp)
        PROVE  Stays
    <3> DEFINE how == IF c = Batch /\ resolved THEN "uploading" ELSE Request(c, isUp)
    <3>1. pc' = [pc EXCEPT ![c] = how]
      BY <2>4 DEF Begins
    <3>2. how \notin {"answered", "upload"}
      BY RequestType
    <3> HIDE DEF how
    <3> QED
      BY <1>2, <2>1, <3>1, <3>2
  <2>5. ASSUME NEW how \in {"locking", "connecting", "connection", "timeout", "cancelled"},
               Ends(c, how)
        PROVE  Stays
    BY <1>2, <2>1, <2>5 DEF Ends
  <2>6. CASE Ensure(c)
    BY <2>4, <2>5, <2>6 DEF Ensure
  <2>7. CASE Locks(c)
    <3>1. CASE Connectionless(c)
      <4>1. Begins(c, Current, IsUp(TransportOf(Current)))
        BY <3>1 DEF Connectionless
      <4>2. IsUp(TransportOf(Current)) \in BOOLEAN
        BY DEF IsUp
      <4> QED
        BY <2>4, <4>1, <4>2
    <3>2. CASE Enters(c)
      BY <2>5, <3>2 DEF Enters
    <3> QED
      BY <2>7, <3>1, <3>2 DEF Locks
  <2>8. CASE Connected(c)
    BY <2>4, <2>8 DEF Connected
  <2>9. CASE EntryFails(c)
    BY <2>5, <2>9 DEF EntryFails
  <2>10. CASE PollsAgain(c)
    <3>1. c # Batch
      BY <2>10, CallersAssumption DEF PollsAgain, ConnInv, HeldIsBound
    <3> QED
      BY <1>1, <2>10, <3>1 DEF PollsAgain, Ends
  <2>11. CASE Interrupted(c)
    BY <2>5, <2>11 DEF Interrupted
  <2> HIDE DEF Stays
  <2> QED
    BY <1>6, <2>2, <2>3, <2>6, <2>7, <2>8, <2>9, <2>10, <2>11 DEF Call
<1> QED
  BY <1>3, <1>4, <1>5, <1>6 DEF Next, Connecting, Uploading

\* The report is made when the batch ends, and a batch that ended does not go on.
LEMMA NextReports ==
  ASSUME BatchInv, ConnInv, [Next]_vars, BatchMoves
  PROVE  ReportInv' /\ reported' \subseteq Attachments
<1>1. receipts \subseteq receipts' /\ receipts' \subseteq Attachments
      /\ reported \subseteq receipts
      /\ file \in [Attachments -> {"waiting", "opening", "moving", "draining", "creating",
                                   "created", "done", "failed"}]
      /\ receipts \subseteq Attachments
      /\ pc \in [Callers -> PcStates] /\ Batch \in Callers
  BY DEF BatchMoves, BatchInv, BatchTypes, ReportInv, ConnInv, ConnectionTypes, ConnectionTypeOK,
     PcStates, Callers
<1>2. ASSUME pc[Batch] = "upload" PROVE Working' = {} /\ receipts' = receipts
  <2>1. Working = {}
    BY <1>2 DEF BatchInv, ReportInv
  <2>2. \A b \in Attachments : file'[b] = file[b]
    BY <1>1, <1>2, <2>1 DEF BatchMoves, Moves, Working
  <2>3. \A b \in Attachments : file[b] # "created"
    BY <2>1 DEF Working
  <2> QED
    BY <1>1, <2>1, <2>2, <2>3 DEF BatchMoves, Working
<1>3. ASSUME reported' = reported,
             pc'[Batch] \in {"answered", "upload"} => pc'[Batch] = pc[Batch]
      PROVE  ReportInv' /\ reported' \subseteq Attachments
  BY <1>1, <1>2, <1>3 DEF BatchInv, ReportInv
<1>4. CASE BatchEnds
  <2>1. file' = file /\ receipts' = receipts /\ Working = {}
    BY <1>4 DEF BatchEnds
  <2>2. \/ receipts = Attachments /\ Ends(Batch, "answered") /\ reported' = Attachments
        \/ Ends(Batch, "upload") /\ reported' = receipts
        \/ (\E how \in Errors : Ends(Batch, how)) /\ reported' = reported
        \/ Ends(Batch, "cancelled") /\ reported' = reported
    BY <1>4 DEF BatchEnds, Completed
  <2>3. CASE receipts = Attachments /\ Ends(Batch, "answered") /\ reported' = Attachments
    <3>1. pc'[Batch] = "answered"
      BY <1>1, <2>3 DEF Ends
    <3> QED
      BY <2>1, <2>3, <3>1 DEF ReportInv
  <2>4. CASE Ends(Batch, "upload") /\ reported' = receipts
    <3>1. pc'[Batch] = "upload"
      BY <1>1, <2>4 DEF Ends
    <3> QED
      BY <1>1, <2>1, <2>4, <3>1 DEF ReportInv, Working
  <2>5. CASE ((\E how \in Errors : Ends(Batch, how)) \/ Ends(Batch, "cancelled"))
               /\ reported' = reported
    BY <1>1, <1>3, <2>5 DEF Ends, Errors
  <2> QED
    BY <2>2, <2>3, <2>4, <2>5
<1> QED
  BY <1>3, <1>4, BatchPc

-----------------------------------------------------------------------------
(* The invariant of the batch *)

LEMMA InitBatch == Init => BatchInv
<1> SUFFICES ASSUME Init PROVE BatchInv
  OBVIOUS
<1>1. /\ taken = 0 /\ error = "none" /\ torn = FALSE
      /\ receipts = {} /\ reported = {} /\ unsure = {}
      /\ file = [a \in Attachments |-> "waiting"]
      /\ digest = [a \in Attachments |-> "none"]
      /\ part = [p \in Parts |-> "none"]
      /\ documents = [a \in Attachments |-> 0]
  BY DEF Init
<1>2. pc[Batch] = "idle"
  BY DEF Init, ConnectionInit, Callers
<1>3. BatchTypes /\ TakenInOrder
  <2>1. taken \in 0 .. Len(Sizes)
    BY <1>1, AttachmentsAre
  <2>2. TakenInOrder
    BY <1>1, AttachmentsAre DEF TakenInOrder
  <2>3. BatchTypes
    BY <1>1, <2>1 DEF BatchTypes
  <2> QED
    BY <2>2, <2>3
<1>4. CreatedWhole /\ ReceiptsOfDone /\ ReportInv
  BY <1>1, <1>2 DEF CreatedWhole, ReceiptsOfDone, ReportInv
<1> QED
  BY <1>1, <1>3, <1>4 DEF BatchInv

LEMMA BatchStep == BatchInv /\ ConnInv /\ [Next]_vars => BatchInv'
<1> SUFFICES ASSUME BatchInv, ConnInv, [Next]_vars PROVE BatchInv'
  OBVIOUS
<1>1. BatchMoves /\ BatchKeeps
  BY NextMoves, NextKeeps
<1>2. ReportInv' /\ reported' \subseteq Attachments
  BY <1>1, NextReports
<1>3. /\ file \in [Attachments -> {"waiting", "opening", "moving", "draining", "creating",
                                   "created", "done", "failed"}]
      /\ documents \in [Attachments -> Nat]
      /\ \A b \in Attachments : Moves(b)
  BY <1>1 DEF BatchInv, BatchTypes, BatchMoves
<1>4. \A b \in Attachments :
        /\ file'[b] \in {"waiting", "opening", "moving", "draining", "creating", "created", "done",
                         "failed"}
        /\ file'[b] = "waiting" => file[b] = "waiting"
        /\ documents'[b] \in Nat
  BY <1>3 DEF Moves
<1>5. /\ file' \in [Attachments -> {"waiting", "opening", "moving", "draining", "creating",
                                    "created", "done", "failed"}]
      /\ documents' \in [Attachments -> Nat] /\ unsure' \subseteq Attachments
  BY <1>1, <1>4 DEF BatchMoves
<1>6. BatchTypes'
  BY <1>1, <1>2, <1>5 DEF BatchTypes, BatchMoves, BatchKeeps
<1>7. TakenInOrder'
  BY <1>1, <1>4, AttachmentsAre DEF BatchMoves, BatchInv, BatchTypes, TakenInOrder
<1>8. CreatedWhole'
  <2> SUFFICES ASSUME NEW b \in Attachments
      PROVE  /\ documents'[b] \in {0, 1}
             /\ documents'[b] = 1 => file'[b] \in {"created", "done", "failed"} /\ Whole(b)'
             /\ file'[b] \in {"created", "done"} => documents'[b] = 1
             /\ file'[b] \in {"creating", "created", "done"} => Whole(b)'
    BY DEF CreatedWhole
  <2>1. Whole(b) /\ file[b] # "opening" => Whole(b)'
    BY <1>1 DEF BatchKeeps
  <2>2. /\ documents[b] \in {0, 1}
        /\ documents[b] = 1 => file[b] \in {"created", "done", "failed"} /\ Whole(b)
        /\ file[b] \in {"created", "done"} => documents[b] = 1
        /\ file[b] \in {"creating", "created", "done"} => Whole(b)
    BY DEF BatchInv, CreatedWhole
  <2> QED
    BY <1>3, <2>1, <2>2 DEF Moves
<1>9. ReceiptsOfDone'
  <2> SUFFICES ASSUME NEW b \in Attachments
      PROVE  /\ b \in receipts' <=> file'[b] = "done"
             /\ documents'[b] = 1 /\ file'[b] = "failed" => b \in unsure'
    BY DEF ReceiptsOfDone
  <2>1. /\ b \in receipts <=> file[b] = "done"
        /\ documents[b] = 1 /\ file[b] = "failed" => b \in unsure
        /\ documents[b] \in {0, 1}
        /\ documents[b] = 1 => file[b] \in {"created", "done", "failed"}
    BY DEF BatchInv, ReceiptsOfDone, CreatedWhole
  <2>2. /\ b \in receipts' <=> b \in receipts \/ (file[b] = "created" /\ file'[b] = "done")
        /\ b \in unsure => b \in unsure'
    BY <1>1 DEF BatchMoves
  <2> QED
    BY <1>3, <2>1, <2>2 DEF Moves
<1> QED
  BY <1>2, <1>5, <1>6, <1>7, <1>8, <1>9 DEF BatchInv

LEMMA AlwaysBatch == Spec => []BatchInv
<1>1. Init => BatchInv
  BY InitBatch
<1>2. BatchInv /\ ConnInv /\ [Next]_vars => BatchInv'
  BY BatchStep
<1> QED
  BY <1>1, <1>2, AlwaysConn, PTL DEF Spec

\* The connection and the batch above it keep their types.
THEOREM BatchTyped == Spec => []TypeOK
<1>1. ConnInv /\ BatchInv => TypeOK
  BY DEF ConnInv, ConnectionTypes, BatchInv, BatchTypes, TypeOK
<1> QED
  BY <1>1, AlwaysConn, AlwaysBatch, PTL

\* However the workers interleave, no document is created twice or in pieces.
THEOREM DocumentsAreWhole == Spec => []WholeAndOnce
<1>1. BatchInv => WholeAndOnce
  BY DEF BatchInv, CreatedWhole, WholeAndOnce, Whole
<1> QED
  BY <1>1, AlwaysBatch, PTL

\* A caller that is told of a failure is told of every document whose creation
\* was not cut off.
THEOREM ReportsAreComplete == Spec => []ReportsDocuments
<1>1. ASSUME BatchInv PROVE ReportsDocuments
  <2>1. \A a \in reported : documents[a] = 1
    BY <1>1 DEF BatchInv, BatchTypes, ReportInv, ReceiptsOfDone, CreatedWhole
  <2>2. ASSUME pc[Batch] = "upload", NEW a \in Attachments, documents[a] > 0, a \notin reported
        PROVE  a \in unsure
    <3>1. reported = receipts /\ Working = {} /\ documents[a] = 1
      BY <1>1, <2>2 DEF BatchInv, ReportInv, CreatedWhole
    <3>2. file[a] # "done" /\ file[a] # "created"
      BY <1>1, <2>2, <3>1 DEF BatchInv, ReceiptsOfDone, Working
    <3> QED
      BY <1>1, <3>1, <3>2 DEF BatchInv, ReceiptsOfDone, CreatedWhole
  <2> QED
    BY <1>1, <2>1, <2>2 DEF BatchInv, ReportInv, ReportsDocuments
<1> QED
  BY <1>1, AlwaysBatch, PTL

-----------------------------------------------------------------------------
(* What runs, and that it stops *)

LEMMA IntervalFinite == \A n \in Nat : IsFiniteSet(1 .. n)
<1> SUFFICES ASSUME NEW n \in Nat PROVE IsFiniteSet(1 .. n)
  OBVIOUS
<1>1. 1 \in Int /\ n \in Int
  OBVIOUS
<1> QED
  BY <1>1, FS_Interval, Zenon

LEMMA PartsFinite == IsFiniteSet(Parts) /\ IsFiniteSet(Attachments)
<1>1. Attachments = 1 .. Len(Sizes) /\ Len(Sizes) \in Nat
  BY AttachmentsAre
<1>2. IsFiniteSet(Attachments)
  BY <1>1, IntervalFinite
<1>3. \A a \in Attachments : IsFiniteSet({a} \X (1 .. Sizes[a]))
  <2> SUFFICES ASSUME NEW a \in Attachments PROVE IsFiniteSet({a} \X (1 .. Sizes[a]))
    OBVIOUS
  <2>1. Sizes[a] \in Nat
    BY <1>1, SizesAssumption
  <2>2. IsFiniteSet(1 .. Sizes[a]) /\ IsFiniteSet({a})
    BY <2>1, IntervalFinite, FS_Singleton
  <2> QED
    BY <2>2, FS_Product
<1>4. IsFiniteSet({{a} \X (1 .. Sizes[a]) : a \in Attachments})
  <2> DEFINE own == [a \in Attachments |-> {a} \X (1 .. Sizes[a])]
             Owned == {{a} \X (1 .. Sizes[a]) : a \in Attachments}
  <2>1. own \in Surjection(Attachments, Owned)
    BY DEF Surjection
  <2> QED
    BY <1>2, <2>1, FS_Surjection
<1>5. IsFiniteSet(UNION {{a} \X (1 .. Sizes[a]) : a \in Attachments})
  BY <1>3, <1>4, FS_UNION
<1> QED
  BY <1>2, <1>5 DEF Parts

LEMMA PartsOwned == \A p \in Parts : p[1] \in Attachments /\ p \in Own(p[1])
  BY DEF Parts, Own

LEMMA Smaller ==
  ASSUME NEW S, NEW T, IsFiniteSet(S), T \subseteq S, Cardinality(S) <= Limit
  PROVE  Cardinality(T) <= Limit
<1>1. IsFiniteSet(T) /\ Cardinality(T) <= Cardinality(S)
  BY FS_Subset
<1>2. Cardinality(S) \in Nat /\ Cardinality(T) \in Nat /\ Limit \in Nat
  BY <1>1, FS_CardinalityType, LimitAssumption
<1> QED
  BY <1>1, <1>2

\* Steps that put no part.
LEMMA PuttingShrinks ==
  ASSUME BatchInv, QuietInv, puts' = puts,
         \A p \in Parts : part'[p] \in {"putting", "stopping"} => part[p] \in {"putting", "stopping"},
         \A p \in Parts : part'[p] = "queued" => part[p] = "queued" \/ puts[p] = 0
  PROVE  Cardinality(Putting') <= Limit /\ PutsBounded'
<1>1. Putting' \subseteq Putting /\ IsFiniteSet(Putting)
  BY PartsFinite, FS_Subset DEF Putting
<1>2. Cardinality(Putting') <= Limit
  BY <1>1, Smaller DEF QuietInv
<1>3. PutsBounded'
  BY MaxPutsAssumption DEF QuietInv, PutsBounded
<1> QED
  BY <1>2, <1>3

LEMMA CancelledPart ==
  ASSUME NEW state
  PROVE  /\ Cancelled(state) \notin {"queued", "putting"}
         /\ Cancelled(state) = "stopping" => state \in {"putting", "stopping"}
         /\ state \in {"none", "put", "failed"} => Cancelled(state) = state
  BY DEF Cancelled

\* A part takes a place only when one is free, and loses it with its attempt.
LEMMA PartStepPuts ==
  ASSUME BatchInv, QuietInv, NEW p \in Parts, PartStep(p)
  PROVE  Cardinality(Putting') <= Limit /\ PutsBounded'
<1>1. /\ part \in [Parts -> {"none", "queued", "putting", "stopping", "put", "failed"}]
      /\ puts \in [Parts -> 0 .. MaxPuts] /\ MaxPuts \in Nat \ {0} /\ Limit \in Nat
      /\ \A q \in Parts : part[q] = "queued" => puts[q] < MaxPuts
  BY MaxPutsAssumption, LimitAssumption DEF BatchInv, BatchTypes, QuietInv, PutsBounded
<1>2. IsFiniteSet(Putting) /\ Cardinality(Putting) \in Nat /\ Cardinality(Putting) <= Limit
  BY PartsFinite, FS_Subset, FS_CardinalityType DEF Putting, QuietInv
<1>3. CASE PutStarts(p)
  <2>1. /\ part[p] = "queued" /\ Cardinality(Putting) < Limit
        /\ part' = [part EXCEPT ![p] = "putting"] /\ puts' = [puts EXCEPT ![p] = puts[p] + 1]
    BY <1>3 DEF PutStarts, PlaceFree
  <2>2. Putting' = Putting \cup {p} /\ p \notin Putting
    BY <1>1, <2>1 DEF Putting
  <2>3. Cardinality(Putting') <= Limit
    <3>1. Cardinality(Putting \cup {p}) = Cardinality(Putting) + 1
      BY <1>2, <2>2, FS_AddElement
    <3>2. Cardinality(Putting') = Cardinality(Putting) + 1
      BY <2>2, <3>1
    <3> QED
      BY <1>1, <1>2, <2>1, <3>2
  <2>4. puts' \in [Parts -> 0 .. MaxPuts]
    BY <1>1, <2>1
  <2>5. \A q \in Parts : part'[q] = "queued" => puts'[q] < MaxPuts
    BY <1>1, <2>1
  <2> QED
    BY <2>3, <2>4, <2>5 DEF PutsBounded
<1>4. ASSUME NEW how \in {"queued", "put", "failed"}, part' = [part EXCEPT ![p] = how]
      PROVE  Cardinality(Putting') <= Limit
  <2>1. Putting' \subseteq Putting
    BY <1>1, <1>4 DEF Putting
  <2> QED
    BY <1>2, <2>1, Smaller
<1>5. CASE PutEnds(p)
  <2>1. CASE \E how \in {"put", "failed"} :
               part' = [part EXCEPT ![p] = how] /\ puts' = [puts EXCEPT ![p] = 0]
    <3>1. puts' \in [Parts -> 0 .. MaxPuts]
      BY <1>1, <2>1
    <3>2. \A q \in Parts : part'[q] = "queued" => puts'[q] < MaxPuts
      BY <1>1, <2>1
    <3> QED
      BY <1>4, <2>1, <3>1, <3>2 DEF PutsBounded
  <2>2. CASE puts[p] < MaxPuts /\ part' = [part EXCEPT ![p] = "queued"] /\ puts' = puts
    BY <1>1, <1>4, <2>2 DEF PutsBounded
  <2> QED
    BY <1>5, <2>1, <2>2 DEF PutEnds
<1>6. CASE PartStopped(p)
  BY <1>1, <1>4, <1>6 DEF PartStopped, PutsBounded
<1> QED
  BY <1>3, <1>5, <1>6 DEF PartStep

LEMMA PuttingStep ==
  ASSUME BatchInv, QuietInv, [Next]_vars
  PROVE  Cardinality(Putting') <= Limit /\ PutsBounded'
<1>1. part \in [Parts -> {"none", "queued", "putting", "stopping", "put", "failed"}]
  BY DEF BatchInv, BatchTypes
<1>2. CASE \E p \in Parts : PartStep(p)
  BY <1>2, PartStepPuts
<1>3. CASE UNCHANGED <<part, puts>>
  BY <1>3, PuttingShrinks
<1>4. ASSUME NEW kind, TearsDown(kind) PROVE Cardinality(Putting') <= Limit /\ PutsBounded'
  <2>1. puts' = puts /\ \A p \in Parts : part'[p] = Cancelled(part[p])
    BY <1>4 DEF TearsDown
  <2> QED
    BY <2>1, CancelledPart, PuttingShrinks
<1>5. ASSUME NEW a \in Attachments, FileStep(a), ~UNCHANGED <<part, puts>>
      PROVE  Cardinality(Putting') <= Limit /\ PutsBounded'
  <2>1. CASE UploadOpened(a)
    <3>1. /\ puts' = puts /\ file[a] = "opening"
          /\ \A p \in Parts : part'[p] = IF p \in Own(a) THEN "queued" ELSE part[p]
      BY <2>1 DEF UploadOpened
    <3>2. \A p \in Own(a) : puts[p] = 0
      BY <3>1 DEF QuietInv, FileQuiet
    <3> QED
      BY <3>1, <3>2, PuttingShrinks
  <2>2. CASE FileFails(a)
    <3>1. /\ puts' = puts
          /\ \A p \in Parts : part'[p] = IF p \in Own(a) THEN Cancelled(part[p]) ELSE part[p]
      BY <2>2 DEF FileFails, StopsFile
    <3> QED
      BY <3>1, CancelledPart, PuttingShrinks
  <2> QED
    BY <1>5, <2>1, <2>2 DEF FileStep, UploadRefused, Digest, DigestStopped, FileFailed, CreateStarts,
      PlatformCreates, CreateRefused, CreateLost, Receipt
<1>6. CASE UNCHANGED vars \/ Invalid \/ NoAgent \/ Connecting \/ BatchStarts \/ BatchEnds
  BY <1>3, <1>6 DEF vars, uploadVars, Invalid, NoAgent, Connecting, BatchStarts, BatchEnds
<1> QED
  BY <1>2, <1>3, <1>4, <1>5, <1>6 DEF Next, Uploading, CallerCancelled, WorkerFailed

\* A worker takes the next attachment only when it is done with the last.
LEMMA WorkingStep ==
  ASSUME BatchInv, ConnInv, QuietInv, [Next]_vars
  PROVE  Cardinality(Working') <= Limit /\ (pc'[Batch] # "uploading" => Working' = {})
<1>1. /\ BatchMoves /\ Limit \in Nat \ {0}
      /\ IsFiniteSet(Working) /\ Cardinality(Working) \in Nat /\ Cardinality(Working) <= Limit
  BY NextMoves, LimitAssumption, PartsFinite, FS_Subset, FS_CardinalityType DEF Working, QuietInv
<1>2. /\ Attachments = 1 .. Len(Sizes) /\ Len(Sizes) \in Nat /\ taken \in 0 .. Len(Sizes)
      /\ file \in [Attachments -> {"waiting", "opening", "moving", "draining", "creating",
                                   "created", "done", "failed"}]
      /\ \A a \in Attachments : file[a] = "waiting" <=> a > taken
  BY AttachmentsAre DEF BatchInv, BatchTypes, TakenInOrder
<1>3. ASSUME taken' = taken PROVE Working' \subseteq Working
  <2>1. \A a \in Attachments : ~(file[a] = "waiting" /\ file'[a] # "waiting")
    BY <1>1, <1>2, <1>3 DEF BatchMoves
  <2> QED
    BY <1>1, <2>1 DEF BatchMoves, Moves, Working
<1>4. Cardinality(Working') <= Limit
  <2>1. CASE taken' = taken
    BY <1>1, <1>3, <2>1, Smaller
  <2>2. CASE BatchStarts
    <3>1. taken = 0 /\ file' = [a \in Attachments |->
            CASE a \in {b \in Attachments : b <= Limit} /\ TransportUp -> "opening"
              [] a \in {b \in Attachments : b <= Limit} /\ ~TransportUp -> "failed"
              [] OTHER -> file[a]]
      BY <2>2 DEF BatchStarts, Takes
    <3>2. \A a \in Attachments : file'[a] \in {"opening", "failed", "waiting"}
                                 /\ (file'[a] # "waiting" => a <= Limit)
      BY <1>2, <3>1
    <3>3. Working' \subseteq 1 .. Limit
      BY <1>1, <1>2, <3>2 DEF Working
    <3>4. IsFiniteSet(1 .. Limit) /\ Cardinality(1 .. Limit) <= Limit
      <4>1. 1 \in Int /\ Limit \in Int
        BY <1>1
      <4>2. Cardinality(1 .. Limit) = IF 1 > Limit THEN 0 ELSE Limit - 1 + 1
        BY <4>1, FS_Interval, Zenon
      <4> QED
        BY <1>1, <4>2, IntervalFinite
    <3> QED
      BY <3>3, <3>4, Smaller
  <2>3. ASSUME NEW a \in Attachments, Receipt(a) PROVE Cardinality(Working') <= Limit
    <3>1. /\ a \in Working
          /\ file' = [b \in Attachments |->
               CASE b \in NextOf(a) /\ TransportUp -> "opening"
                 [] b \in NextOf(a) /\ ~TransportUp -> "failed"
                 [] OTHER -> [file EXCEPT ![a] = "done"][b]]
      BY <2>3 DEF Receipt, Takes, Working
    <3>2. \A b \in Attachments : b \notin NextOf(a) =>
            file'[b] = IF b = a THEN "done" ELSE file[b]
      BY <1>2, <3>1
    <3>3. Working' \subseteq (Working \ {a}) \cup {taken + 1}
      BY <3>2 DEF Working, NextOf
    <3>4. IsFiniteSet(Working \ {a}) /\ Cardinality(Working \ {a}) = Cardinality(Working) - 1
      BY <1>1, <3>1, FS_RemoveElement
    <3> DEFINE rest == Working \ {a}
    <3>5. /\ IsFiniteSet(rest \cup {taken + 1})
          /\ Cardinality(rest \cup {taken + 1}) =
               IF taken + 1 \in rest THEN Cardinality(rest) ELSE Cardinality(rest) + 1
      BY <3>4, FS_AddElement
    <3>6. Cardinality(rest \cup {taken + 1}) <= Limit
      BY <1>1, <3>4, <3>5
    <3> QED
      BY <3>3, <3>5, <3>6, Smaller
  <2>4. ASSUME NEW a \in Attachments, FileStep(a), ~Receipt(a) PROVE taken' = taken
    BY <2>4 DEF FileStep, UploadOpened, UploadRefused, Digest, FileFails, DigestStopped, FileFailed,
      CreateStarts, PlatformCreates, CreateRefused, CreateLost
  <2>5. CASE \E p \in Parts : PartStep(p)
    BY <2>1, <2>5 DEF PartStep, PutStarts, PutEnds, PartStopped
  <2>6. CASE \/ UNCHANGED vars \/ Invalid \/ NoAgent \/ Connecting \/ BatchEnds
             \/ CallerCancelled \/ WorkerFailed
    BY <2>1, <2>6 DEF vars, uploadVars, Invalid, NoAgent, Connecting, BatchEnds, CallerCancelled,
      WorkerFailed, TearsDown
  <2> QED
    BY <2>1, <2>2, <2>3, <2>4, <2>5, <2>6 DEF Next, Uploading
<1>5. ASSUME pc'[Batch] # "uploading" PROVE Working' = {}
  <2>1. CASE BatchEnds
    BY <2>1 DEF BatchEnds, Working
  <2>2. CASE ~BatchEnds
    <3>1. pc[Batch] # "uploading" /\ Working = {}
      BY <1>5, <2>2, BatchPc DEF QuietInv
    <3> QED
      BY <1>1, <3>1 DEF BatchMoves, Moves, Working
  <2> QED
    BY <2>1, <2>2
<1> QED
  BY <1>4, <1>5

\* An attachment whose own state does not change.
LEMMA FileUntouched ==
  ASSUME NEW b, FileQuiet(b), file'[b] = file[b], digest'[b] = digest[b],
         \A p \in Own(b) : part'[p] = part[p] /\ puts'[p] = puts[p]
  PROVE  FileQuiet(b)'
  BY DEF FileQuiet, Own

\* An attachment that changes its state while nothing of it does.
LEMMA FileMoved ==
  ASSUME NEW b, FileQuiet(b), digest'[b] = digest[b],
         \A p \in Own(b) : part'[p] = part[p] /\ puts'[p] = puts[p],
         \/ Whole(b) /\ file'[b] \notin {"waiting", "opening"}
         \/ file[b] \in {"waiting", "opening"} /\ file'[b] \in {"opening", "failed"}
         \/ file[b] = "draining" /\ Drained(b) /\ file'[b] = "failed"
         \/ file'[b] = file[b]
  PROVE  FileQuiet(b)'
  BY DEF FileQuiet, Own, Whole, Drained

\* An attachment that drains: what was to start is gone, and what runs is cancelled.
LEMMA FileDrains ==
  ASSUME NEW b, FileQuiet(b), file'[b] = "draining",
         digest'[b] = IF digest[b] = "reading" THEN "stopping" ELSE digest[b],
         \A p \in Own(b) : part'[p] = Cancelled(part[p])
  PROVE  FileQuiet(b)'
  BY CancelledPart DEF FileQuiet, Own

LEMMA FileStepQuiet ==
  ASSUME BatchInv, QuietInv, NEW a \in Attachments, FileStep(a), NEW b \in Attachments
  PROVE  FileQuiet(b)'
<1>1. /\ file \in [Attachments -> {"waiting", "opening", "moving", "draining", "creating",
                                   "created", "done", "failed"}]
      /\ digest \in [Attachments -> {"none", "reading", "stopping", "read", "failed"}]
      /\ part \in [Parts -> {"none", "queued", "putting", "stopping", "put", "failed"}]
      /\ \A p \in Parts : p \in Own(b) <=> p[1] = b
      /\ Own(b) \subseteq Parts /\ FileQuiet(b)
      /\ file[b] \in {"creating", "created", "done"} => Whole(b)
      /\ \A c \in Attachments : file[c] = "waiting" <=> c > taken
  BY DEF BatchInv, BatchTypes, QuietInv, Own, CreatedWhole, TakenInOrder
<1>2. CASE UploadOpened(a)
  <2>1. /\ file' = [file EXCEPT ![a] = "moving"] /\ digest' = [digest EXCEPT ![a] = "reading"]
        /\ puts' = puts
        /\ \A p \in Parts : part'[p] = IF p \in Own(a) THEN "queued" ELSE part[p]
    BY <1>2 DEF UploadOpened, FileIs
  <2>2. CASE b = a
    BY <1>1, <2>1, <2>2 DEF FileQuiet
  <2>3. CASE b # a
    BY <1>1, <2>1, <2>3, FileUntouched DEF Own
  <2> QED
    BY <2>2, <2>3
<1>3. CASE Digest(a)
  <2>1. /\ digest[a] = "reading" /\ file' = file /\ part' = part /\ puts' = puts
        /\ \E how \in {"read", "failed"} : digest' = [digest EXCEPT ![a] = how]
    BY <1>3 DEF Digest
  <2>2. CASE b = a
    BY <1>1, <2>1, <2>2 DEF FileQuiet, Own
  <2>3. CASE b # a
    BY <1>1, <2>1, <2>3, FileUntouched
  <2> QED
    BY <2>2, <2>3
<1>4. CASE DigestStopped(a)
  <2>1. /\ digest[a] = "stopping" /\ file' = file /\ part' = part /\ puts' = puts
        /\ digest' = [digest EXCEPT ![a] = "failed"]
    BY <1>4 DEF DigestStopped
  <2>2. CASE b = a
    BY <1>1, <2>1, <2>2 DEF FileQuiet, Own
  <2>3. CASE b # a
    BY <1>1, <2>1, <2>3, FileUntouched
  <2> QED
    BY <2>2, <2>3
<1>5. CASE FileFails(a)
  <2>1. /\ file' = [file EXCEPT ![a] = "draining"] /\ puts' = puts
        /\ digest' = [digest EXCEPT ![a] = IF digest[a] = "reading" THEN "stopping" ELSE digest[a]]
        /\ \A p \in Parts : part'[p] = IF p \in Own(a) THEN Cancelled(part[p]) ELSE part[p]
    BY <1>5 DEF FileFails, StopsFile, FileIs
  <2>2. CASE b = a
    BY <1>1, <2>1, <2>2, FileDrains
  <2>3. CASE b # a
    BY <1>1, <2>1, <2>3, FileUntouched DEF Own
  <2> QED
    BY <2>2, <2>3
<1>6. ASSUME UNCHANGED <<digest, part, puts>>, NEW state, FileIs(a, state),
             \/ Whole(a) /\ state \notin {"waiting", "opening"}
             \/ file[a] \in {"waiting", "opening"} /\ state \in {"opening", "failed"}
             \/ file[a] = "draining" /\ Drained(a) /\ state = "failed"
      PROVE  FileQuiet(b)'
  <2>1. file' = [file EXCEPT ![a] = state]
    BY <1>6 DEF FileIs
  <2>2. CASE b = a
    BY <1>1, <1>6, <2>1, <2>2, FileMoved
  <2>3. CASE b # a
    BY <1>1, <1>6, <2>1, <2>3, FileUntouched
  <2> QED
    BY <2>2, <2>3
<1>7. file[a] \in {"creating", "created"} => Whole(a)
  BY DEF BatchInv, CreatedWhole
<1>8. CASE UploadRefused(a)
  BY <1>6, <1>8 DEF UploadRefused, Fails
<1>9. CASE FileFailed(a)
  BY <1>6, <1>9 DEF FileFailed, Fails
<1>10. CASE CreateStarts(a)
  BY <1>6, <1>10 DEF CreateStarts, Fails
<1>11. CASE PlatformCreates(a)
  BY <1>6, <1>7, <1>11 DEF PlatformCreates
<1>12. CASE CreateRefused(a) \/ CreateLost(a)
  BY <1>6, <1>7, <1>12 DEF CreateRefused, CreateLost, Fails
<1>13. CASE Receipt(a)
  <2>1. /\ file[a] = "created" /\ UNCHANGED <<digest, part, puts>>
        /\ file' = [c \in Attachments |->
             CASE c \in NextOf(a) /\ TransportUp -> "opening"
               [] c \in NextOf(a) /\ ~TransportUp -> "failed"
               [] OTHER -> [file EXCEPT ![a] = "done"][c]]
    BY <1>13 DEF Receipt, Takes
  <2>2. IF b \in NextOf(a) THEN file'[b] \in {"opening", "failed"}
                           ELSE file'[b] = IF b = a THEN "done" ELSE file[b]
    BY <1>1, <2>1
  <2>3. b \in NextOf(a) => file[b] = "waiting"
    BY <1>1, AttachmentsAre DEF NextOf, BatchInv, BatchTypes
  <2> QED
    BY <1>1, <2>1, <2>2, <2>3, FileMoved
<1> QED
  BY <1>2, <1>3, <1>4, <1>5, <1>8, <1>9, <1>10, <1>11, <1>12, <1>13 DEF FileStep

LEMMA PartStepQuiet ==
  ASSUME BatchInv, QuietInv, NEW q \in Parts, PartStep(q), NEW b \in Attachments
  PROVE  FileQuiet(b)'
<1>1. /\ part \in [Parts -> {"none", "queued", "putting", "stopping", "put", "failed"}]
      /\ puts \in [Parts -> 0 .. MaxPuts]
      /\ Own(b) \subseteq Parts /\ FileQuiet(b)
  BY DEF BatchInv, BatchTypes, QuietInv, Own, PutsBounded
<1>2. /\ UNCHANGED <<file, digest>>
      /\ \/ part[q] \in {"queued", "putting"}
            /\ \E how \in {"queued", "putting", "put", "failed"} : part' = [part EXCEPT ![q] = how]
         \/ part[q] = "stopping" /\ part' = [part EXCEPT ![q] = "failed"]
      /\ \A p \in Parts : p # q => puts'[p] = puts[p]
  BY <1>1 DEF PartStep, PutStarts, PutEnds, PartStopped
<1>3. CASE q \in Own(b)
  <2>1. file[b] \notin {"waiting", "opening", "failed"}
    BY <1>1, <1>2, <1>3 DEF FileQuiet
  <2>2. file[b] = "draining" => part[q] = "stopping"
    BY <1>1, <1>2, <1>3 DEF FileQuiet
  <2> QED
    BY <1>1, <1>2, <2>1, <2>2 DEF FileQuiet, Own
<1>4. CASE q \notin Own(b)
  BY <1>1, <1>2, <1>4, FileUntouched
<1> QED
  BY <1>3, <1>4

LEMMA FilesQuietStep ==
  ASSUME BatchInv, QuietInv, [Next]_vars, NEW b \in Attachments
  PROVE  FileQuiet(b)'
<1>1. FileQuiet(b) /\ Own(b) \subseteq Parts
  BY DEF QuietInv, Own
<1>2. CASE UNCHANGED <<file, digest, part, puts>>
  BY <1>1, <1>2, FileUntouched
<1>3. CASE UNCHANGED vars \/ Invalid \/ NoAgent \/ Connecting \/ BatchEnds
  BY <1>2, <1>3 DEF vars, uploadVars, Invalid, NoAgent, Connecting, BatchEnds
<1>4. CASE BatchStarts
  <2>1. /\ taken = 0 /\ UNCHANGED <<digest, part, puts>>
        /\ file' = [a \in Attachments |->
             CASE a \in {c \in Attachments : c <= Limit} /\ TransportUp -> "opening"
               [] a \in {c \in Attachments : c <= Limit} /\ ~TransportUp -> "failed"
               [] OTHER -> file[a]]
    BY <1>4 DEF BatchStarts, Takes
  <2>2. file[b] = "waiting"
    BY <2>1, AttachmentsAre DEF BatchInv, TakenInOrder
  <2>3. file'[b] \in {"opening", "failed", "waiting"}
    BY <2>1, <2>2
  <2> QED
    BY <1>1, <2>1, <2>2, <2>3, FileMoved
<1>5. ASSUME NEW kind, TearsDown(kind) PROVE FileQuiet(b)'
  <2>1. /\ puts' = puts
        /\ file' = [a \in Attachments |->
             CASE file[a] \in {"opening", "creating", "created"} -> "failed"
               [] file[a] = "moving" -> "draining"
               [] OTHER -> file[a]]
        /\ digest'[b] = IF digest[b] = "reading" THEN "stopping" ELSE digest[b]
        /\ \A p \in Parts : part'[p] = Cancelled(part[p])
    BY <1>5 DEF TearsDown
  <2>2. CASE file[b] = "moving" \/ file[b] = "draining"
    <3>1. file'[b] = "draining"
      BY <2>1, <2>2
    <3> QED
      BY <1>1, <2>1, <3>1, FileDrains
  <2>3. CASE file[b] \notin {"moving", "draining"}
    <3>1. file[b] \in {"waiting", "opening", "creating", "created", "done", "failed"}
          /\ digest[b] \in {"none", "reading", "stopping", "read", "failed"}
          /\ \A p \in Own(b) :
               part[p] \in {"none", "queued", "putting", "stopping", "put", "failed"}
      BY <1>1, <2>3 DEF BatchInv, BatchTypes
    <3>2. digest[b] \notin {"reading", "stopping"}
          /\ \A p \in Own(b) : part[p] \in {"none", "put", "failed"}
      BY <1>1, <3>1 DEF FileQuiet, BatchInv, CreatedWhole, Whole
    <3>3. digest'[b] = digest[b] /\ \A p \in Own(b) : part'[p] = part[p] /\ puts'[p] = puts[p]
      BY <1>1, <2>1, <3>2, CancelledPart
    <3>4. file'[b] = IF file[b] \in {"opening", "creating", "created"} THEN "failed" ELSE file[b]
      BY <2>1, <2>3
    <3>5. file[b] \in {"creating", "created"} => Whole(b)
      BY DEF BatchInv, CreatedWhole
    <3> QED
      BY <1>1, <3>3, <3>4, <3>5, FileMoved
  <2> QED
    BY <2>2, <2>3
<1> QED
  BY <1>3, <1>4, <1>5, FileStepQuiet, PartStepQuiet
     DEF Next, Uploading, CallerCancelled, WorkerFailed

LEMMA InitQuiet == Init => QuietInv
<1> SUFFICES ASSUME Init PROVE QuietInv
  OBVIOUS
<1>1. /\ file = [a \in Attachments |-> "waiting"] /\ digest = [a \in Attachments |-> "none"]
      /\ part = [p \in Parts |-> "none"] /\ puts = [p \in Parts |-> 0]
  BY DEF Init
<1>2. Putting = {} /\ Working = {} /\ Limit \in Nat /\ MaxPuts \in Nat
  BY <1>1, LimitAssumption, MaxPutsAssumption DEF Putting, Working
<1>3. Cardinality(Putting) <= Limit /\ Cardinality(Working) <= Limit
  BY <1>2, FS_EmptySet
<1>4. \A a \in Attachments : FileQuiet(a)
  BY <1>1 DEF FileQuiet, Own
<1> QED
  BY <1>1, <1>2, <1>3, <1>4 DEF QuietInv, PutsBounded

LEMMA AlwaysQuiet == Spec => []QuietInv
<1>1. BatchInv /\ ConnInv /\ QuietInv /\ [Next]_vars => QuietInv'
  <2> SUFFICES ASSUME BatchInv, ConnInv, QuietInv, [Next]_vars PROVE QuietInv'
    OBVIOUS
  <2>1. \A a \in Attachments : FileQuiet(a)'
    BY FilesQuietStep
  <2> QED
    BY <2>1, PuttingStep, WorkingStep DEF QuietInv
<1> QED
  BY <1>1, InitQuiet, AlwaysBatch, AlwaysConn, PTL DEF Spec

\* However the batch ends, and however often it is cancelled while it is torn
\* down, nothing of it runs on, and no more ran than the limits allow.
THEOREM NothingRunsOn == Spec => []QuietWhenOver
<1>1. ASSUME BatchInv, QuietInv PROVE QuietWhenOver
  <2>1. \A p \in Parts : puts[p] <= MaxPuts
    BY <1>1, MaxPutsAssumption DEF QuietInv, PutsBounded
  <2>2. ASSUME pc[Batch] \in Over, NEW a \in Attachments
        PROVE  /\ Working = {} /\ digest[a] \notin {"reading", "stopping"}
               /\ \A p \in Own(a) : part[p] \notin {"queued", "putting", "stopping"}
    <3>1. Working = {}
      BY <1>1, <2>2 DEF QuietInv, Over, Errors
    <3>2. file[a] \in {"waiting", "done", "failed"}
      BY <1>1, <3>1 DEF BatchInv, BatchTypes, Working
    <3> QED
      BY <1>1, <3>1, <3>2 DEF QuietInv, FileQuiet, BatchInv, CreatedWhole, Whole
  <2> QED
    BY <1>1, <2>1, <2>2, PartsOwned, AttachmentsAre, SizesAssumption DEF QuietWhenOver, QuietInv
<1> QED
  BY <1>1, AlwaysBatch, AlwaysQuiet, PTL
=============================================================================
