---------------------------- MODULE PhoneProofs ----------------------------
(***************************************************************************)
(* Proofs about the two ends of the phone's connection.                    *)
(*                                                                         *)
(* MobileGateway, for any connections, devices and limits: the tables      *)
(* never hold more connections than max_connections, and a session is      *)
(* opened only for a device that is in the store at that moment. What      *)
(* depends on fairness (revoked phones lose their session, connections     *)
(* told to close end) is left to TLC.                                      *)
(*                                                                         *)
(* MobileApp, for every number of clients and commands: a session that was *)
(* left stays gone from the screen, and the approval screen shows the      *)
(* command it asks about. Both rest on the same two facts. disconnect()    *)
(* cancels the connect task of the client it drops, because operationTask  *)
(* is always that client's (ClientInv); and it makes stale every request   *)
(* that is under way, so that the one answer the view model may still take *)
(* is of the client in use (RequestInv).                                   *)
(***************************************************************************)
EXTENDS Phone, FiniteSetTheorems, TLAPS

-----------------------------------------------------------------------------
(* The gateway *)

\* The tables are finite, which a bound on their size does not say by itself.
GatewayInv == GatewayTypeOK /\ IsFiniteSet(Registered)

LEMMA GatewayInvInit == GatewayInit => GatewayInv
  <1> SUFFICES ASSUME GatewayInit
               PROVE  GatewayInv
    OBVIOUS
  <1>1. Registered = {}
    BY DEF GatewayInit, Registered
  <1>2. IsFiniteSet(Registered) /\ Cardinality(Registered) <= MAX_CONNECTIONS
    BY <1>1, FS_EmptySet, GatewayConstants
  <1>3. QED
    BY <1>2, GatewayConstants DEF GatewayInit, GatewayInv, GatewayTypeOK, Phase

\* A step that takes connections out of the tables, or none, and forgets the
\* device of those that it takes out.
LEMMA TablesShrink ==
    ASSUME GatewayInv, Registered' \subseteq Registered,
           paired' \subseteq Device, trusted' \subseteq Device, readable' \in BOOLEAN,
           phase' \in [Conn -> Phase], device' \in [Conn -> Device \cup {NoDevice}],
           inbox' \in [Conn -> 0..INBOX], unsent' \in [Conn -> BOOLEAN],
           closing' \in [Conn -> BOOLEAN], lost' \in [Conn -> BOOLEAN],
           stage' \in {"serving", "stopping", "waiting", "stopped"},
           \A c \in Conn : device'[c] # NoDevice => c \in Registered'
    PROVE  GatewayInv'
  <1>1. IsFiniteSet(Registered') /\ Cardinality(Registered') <= Cardinality(Registered)
        /\ Cardinality(Registered) \in Nat /\ Cardinality(Registered') \in Nat
    BY FS_Subset, FS_CardinalityType DEF GatewayInv
  <1>2. Cardinality(Registered') <= MAX_CONNECTIONS
    BY <1>1, GatewayConstants DEF GatewayInv, GatewayTypeOK
  <1>3. QED
    BY <1>1, <1>2 DEF GatewayInv, GatewayTypeOK

\* The finally block.
LEMMA EndStep ==
    ASSUME GatewayInv, NEW c \in Conn, End(c), UNCHANGED <<storeVars, stage>>,
           trusted' \subseteq Device
    PROVE  GatewayInv'
  <1> USE DEF GatewayInv, GatewayTypeOK
  <1>1. /\ phase' = [phase EXCEPT ![c] = "finishing"] /\ device' = [device EXCEPT ![c] = NoDevice]
        /\ inbox' = [inbox EXCEPT ![c] = 0] /\ closing' = [closing EXCEPT ![c] = TRUE]
        /\ UNCHANGED <<unsent, lost, paired, readable, stage>>
    BY DEF End, storeVars
  <1>2. phase' \in [Conn -> Phase] /\ Registered' = Registered \ {c}
    BY <1>1 DEF Phase, Registered
  <1>3. inbox' \in [Conn -> 0..INBOX]
    BY <1>1, GatewayConstants
  <1>4. /\ device' \in [Conn -> Device \cup {NoDevice}] /\ closing' \in [Conn -> BOOLEAN]
        /\ \A k \in Conn : device'[k] # NoDevice => k \in Registered'
    BY <1>1, <1>2
  <1> USE DEF GatewayInv
  <1>5. QED
    BY <1>1, <1>2, <1>3, <1>4, TablesShrink

\* A client takes a place only below the limit.
LEMMA StartStep ==
    ASSUME GatewayInv, NEW c \in Conn, StartClient(c)
    PROVE  GatewayInv'
  <1>1. CASE Full
    BY <1>1, EndStep DEF StartClient, GatewayInv, GatewayTypeOK
  <1>2. CASE ~ Full
    <2>1. /\ phase[c] = "accepted" /\ phase' = [phase EXCEPT ![c] = "reading"]
          /\ UNCHANGED <<device, inbox, unsent, closing, lost, paired, readable, trusted, stage>>
      BY <1>2 DEF StartClient, storeVars
    <2>2. phase' \in [Conn -> Phase] /\ Registered' = Registered \cup {c} /\ c \notin Registered
      BY <2>1 DEF GatewayInv, GatewayTypeOK, Phase, Registered
    <2>3. IsFiniteSet(Registered') /\ Cardinality(Registered') = Cardinality(Registered) + 1
      BY <2>2, FS_AddElement DEF GatewayInv
    <2>4. Cardinality(Registered) \in Nat /\ ~ (Cardinality(Registered) >= MAX_CONNECTIONS)
      BY <1>2, FS_CardinalityType DEF GatewayInv, Full
    <2>5. Cardinality(Registered') <= MAX_CONNECTIONS
      BY <2>3, <2>4, GatewayConstants
    <2>6. QED
      BY <2>1, <2>2, <2>3, <2>5 DEF GatewayInv, GatewayTypeOK
  <1>3. QED
    BY <1>1, <1>2

\* An answer is written; the handler goes on reading or waits for the buffer.
LEMMA WriteFacts ==
    ASSUME GatewayInv, NEW c \in Conn, ReadsFrame(c), WriteAndWait(c)
    PROVE  /\ phase' \in [Conn -> Phase] /\ Registered' = Registered /\ c \in Registered
           /\ inbox' \in [Conn -> 0..INBOX] /\ unsent' \in [Conn -> BOOLEAN]
           /\ UNCHANGED <<closing, lost>>
  <1>1. /\ phase' = phase \/ phase' = [phase EXCEPT ![c] = "draining"]
        /\ unsent' = unsent \/ unsent' = [unsent EXCEPT ![c] = TRUE]
        /\ inbox' = [inbox EXCEPT ![c] = inbox[c] - 1] /\ inbox[c] > 0 /\ phase[c] = "reading"
        /\ UNCHANGED <<closing, lost>>
    BY DEF WriteAndWait, TakeFrame, ReadsFrame
  <1>2. phase' \in [Conn -> Phase] /\ Registered' = Registered /\ c \in Registered
    BY <1>1 DEF GatewayInv, GatewayTypeOK, Phase, Registered
  <1>3. inbox[c] - 1 \in 0..INBOX
    BY <1>1, GatewayConstants DEF GatewayInv, GatewayTypeOK
  <1>4. QED
    BY <1>1, <1>2, <1>3 DEF GatewayInv, GatewayTypeOK

LEMMA HandlerStep ==
    ASSUME GatewayInv, NEW c \in Conn, HandleClient(c) \/ IdleTimeout(c)
    PROVE  GatewayInv'
  <1>0. /\ paired \subseteq Device /\ trusted \subseteq Device /\ readable \in BOOLEAN
        /\ device \in [Conn -> Device \cup {NoDevice}] /\ phase \in [Conn -> Phase]
        /\ inbox \in [Conn -> 0..INBOX] /\ unsent \in [Conn -> BOOLEAN]
        /\ closing \in [Conn -> BOOLEAN] /\ lost \in [Conn -> BOOLEAN]
        /\ stage \in {"serving", "stopping", "waiting", "stopped"}
        /\ \A k \in Conn : device[k] # NoDevice => k \in Registered
    BY DEF GatewayInv, GatewayTypeOK
  <1>1. CASE AcceptHello(c)
    <2>1. ReadsFrame(c) /\ WriteAndWait(c) /\ trusted' = paired
          /\ UNCHANGED <<paired, readable, stage>>
      BY <1>1 DEF AcceptHello, RefreshTrustedDevices, storeVars
    <2>2. PICK d \in paired : device' = [device EXCEPT ![c] = d]
      BY <1>1, <2>1 DEF AcceptHello
    <2>3. device' \in [Conn -> Device \cup {NoDevice}]
          /\ \A k \in Conn : device'[k] # NoDevice => k \in Registered \cup {c}
      BY <1>0, <2>2
    <2>4. QED
      BY <1>0, <2>1, <2>3, WriteFacts, TablesShrink
  <1>2. CASE ProcessRecord(c) /\ ~ lost[c]
    <2>1. ReadsFrame(c) /\ WriteAndWait(c) /\ UNCHANGED <<trusted, paired, readable, stage>>
          /\ device' \in {device, [device EXCEPT ![c] = NoDevice]}
      BY <1>2 DEF ProcessRecord, storeVars
    <2>2. device' \in [Conn -> Device \cup {NoDevice}]
          /\ \A k \in Conn : device'[k] # NoDevice => k \in Registered
      BY <1>0, <2>1
    <2>3. QED
      BY <1>0, <2>1, <2>2, WriteFacts, TablesShrink
  <1>3. CASE \/ RejectHello(c) \/ (ProcessRecord(c) /\ lost[c]) \/ RejectRecord(c)
             \/ DrainFails(c) \/ ReadEof(c) \/ IdleTimeout(c)
    <2>1. End(c) /\ UNCHANGED <<storeVars, stage>> /\ trusted' \subseteq Device
      BY <1>0, <1>3 DEF RejectHello, RefreshTrustedDevices, ProcessRecord, RejectRecord,
         DrainFails, ReadEof, IdleTimeout
    <2>2. QED
      BY <2>1, EndStep
  <1>4. CASE Drained(c) \/ Finish(c)
    <2>1. /\ UNCHANGED <<paired, readable, trusted, device, inbox, unsent, closing, lost, stage>>
          /\ \/ phase[c] = "draining" /\ phase' = [phase EXCEPT ![c] = "reading"]
             \/ phase[c] = "finishing" /\ phase' = [phase EXCEPT ![c] = "gone"]
      BY <1>4 DEF Drained, Finish, storeVars
    <2>2. phase' \in [Conn -> Phase] /\ Registered' = Registered
      BY <1>0, <2>1 DEF Phase, Registered
    <2>3. QED
      BY <1>0, <2>1, <2>2, TablesShrink
  <1>5. QED
    BY <1>1, <1>2, <1>3, <1>4, StartStep DEF HandleClient

\* The store, the peers, TCP, the watcher and the shutdown.
LEMMA OutsideStep ==
    ASSUME GatewayInv,
           \/ ChangeStore \/ WatchRevocations \/ RequestShutdown \/ Serve
           \/ \E c \in Conn : PeerConnects(c) \/ PeerSends(c) \/ PeerReads(c)
                              \/ PeerLeaves(c) \/ TransportCloses(c)
           \/ UNCHANGED gatewayVars
    PROVE  GatewayInv'
  <1>0. /\ paired \subseteq Device /\ trusted \subseteq Device /\ readable \in BOOLEAN
        /\ device \in [Conn -> Device \cup {NoDevice}] /\ phase \in [Conn -> Phase]
        /\ inbox \in [Conn -> 0..INBOX] /\ unsent \in [Conn -> BOOLEAN]
        /\ closing \in [Conn -> BOOLEAN] /\ lost \in [Conn -> BOOLEAN]
        /\ stage \in {"serving", "stopping", "waiting", "stopped"}
        /\ \A k \in Conn : device[k] # NoDevice => k \in Registered
    BY DEF GatewayInv, GatewayTypeOK
  <1>1. CASE ChangeStore
    <2>1. paired' \subseteq Device /\ readable' \in BOOLEAN
          /\ UNCHANGED <<trusted, phase, device, inbox, unsent, closing, lost, stage>>
      BY <1>0, <1>1 DEF ChangeStore, connVars
    <2>2. Registered' = Registered
      BY <2>1 DEF Registered
    <2>3. QED
      BY <1>0, <2>1, <2>2, TablesShrink
  <1>2. CASE WatchRevocations \/ RequestShutdown
    <2>1. /\ trusted' \subseteq Device /\ closing' \in [Conn -> BOOLEAN]
          /\ stage' \in {"serving", "stopping", "waiting", "stopped"}
          /\ UNCHANGED <<paired, readable, phase, device, inbox, unsent, lost>>
      BY <1>0, <1>2 DEF WatchRevocations, RequestShutdown, RefreshTrustedDevices, CloseAll,
         storeVars
    <2>2. Registered' = Registered
      BY <2>1 DEF Registered
    <2>3. QED
      BY <1>0, <2>1, <2>2, TablesShrink
  <1>3. CASE ServeResumes \/ UNCHANGED gatewayVars
    <2>1. /\ stage' \in {"serving", "stopping", "waiting", "stopped"}
          /\ UNCHANGED <<paired, readable, trusted, phase, device, inbox, unsent, closing, lost>>
      BY <1>0, <1>3 DEF ServeResumes, gatewayVars, storeVars, connVars
    <2>2. Registered' = Registered
      BY <2>1 DEF Registered
    <2>3. QED
      BY <1>0, <2>1, <2>2, TablesShrink
  <1>4. CASE ServeReturns
    <2>1. /\ stage' = "stopped" /\ device' = [c \in Conn |-> NoDevice]
          /\ phase' = [c \in Conn |-> IF phase[c] = "none" THEN "none" ELSE "gone"]
          /\ UNCHANGED <<paired, readable, trusted, inbox, unsent, closing, lost>>
      BY <1>4 DEF ServeReturns, storeVars
    <2>2. phase' \in [Conn -> Phase] /\ Registered' \subseteq Registered
      BY <2>1 DEF Phase, Registered
    <2>3. QED
      BY <1>0, <2>1, <2>2, TablesShrink
  <1>5. ASSUME NEW c \in Conn, PeerConnects(c)
        PROVE  GatewayInv'
    <2>1. /\ phase[c] = "none" /\ phase' = [phase EXCEPT ![c] = "accepted"]
          /\ UNCHANGED <<paired, readable, trusted, device, inbox, unsent, closing, lost, stage>>
      BY <1>5 DEF PeerConnects, storeVars
    <2>2. phase' \in [Conn -> Phase] /\ Registered' = Registered
      BY <1>0, <2>1 DEF Phase, Registered
    <2>3. QED
      BY <1>0, <2>1, <2>2, TablesShrink
  <1>6. ASSUME NEW c \in Conn,
               PeerSends(c) \/ PeerReads(c) \/ PeerLeaves(c) \/ TransportCloses(c)
        PROVE  GatewayInv'
    <2>1. UNCHANGED <<paired, readable, trusted, phase, device, closing, stage>>
      BY <1>6 DEF PeerSends, PeerReads, PeerLeaves, TransportCloses, ConnectionLost, storeVars
    <2>2. inbox' \in [Conn -> 0..INBOX]
      <3>1. inbox[c] < INBOX => inbox[c] + 1 \in 0..INBOX
        BY <1>0, GatewayConstants
      <3>2. QED
        BY <1>0, <1>6, <3>1 DEF PeerSends, PeerReads, PeerLeaves, TransportCloses, ConnectionLost
    <2>3. unsent' \in [Conn -> BOOLEAN] /\ lost' \in [Conn -> BOOLEAN]
      BY <1>0, <1>6 DEF PeerSends, PeerReads, PeerLeaves, TransportCloses, ConnectionLost
    <2>4. Registered' = Registered
      BY <2>1 DEF Registered
    <2>5. QED
      BY <1>0, <2>1, <2>2, <2>3, <2>4, TablesShrink
  <1>7. QED
    BY <1>1, <1>2, <1>3, <1>4, <1>5, <1>6 DEF Serve

LEMMA GatewayInvStep == GatewayInv /\ [GatewayNext]_gatewayVars => GatewayInv'
  BY HandlerStep, OutsideStep DEF GatewayNext

\* The invariant is inductive.
THEOREM GatewayInvariant == GatewaySpec => []GatewayInv
  BY GatewayInvInit, GatewayInvStep, PTL DEF GatewaySpec

\* Every state has its type; in particular _handle_client never registers more
\* than max_connections, and every session belongs to a registered connection.
THEOREM LimitIsKept == GatewaySpec => []GatewayTypeOK
  <1>1. GatewayInv => GatewayTypeOK
    BY DEF GatewayInv
  <1>2. QED
    BY <1>1, GatewayInvariant, PTL

\* Only accept_client_hello gives a connection its device, in the step that has
\* just read the store.
LEMMA SessionStep ==
    ASSUME GatewayInv, [GatewayNext]_gatewayVars, NEW c \in Conn, device[c] = NoDevice, device'[c] # NoDevice
    PROVE  device'[c] \in paired
  <1>0. device \in [Conn -> Device \cup {NoDevice}]
    BY DEF GatewayInv, GatewayTypeOK
  <1>1. ASSUME NEW k \in Conn, AcceptHello(k)
        PROVE  device'[c] \in paired
    <2>1. PICK d \in paired : device' = [device EXCEPT ![k] = d]
      BY <1>1 DEF AcceptHello, RefreshTrustedDevices
    <2>2. QED
      BY <1>0, <2>1
  <1>2. ASSUME NEW k \in Conn, End(k)
        PROVE  FALSE
    BY <1>0, <1>2 DEF End
  <1>3. ASSUME NEW k \in Conn, HandleClient(k) \/ IdleTimeout(k), ~ AcceptHello(k)
        PROVE  FALSE
    BY <1>0, <1>2, <1>3 DEF HandleClient, StartClient, RejectHello, ProcessRecord, RejectRecord,
       Drained, DrainFails, ReadEof, Finish, IdleTimeout
  <1>4. ASSUME NEW k \in Conn, PeerConnects(k) \/ PeerSends(k) \/ PeerReads(k)
                               \/ PeerLeaves(k) \/ TransportCloses(k)
        PROVE  FALSE
    BY <1>4 DEF PeerConnects, PeerSends, PeerReads, PeerLeaves, TransportCloses, ConnectionLost
  <1>5. ASSUME ChangeStore \/ WatchRevocations \/ RequestShutdown \/ Serve \/ UNCHANGED gatewayVars
        PROVE  FALSE
    BY <1>5 DEF ChangeStore, WatchRevocations, RequestShutdown, Serve, ServeResumes,
       ServeReturns, gatewayVars, connVars
  <1>6. QED
    BY <1>1, <1>3, <1>4, <1>5 DEF GatewayNext

\* A session is opened only for a device that is in the store at that moment,
\* however old the gateway's copy of the store was.
THEOREM SessionsArePaired == GatewaySpec => AcceptedIsPaired
  <1>1. GatewayInv /\ [GatewayNext]_gatewayVars =>
          [\A c \in Conn : device[c] = NoDevice /\ device'[c] # NoDevice => device'[c] \in paired]_gatewayVars
    BY SessionStep
  <1>2. QED
    BY <1>1, GatewayInvariant, PTL DEF GatewaySpec, AcceptedIsPaired

-----------------------------------------------------------------------------
(* The app *)

USE AppConstants

Places == {"none", "queued", "handshake", "announce", "connected", "catalog", "got",
           "failed", "caught", "leaving", "done"}
RequestPlaces == {"none", "queued", "sent", "answered", "failed"}

-----------------------------------------------------------------------------
(* Steps that several operations share *)

\* A connect task that goes on, without a word to the screen.
LEMMA TaskMoves ==
    ASSUME IInv, NEW k \in Client, NEW place \in Places \ {"none"},
           connecting[k] \notin {"none", "done"},
           connecting' = [connecting EXCEPT ![k] = place],
           connectInProgress' \in BOOLEAN, open' \subseteq Client,
           UNCHANGED <<screenVars, client, requestInProgress, operationTask, cancelled,
                       request, sent, stale, closeTask, left, early>>
    PROVE  IInv'
<1>1. UNCHANGED <<uiState, catalog, editable, pending, preview, digest, client,
                  requestInProgress, operationTask, cancelled, request, sent, stale,
                  closeTask, left, early>>
  BY DEF screenVars
<1>2. connecting \in [Client -> Places]
  BY DEF IInv, TypeOK, Places
<1>3. /\ connecting' \in [Client -> Places] /\ connecting'[k] = place /\ place # "none"
      /\ \A j \in Client : j # k => connecting'[j] = connecting[j]
  BY <1>2
<1>4. TypeOK'
  BY <1>1, <1>3 DEF IInv, TypeOK, Places
<1>5. left \subseteq Client /\ client \in Client \cup {None}
  BY DEF IInv, TypeOK
<1>6. ClientInv'
  BY <1>1, <1>3, <1>5 DEF IInv, ClientInv
<1>7. RequestInv'
  BY <1>1 DEF IInv, RequestInv, Current
<1>8. OnTimeInv'
  BY <1>1, <1>3 DEF IInv, OnTimeInv, Current
<1>9. OldSessionStaysGone' /\ PreviewIsTrue'
  BY <1>1, <1>3, <1>5 DEF IInv, OldSessionStaysGone, PreviewIsTrue, IsConnected
<1> QED
  BY <1>4, <1>6, <1>7, <1>8, <1>9 DEF IInv

\* A request task that goes on, inside the client.
LEMMA RequestMoves ==
    ASSUME IInv, NEW k \in Client, NEW place \in RequestPlaces \ {"none"},
           request[k] # "none", request' = [request EXCEPT ![k] = place],
           open' \subseteq Client,
           UNCHANGED <<screenVars, flagVars, connecting, cancelled, sent, stale,
                       closeTask, left, early>>
    PROVE  IInv'
<1>1. UNCHANGED <<uiState, catalog, editable, pending, preview, digest, client,
                  connectInProgress, requestInProgress, operationTask, connecting,
                  cancelled, sent, stale, closeTask, left, early>>
  BY DEF screenVars, flagVars
<1>2. request \in [Client -> RequestPlaces]
  BY DEF IInv, TypeOK, RequestPlaces
<1>3. request' \in [Client -> RequestPlaces]
  BY <1>2
<1>4. \A j \in Client : request'[j] # "none" <=> request[j] # "none"
  BY <1>2
<1>5. \A j \in Client : Current(j)' <=> Current(j)
  BY <1>1, <1>4 DEF Current
<1>6. TypeOK'
  BY <1>1, <1>3 DEF IInv, TypeOK, RequestPlaces
<1>7. ClientInv' /\ OldSessionStaysGone' /\ PreviewIsTrue'
  BY <1>1 DEF IInv, ClientInv, OldSessionStaysGone, PreviewIsTrue, IsConnected
<1>8. RequestInv'
  BY <1>1, <1>5 DEF IInv, RequestInv
<1>9. OnTimeInv'
  BY <1>1, <1>5 DEF IInv, OnTimeInv
<1> QED
  BY <1>6, <1>7, <1>8, <1>9 DEF IInv

\* A step that at most takes the word connected from the screen, or the draft of a
\* command, or closes connections.
LEMMA ScreenMoves ==
    ASSUME IInv, open' \subseteq Client, closeTask' \subseteq Client,
           uiState' = uiState \/ uiState' \in {"disconnected", "connecting"},
           \/ UNCHANGED <<pending, preview, digest>>
           \/ pending' = None /\ preview' = None /\ digest' = None,
           UNCHANGED <<catalog, editable, flagVars, connecting, cancelled, request, sent,
                       stale, left, early>>
    PROVE  IInv'
<1>1. UNCHANGED <<catalog, editable, client, connectInProgress, requestInProgress,
                  operationTask, connecting, cancelled, request, sent, stale, left, early>>
  BY DEF flagVars
<1>2. TypeOK'
  BY <1>1 DEF IInv, TypeOK
<1>3. ClientInv' /\ OnTimeInv'
  BY <1>1 DEF IInv, ClientInv, OnTimeInv, Current
<1>4. RequestInv'
  BY <1>1 DEF IInv, RequestInv, Current
<1>5. OldSessionStaysGone' /\ PreviewIsTrue'
  BY <1>1 DEF IInv, OldSessionStaysGone, PreviewIsTrue, IsConnected
<1> QED
  BY <1>2, <1>3, <1>4, <1>5 DEF IInv

-----------------------------------------------------------------------------
(* The user *)

\* A new client was never used before, so it is not one that was left.
LEMMA ConnectSafe ==
    ASSUME IInv, NEW k \in Client, Connect(k)
    PROVE  IInv'
<1>1. /\ UNCHANGED <<requestInProgress, catalog, editable, pending, preview, digest,
                     cancelled, request, sent, stale, closeTask, open, left, early>>
      /\ client = None /\ connecting[k] = "none" /\ client' = k /\ operationTask' = k
      /\ connectInProgress' = TRUE /\ uiState' = "connecting"
      /\ connecting' = [connecting EXCEPT ![k] = "queued"]
  BY DEF Connect
<1>2. connecting \in [Client -> Places] /\ left \subseteq Client
  BY DEF IInv, TypeOK, Places
<1>3. /\ connecting' \in [Client -> Places] /\ connecting'[k] = "queued"
      /\ \A j \in Client : j # k => connecting'[j] = connecting[j]
  BY <1>1, <1>2 DEF Places
<1>4. TypeOK'
  BY <1>1, <1>3 DEF IInv, TypeOK, Places
<1>5. ClientInv'
  BY <1>1, <1>2, <1>3 DEF IInv, ClientInv
<1>6. RequestInv'
  BY <1>1 DEF IInv, RequestInv, Current
<1>7. OnTimeInv'
  BY <1>1, <1>3 DEF IInv, OnTimeInv, Current
<1>8. OldSessionStaysGone' /\ PreviewIsTrue'
  BY <1>1 DEF IInv, OldSessionStaysGone, PreviewIsTrue, IsConnected
<1> QED
  BY <1>4, <1>5, <1>6, <1>7, <1>8 DEF IInv

\* Leaving a session: its connect task is cancelled, its request is stale, and
\* nothing of it stays on the screen.
LEMMA DisconnectSafe ==
    ASSUME IInv, Disconnect
    PROVE  IInv'
<1>1. /\ UNCHANGED <<editable, connecting, request, sent, open, early>>
      /\ operationTask' = None /\ connectInProgress' = FALSE /\ requestInProgress' = FALSE
      /\ client' = None /\ catalog' = None /\ uiState' = "disconnected"
      /\ pending' = None /\ preview' = None /\ digest' = None
  BY DEF Disconnect, ClearCommandDraft
<1>2. /\ stale' = stale \cup {k \in Client : request[k] # "none"}
      /\ cancelled' = cancelled \cup ({operationTask} \ {None})
      /\ closeTask' = closeTask \cup ({client} \ {None})
      /\ left' = left \cup ({client} \ {None})
  BY DEF Disconnect, NextGeneration, CloseTask
<1>3. /\ client \in Client \cup {None} /\ operationTask \in Client \cup {None}
      /\ stale \subseteq Client /\ cancelled \subseteq Client /\ closeTask \subseteq Client
      /\ left \subseteq Client
  BY DEF IInv, TypeOK
<1>4. /\ stale' \subseteq Client /\ cancelled' \subseteq Client
      /\ closeTask' \subseteq Client /\ left' \subseteq Client
  BY <1>2, <1>3
<1>5. TypeOK'
  BY <1>1, <1>4 DEF IInv, TypeOK
<1>6. \A k \in Client : ~Current(k)'
  BY <1>1, <1>2 DEF Current
<1>7. client # None => operationTask = client
  BY DEF IInv, ClientInv
<1>8. ClientInv'
  BY <1>1, <1>2, <1>3, <1>7 DEF IInv, ClientInv
<1>9. RequestInv'
  BY <1>6 DEF RequestInv
<1>10. OnTimeInv'
  BY <1>1, <1>2, <1>3, <1>6, <1>7 DEF IInv, OnTimeInv
<1>11. OldSessionStaysGone' /\ PreviewIsTrue'
  BY <1>1, <1>4 DEF OldSessionStaysGone, PreviewIsTrue, IsConnected
<1> QED
  BY <1>5, <1>8, <1>9, <1>10, <1>11 DEF IInv

\* A request starts on the client in use, when no other answer is waited for.
LEMMA StartRequestSafe ==
    ASSUME IInv, NEW m \in Command \cup {Confirm}, client # None, ~requestInProgress,
           StartRequest(m), pending' \in {pending, None},
           m # Confirm => preview' = m, m = Confirm => preview' = None,
           digest' \in Structured \cup {None}
    PROVE  IInv'
<1>1. /\ UNCHANGED <<uiState, catalog, editable, client, connectInProgress, operationTask,
                     connecting, cancelled, stale, closeTask, open, left>>
      /\ requestInProgress' = TRUE
      /\ request' = [request EXCEPT ![client] = "queued"]
      /\ sent' = [sent EXCEPT ![client] = m]
      /\ early' = (early \/ connecting[client] # "done")
  BY DEF StartRequest
<1>2. /\ client \in Client /\ request \in [Client -> RequestPlaces]
      /\ sent \in [Client -> Command \cup {Confirm, None}]
  BY DEF IInv, TypeOK, RequestPlaces
<1>3. /\ request' \in [Client -> RequestPlaces]
      /\ \A j \in Client : j # client => request'[j] = request[j]
  BY <1>1, <1>2 DEF RequestPlaces
<1>4. /\ sent' \in [Client -> Command \cup {Confirm, None}]
      /\ sent'[client] = m
  BY <1>1, <1>2
<1>5. early' \in BOOLEAN /\ (~early' => ~early /\ connecting[client] = "done")
  BY <1>1 DEF IInv, TypeOK
<1>6. preview' \in Command \cup {None} /\ m # None
  OBVIOUS
<1>7. TypeOK'
  BY <1>1, <1>3, <1>4, <1>5, <1>6 DEF IInv, TypeOK, RequestPlaces
<1>8. \A j \in Client : ~Current(j)
  BY DEF IInv, RequestInv
<1>9. \A j \in Client : Current(j)' => j = client
  BY <1>1, <1>3, <1>8 DEF Current
<1>10. client \notin left
  BY DEF IInv, ClientInv
<1>11. ClientInv'
  BY <1>1 DEF IInv, ClientInv
<1>12. RequestInv'
  BY <1>1, <1>4, <1>6, <1>9, <1>10 DEF RequestInv
<1>13. OnTimeInv'
  BY <1>1, <1>5, <1>9 DEF IInv, OnTimeInv
<1>14. OldSessionStaysGone' /\ PreviewIsTrue'
  BY <1>1, <1>5 DEF IInv, OldSessionStaysGone, PreviewIsTrue, IsConnected
<1> QED
  BY <1>7, <1>11, <1>12, <1>13, <1>14 DEF IInv

\* Every operation of the user, one after the other.
LEMMA UserSafe ==
    ASSUME IInv, User
    PROVE  IInv'
<1>1. ASSUME NEW k \in Client, Connect(k) PROVE IInv'
  BY <1>1, ConnectSafe
<1>2. CASE ConnectFails \/ FailLocally
  <2>1. /\ uiState' = uiState \/ uiState' \in {"disconnected", "connecting"}
        /\ UNCHANGED <<pending, preview, digest>>
        /\ UNCHANGED <<catalog, editable, flagVars, connecting, cancelled, request, sent,
                       stale, left, early>>
        /\ UNCHANGED <<open, closeTask>>
    BY <1>2 DEF ConnectFails, FailLocally, Fail, taskVars
  <2> QED
    BY <2>1, ScreenMoves DEF IInv, TypeOK
<1>3. CASE UserDisconnects
  BY <1>3, DisconnectSafe DEF UserDisconnects
<1>4. CASE ForgetConnectionSettings
  <2>1. CASE IsConnected
    BY <1>4, <2>1, DisconnectSafe DEF ForgetConnectionSettings
  <2>2. CASE ~IsConnected
    <3>1. /\ pending' = None /\ preview' = None /\ digest' = None /\ uiState' = uiState
          /\ UNCHANGED <<catalog, editable, flagVars, connecting, cancelled, request, sent,
                         stale, left, early>>
          /\ UNCHANGED <<open, closeTask>>
      BY <1>4, <2>2 DEF ForgetConnectionSettings, ClearCommandDraft, taskVars
    <3> QED
      BY <3>1, ScreenMoves DEF IInv, TypeOK
  <2> QED
    BY <2>1, <2>2
<1>5. ASSUME NEW m \in Text, SendTextCommand(m) PROVE IInv'
  <2>1. /\ client # None /\ ~requestInProgress /\ StartRequest(m) /\ preview' = m
        /\ UNCHANGED <<digest, pending>>
    BY <1>5 DEF SendTextCommand, MaySend
  <2>2. m \in Command /\ m # Confirm
    BY DEF Command
  <2>3. digest' \in Structured \cup {None}
    BY <2>1 DEF IInv, TypeOK
  <2> QED
    BY <2>1, <2>2, <2>3, StartRequestSafe
<1>6. ASSUME NEW m \in Structured, SendStructuredCommand(m) PROVE IInv'
  <2>1. /\ client # None /\ ~requestInProgress /\ StartRequest(m) /\ preview' = m
        /\ digest' = m /\ UNCHANGED pending
    BY <1>6 DEF SendStructuredCommand, MaySend
  <2>2. m \in Command /\ m # Confirm
    BY DEF Command
  <2> QED
    BY <2>1, <2>2, StartRequestSafe
<1>7. CASE ResolveConfirmation
  <2>1. /\ client # None /\ ~requestInProgress /\ StartRequest(Confirm)
        /\ pending' = None /\ preview' = None /\ digest' = None
    BY <1>7 DEF ResolveConfirmation, MayResolve, ClearCommandDraft
  <2> QED
    BY <2>1, StartRequestSafe
<1>8. CASE ResolveExpired
  BY <1>8, DisconnectSafe DEF ResolveExpired
<1> QED
  BY <1>1, <1>2, <1>3, <1>4, <1>5, <1>6, <1>7, <1>8 DEF User

-----------------------------------------------------------------------------
(* The task of connect() *)

\* The catalog is shown, and with it the word connected, only by a task that
\* disconnect() has not cancelled.
LEMMA CatalogReturnsSafe ==
    ASSUME IInv, NEW k \in Client, CatalogReturns(k)
    PROVE  IInv'
<1>1. /\ UNCHANGED <<pending, preview, digest, client, requestInProgress, operationTask,
                     cancelled, request, sent, stale, closeTask, open, left, early>>
      /\ connecting[k] = "got"
  BY DEF CatalogReturns
<1>2. CASE k \in cancelled
  <2>1. /\ connecting' = [connecting EXCEPT ![k] = "leaving"]
        /\ UNCHANGED <<catalog, editable, connectInProgress, uiState>>
    BY <1>2 DEF CatalogReturns, IsCancelled, ConnectTaskAt
  <2>2. UNCHANGED screenVars
    BY <1>1, <2>1 DEF screenVars
  <2> QED
    BY <1>1, <2>1, <2>2, TaskMoves DEF Places, IInv, TypeOK
<1>3. CASE k \notin cancelled
  <2>1. /\ connecting' = [connecting EXCEPT ![k] = "done"]
        /\ catalog' = k /\ editable' = TRUE /\ connectInProgress' = FALSE
        /\ uiState' = "connected"
    BY <1>3 DEF CatalogReturns, IsCancelled, ConnectTaskAt
  <2>2. connecting \in [Client -> Places] /\ left \subseteq Client
        /\ client \in Client \cup {None}
    BY DEF IInv, TypeOK, Places
  <2>3. /\ connecting' \in [Client -> Places] /\ connecting'[k] = "done"
        /\ \A j \in Client : j # k => connecting'[j] = connecting[j]
    BY <2>1, <2>2 DEF Places
  <2>4. TypeOK'
    BY <1>1, <2>1, <2>3 DEF IInv, TypeOK, Places
  <2>5. k \notin left
    BY <1>3 DEF IInv, ClientInv
  <2>6. ClientInv'
    BY <1>1, <2>2, <2>3 DEF IInv, ClientInv
  <2>7. RequestInv'
    BY <1>1 DEF IInv, RequestInv, Current
  <2>8. OnTimeInv'
    BY <1>1, <2>3 DEF IInv, OnTimeInv, Current
  <2>9. ~early => client = k
    BY <1>1, <1>3 DEF IInv, OnTimeInv
  <2>10. OldSessionStaysGone' /\ PreviewIsTrue'
    BY <1>1, <2>1, <2>3, <2>5, <2>9
       DEF IInv, OldSessionStaysGone, PreviewIsTrue, IsConnected
  <2> QED
    BY <2>4, <2>6, <2>7, <2>8, <2>10 DEF IInv
<1> QED
  BY <1>2, <1>3

\* A task that failed takes the client away, which is its own unless a request
\* was sent early.
LEMMA CaughtSafe ==
    ASSUME IInv, NEW k \in Client, Caught(k)
    PROVE  IInv'
<1>1. /\ UNCHANGED <<catalog, editable, pending, preview, digest, requestInProgress,
                     operationTask, cancelled, request, sent, stale, closeTask, open,
                     left, early>>
      /\ connecting[k] = "caught" /\ connectInProgress' = FALSE
      /\ connecting' = [connecting EXCEPT ![k] = "done"]
  BY DEF Caught, ConnectTaskAt
<1>2. CASE k \in cancelled
  <2>1. UNCHANGED <<client, uiState>>
    BY <1>2 DEF Caught, IsCancelled
  <2>2. UNCHANGED screenVars
    BY <1>1, <2>1 DEF screenVars
  <2> QED
    BY <1>1, <2>1, <2>2, TaskMoves DEF Places, IInv, TypeOK
<1>3. CASE k \notin cancelled
  <2>1. client' = None /\ uiState' = "disconnected"
    BY <1>3 DEF Caught, IsCancelled
  <2>2. connecting \in [Client -> Places] /\ left \subseteq Client
    BY DEF IInv, TypeOK, Places
  <2>3. /\ connecting' \in [Client -> Places] /\ connecting'[k] = "done"
        /\ \A j \in Client : j # k => connecting'[j] = connecting[j]
    BY <1>1, <2>2 DEF Places
  <2>4. TypeOK'
    BY <1>1, <2>1, <2>3 DEF IInv, TypeOK, Places
  <2>5. ClientInv'
    BY <1>1, <2>1, <2>2, <2>3 DEF IInv, ClientInv
  <2>6. RequestInv'
    BY <1>1 DEF IInv, RequestInv, Current
  <2>7. ~early => client = k /\ \A j \in Client : ~Current(j)
    BY <1>1, <1>3 DEF IInv, OnTimeInv
  <2>8. OnTimeInv'
    BY <1>1, <2>1, <2>3, <2>7 DEF IInv, OnTimeInv, Current
  <2>9. OldSessionStaysGone' /\ PreviewIsTrue'
    BY <1>1, <2>1 DEF IInv, OldSessionStaysGone, PreviewIsTrue, IsConnected
  <2> QED
    BY <2>4, <2>5, <2>6, <2>8, <2>9 DEF IInv
<1> QED
  BY <1>2, <1>3

\* Every step of a connect task.
LEMMA ConnectTaskSafe ==
    ASSUME IInv, NEW k \in Client, ConnectTask(k)
    PROVE  IInv'
<1>1. open \subseteq Client /\ connectInProgress \in BOOLEAN
  BY DEF IInv, TypeOK
<1>2. ASSUME NEW place \in Places \ {"none"}, connecting[k] \notin {"none", "done"},
             ConnectTaskAt(k, place), open' \subseteq Client, OnActor
      PROVE  IInv'
  <2>1. /\ connecting' = [connecting EXCEPT ![k] = place]
        /\ UNCHANGED <<screenVars, client, connectInProgress, requestInProgress,
                       operationTask, cancelled, request, sent, stale, closeTask, left, early>>
    BY <1>2 DEF ConnectTaskAt, OnActor, flagVars
  <2> QED
    BY <1>1, <1>2, <2>1, TaskMoves
<1>3. CASE BeginConnect(k)
  BY <1>1, <1>2, <1>3 DEF BeginConnect, Places
<1>4. CASE HandshakeDone(k) \/ Announced(k) \/ CatalogArrives(k) \/ CatalogIsInvalid(k)
  BY <1>1, <1>2, <1>4
     DEF HandshakeDone, Announced, CatalogArrives, CatalogIsInvalid, Waiting, Places
<1>5. CASE WaitFails(k)
  BY <1>1, <1>2, <1>5 DEF WaitFails, CloseConnection, Places
<1>6. CASE ConnectReturns(k)
  <2> DEFINE place == IF IsCancelled(k) THEN "leaving"
                      ELSE IF InFlight(k) \/ k \notin open THEN "failed" ELSE "catalog"
  <2>1. place \in Places \ {"none"}
    BY DEF Places
  <2>2. connecting[k] = "connected" /\ ConnectTaskAt(k, place) /\ UNCHANGED open /\ OnActor
    BY <1>6 DEF ConnectReturns
  <2> HIDE DEF place
  <2> QED
    BY <1>1, <1>2, <2>1, <2>2
<1>7. CASE CatalogReturns(k)
  BY <1>7, CatalogReturnsSafe
<1>8. CASE CloseAfterFailure(k)
  BY <1>1, <1>2, <1>8 DEF CloseAfterFailure, CloseConnection, Places
<1>9. CASE Caught(k)
  BY <1>9, CaughtSafe
<1>10. CASE Leave(k)
  <2>1. /\ connecting[k] = "leaving" /\ connecting' = [connecting EXCEPT ![k] = "done"]
        /\ open' \subseteq Client /\ connectInProgress' = FALSE
        /\ UNCHANGED <<screenVars, client, requestInProgress, operationTask, cancelled,
                       request, sent, stale, closeTask, left, early>>
    BY <1>1, <1>10 DEF Leave, ConnectTaskAt, CloseConnection
  <2> QED
    BY <2>1, TaskMoves DEF Places
<1> QED
  BY <1>3, <1>4, <1>5, <1>6, <1>7, <1>8, <1>9, <1>10 DEF ConnectTask

-----------------------------------------------------------------------------
(* The task of a request *)

\* A request that ended leaves no other whose answer is taken, if its own was.
LEMMA RequestEnds ==
    ASSUME IInv, NEW k \in Client, RequestDone(k)
    PROVE  /\ request' \in [Client -> RequestPlaces]
           /\ sent' \in [Client -> Command \cup {Confirm, None}]
           /\ stale' \subseteq Client
           /\ \A j \in Client : Current(j)' => Current(j) /\ j # k /\ sent'[j] = sent[j]
           /\ Current(k) => \A j \in Client : ~Current(j)'
<1>1. /\ request \in [Client -> RequestPlaces] /\ stale \subseteq Client
      /\ sent \in [Client -> Command \cup {Confirm, None}]
  BY DEF IInv, TypeOK, RequestPlaces
<1>2. /\ request' = [request EXCEPT ![k] = "none"] /\ sent' = [sent EXCEPT ![k] = None]
      /\ stale' = stale \ {k}
  BY DEF RequestDone, RequestTaskAt
<1>3. request' \in [Client -> RequestPlaces] /\ stale' \subseteq Client
  BY <1>1, <1>2 DEF RequestPlaces
<1>4. sent' \in [Client -> Command \cup {Confirm, None}]
  BY <1>1, <1>2
<1>5. \A j \in Client : Current(j)' => Current(j) /\ j # k /\ sent'[j] = sent[j]
  BY <1>1, <1>2 DEF Current
<1>6. Current(k) => \A j \in Client : ~Current(j)'
  BY <1>5 DEF IInv, RequestInv
<1> QED
  BY <1>3, <1>4, <1>5, <1>6

\* What a task of an earlier generation returns changes nothing.
LEMMA ReturnStaleSafe ==
    ASSUME IInv, NEW k \in Client, ReturnStale(k)
    PROVE  IInv'
<1>1. UNCHANGED <<uiState, catalog, editable, pending, preview, digest, client,
                  connectInProgress, requestInProgress, operationTask, connecting,
                  cancelled, closeTask, open, left, early>>
  BY DEF ReturnStale, screenVars, flagVars
<1>2. /\ request' \in [Client -> RequestPlaces]
      /\ sent' \in [Client -> Command \cup {Confirm, None}]
      /\ stale' \subseteq Client
      /\ \A j \in Client : Current(j)' => Current(j) /\ j # k /\ sent'[j] = sent[j]
  BY RequestEnds DEF ReturnStale
<1>3. TypeOK'
  BY <1>1, <1>2 DEF IInv, TypeOK, RequestPlaces
<1>4. ClientInv' /\ OldSessionStaysGone' /\ PreviewIsTrue'
  BY <1>1 DEF IInv, ClientInv, OldSessionStaysGone, PreviewIsTrue, IsConnected
<1>5. RequestInv'
  BY <1>1, <1>2 DEF IInv, RequestInv
<1>6. OnTimeInv'
  BY <1>1, <1>2 DEF IInv, OnTimeInv
<1> QED
  BY <1>3, <1>4, <1>5, <1>6 DEF IInv

\* A confirmation that an answer puts on the screen is of its own client and
\* command.
LEMMA AskIsTrue ==
    ASSUME IInv, NEW k \in Client, Current(k), Ask(k)
    PROVE  /\ pending' \in Pending /\ pending'.by = k
           /\ pending'.shown \in {None, pending'.of}
           /\ uiState' = "awaiting" /\ preview' = None /\ digest' = None
<1>1. /\ sent[k] \in Command \cup {Confirm, None} /\ preview \in Command \cup {None}
  BY DEF IInv, TypeOK
<1>2. sent[k] # None /\ sent[k] # Confirm /\ preview \in {None, sent[k]}
  BY DEF Ask, MayAsk, IInv, RequestInv
<1>3. pending' = [of |-> sent[k], by |-> k, shown |-> preview]
  BY DEF Ask, Asking
<1> QED
  BY <1>1, <1>2, <1>3 DEF Ask, Pending

\* The end of a request whose answer was taken: the screen shows it, or the
\* client is dropped without a word.
LEMMA AnswerSafe ==
    ASSUME IInv, NEW k \in Client, Current(k), RequestDone(k),
           \/ Ask(k) /\ UNCHANGED client
           \/ /\ UNCHANGED <<client, pending>> /\ uiState' \in {uiState, "connected"}
              /\ preview' \in {preview, None} /\ digest' \in {digest, None}
           \/ /\ client' \in {client, None} /\ pending' = None /\ preview' = None
              /\ digest' = None /\ uiState' = "disconnected",
           requestInProgress' \in BOOLEAN, closeTask' \subseteq Client,
           UNCHANGED <<catalog, editable, connectInProgress, operationTask, connecting,
                       cancelled, open, left, early>>
    PROVE  IInv'
<1>1. /\ request' \in [Client -> RequestPlaces]
      /\ sent' \in [Client -> Command \cup {Confirm, None}]
      /\ stale' \subseteq Client /\ \A j \in Client : ~Current(j)'
  BY RequestEnds
<1>2. /\ k \notin left /\ (~early => k = client /\ connecting[k] = "done")
  BY DEF IInv, RequestInv, OnTimeInv
<1>3. /\ pending' \in Pending \cup {None} /\ preview' \in Command \cup {None}
      /\ digest' \in Structured \cup {None} /\ client' \in {client, None}
      /\ uiState' \in {"disconnected", "connecting", "connected", "awaiting"}
  BY AskIsTrue DEF IInv, TypeOK
<1>4. TypeOK'
  BY <1>1, <1>3 DEF IInv, TypeOK, RequestPlaces
<1>5. ClientInv'
  BY <1>3 DEF IInv, ClientInv
<1>6. RequestInv'
  BY <1>1 DEF RequestInv
<1>7. \A j \in Client : ~early /\ connecting[j] \notin {"none", "done"} => j \in cancelled
  BY <1>2 DEF IInv, OnTimeInv
<1>8. OnTimeInv'
  BY <1>1, <1>7 DEF OnTimeInv
<1>9. OldSessionStaysGone'
  BY <1>2, AskIsTrue DEF IInv, OldSessionStaysGone, IsConnected
<1>10. PreviewIsTrue'
  BY AskIsTrue DEF IInv, PreviewIsTrue
<1> QED
  BY <1>4, <1>5, <1>6, <1>8, <1>9, <1>10 DEF IInv

\* Every step of a request task.
LEMMA RequestTaskSafe ==
    ASSUME IInv, NEW k \in Client, RequestTask(k)
    PROVE  IInv'
<1>1. open \subseteq Client /\ closeTask \subseteq Client /\ requestInProgress \in BOOLEAN
  BY DEF IInv, TypeOK
<1>2. CASE Send(k)
  BY <1>1, <1>2, RequestMoves
     DEF Send, InSend, RequestTaskAt, RequestPlaces, CloseConnection
<1>3. CASE Receive(k) \/ SendFails(k)
  BY <1>1, <1>3, RequestMoves
     DEF Receive, SendFails, InSend, RequestTaskAt, RequestPlaces, CloseConnection
<1>4. CASE ReturnStale(k)
  BY <1>4, ReturnStaleSafe
<1>5. CASE Apply(k)
  <2>1. /\ Current(k) /\ RequestDone(k) /\ requestInProgress' = FALSE
        /\ UNCHANGED <<catalog, editable, client, connectInProgress, operationTask,
                       connecting, cancelled, closeTask, open, left, early>>
        /\ Ask(k) \/ ShowResult
    BY <1>5 DEF Apply, Stale, Current
  <2>2. CASE Ask(k)
    BY <1>1, <2>1, <2>2, AnswerSafe
  <2>3. CASE ShowResult
    <3>1. /\ UNCHANGED pending /\ uiState' \in {uiState, "connected"}
          /\ preview' = None /\ digest' = None
      BY <2>3 DEF ShowResult
    <3> QED
      BY <1>1, <2>1, <3>1, AnswerSafe
  <2> QED
    BY <2>1, <2>2, <2>3
<1>6. CASE RequestFails(k)
  <2>1. /\ Current(k) /\ RequestDone(k)
        /\ UNCHANGED <<catalog, editable, connectInProgress, operationTask, connecting,
                       cancelled, open, left, early>>
    BY <1>6 DEF RequestFails, Stale, Current
  <2>2. CASE CloseAfterOperationFailure(k)
    <3>1. /\ client' = None /\ pending' = None /\ preview' = None /\ digest' = None
          /\ uiState' = "disconnected" /\ requestInProgress' = FALSE
          /\ closeTask' \subseteq Client
      BY <1>1, <2>2 DEF CloseAfterOperationFailure, ClearCommandDraft, CloseTask
    <3> QED
      BY <2>1, <3>1, AnswerSafe
  <2>3. CASE /\ UNCHANGED <<client, closeTask, uiState, pending, preview, digest>>
             /\ requestInProgress' \in BOOLEAN
    BY <1>1, <2>1, <2>3, AnswerSafe
  <2>4. CASE Ask(k) /\ UNCHANGED <<client, closeTask, requestInProgress>>
    BY <1>1, <2>1, <2>4, AnswerSafe
  <2> QED
    BY <1>1, <1>6, <2>2, <2>3, <2>4 DEF RequestFails
<1> QED
  BY <1>2, <1>3, <1>4, <1>5, <1>6 DEF RequestTask

-----------------------------------------------------------------------------
(* The theorems *)

\* The inductive invariant of the app: the task of a client that was dropped is
\* cancelled, and the one answer that is still taken is of a client in use.
THEOREM AppInvariant == Spec => []IInv
<1>1. Init => IInv
  BY DEF Init, IInv, TypeOK, ClientInv, RequestInv, OnTimeInv, OldSessionStaysGone,
         PreviewIsTrue, IsConnected, Current
<1>2. IInv /\ [Next]_vars => IInv'
  <2> SUFFICES ASSUME IInv, [Next]_vars
               PROVE  IInv'
    OBVIOUS
  <2>1. CASE User
    BY <2>1, UserSafe
  <2>2. ASSUME NEW k \in Client, ConnectTask(k) PROVE IInv'
    BY <2>2, ConnectTaskSafe
  <2>3. ASSUME NEW k \in Client, RequestTask(k) PROVE IInv'
    BY <2>3, RequestTaskSafe
  <2>4. ASSUME NEW k \in Client, RunCloseTask(k) PROVE IInv'
    <3>1. /\ open' \subseteq Client /\ closeTask' \subseteq Client
          /\ UNCHANGED <<uiState, pending, preview, digest>>
          /\ UNCHANGED <<catalog, editable, flagVars, connecting, cancelled, request, sent,
                         stale, left, early>>
      BY <2>4 DEF RunCloseTask, CloseConnection, screenVars, IInv, TypeOK
    <3> QED
      BY <3>1, ScreenMoves
  <2>5. CASE UNCHANGED vars
    <3>1. /\ UNCHANGED <<open, closeTask, uiState, pending, preview, digest>>
          /\ UNCHANGED <<catalog, editable, flagVars, connecting, cancelled, request, sent,
                         stale, left, early>>
      BY <2>5 DEF vars, screenVars, taskVars
    <3> QED
      BY <3>1, ScreenMoves DEF IInv, TypeOK
  <2> QED
    BY <2>1, <2>2, <2>3, <2>4, <2>5 DEF Next
<1> QED
  BY <1>1, <1>2, PTL DEF Spec

\* A session that was left does not come back to the screen: neither its
\* commands, nor a confirmation of it, nor the word connected (disconnect,
\* sessionGeneration, Task.isCancelled).
THEOREM LeftSessionsStayGone == Spec => []OldSessionStaysGone
<1>1. IInv => OldSessionStaysGone
  BY DEF IInv
<1> QED
  BY <1>1, AppInvariant, PTL

\* The approval screen shows the command that the agent asks about
\* (pendingLocalPreview, apply).
THEOREM PreviewsAreTrue == Spec => []PreviewIsTrue
<1>1. IInv => PreviewIsTrue
  BY DEF IInv
<1> QED
  BY <1>1, AppInvariant, PTL

-----------------------------------------------------------------------------
(* The two ends side by side *)

\* A step of one end is a step of it and leaves the other alone.
LEMMA PhoneStep ==
    ASSUME [PhoneNext]_phoneVars
    PROVE  [GatewayNext]_gatewayVars /\ [Next]_vars
  BY DEF PhoneNext, phoneVars

\* What TLC checks of Phone is a behaviour of each end, so the theorems above
\* speak of it.
THEOREM PhoneImplementsItsEnds == PhoneSpec => GatewaySpec /\ Spec
  <1>1. PhoneInit => GatewayInit /\ Init
    BY DEF PhoneInit
  <1>2. QED
    BY <1>1, PhoneStep, PTL DEF PhoneSpec, GatewaySpec, Spec
=============================================================================
