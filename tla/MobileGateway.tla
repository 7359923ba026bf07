---------------------------- MODULE MobileGateway ----------------------------
(***************************************************************************)
(* SecureTcpGateway: the listener for paired phones, its connections, the  *)
(* watcher of revocations and the shutdown.                                *)
(*                                                                         *)
(* Everything runs on one asyncio loop, so an action is what a coroutine   *)
(* does between two awaits. A transport that close() was called on reads   *)
(* no more, and is lost once its buffer is written; what the StreamReader  *)
(* already holds is still handed to the handler. Devices are pairs of an   *)
(* id and a key (is_trusted_device compares both); the handshake and the   *)
(* records themselves are in module SecureChannel. _writers_lock, an RLock *)
(* that only the loop's thread takes here, excludes nobody and is left out *)
(* (a refused connection holds it across an await).                        *)
(***************************************************************************)
EXTENDS Naturals, FiniteSets

CONSTANTS
    Conn,               \* TCP connections
    Device,
    NoDevice,
    MAX_CONNECTIONS,    \* max_connections
    INBOX               \* bound: frames waiting in a StreamReader

ASSUME GatewayConstants ==
    /\ NoDevice \notin Device
    /\ MAX_CONNECTIONS \in Nat \ {0} /\ INBOX \in Nat \ {0}

VARIABLES
    paired,     \* the device store in the registry
    readable,   \* ... can be read
    trusted,    \* session_server.trusted_devices
    phase,      \* where the handler of a connection is
    device,     \* SecureCoreConnection._device_id of a connection
    inbox,      \* frames in its StreamReader
    unsent,     \* its transport has bytes to write
    closing,    \* close() was called on its transport
    lost,       \* connection_lost was delivered
    stage       \* of _serve

connVars == <<phase, device, inbox, unsent, closing, lost>>
storeVars == <<paired, readable>>
gatewayVars == <<storeVars, trusted, connVars, stage>>

\* "accepted": the handler has not run yet; "reading" and "draining": it awaits
\* a frame or the end of a write; "finishing": it awaits wait_closed.
Phase == {"none", "accepted", "reading", "draining", "finishing", "gone"}

\* _writers and _connections.
Registered == {c \in Conn : phase[c] \in {"reading", "draining"}}

GatewayTypeOK ==
    /\ paired \subseteq Device /\ trusted \subseteq Device /\ readable \in BOOLEAN
    /\ phase \in [Conn -> Phase]
    /\ device \in [Conn -> Device \cup {NoDevice}]
    /\ inbox \in [Conn -> 0..INBOX]
    /\ unsent \in [Conn -> BOOLEAN] /\ closing \in [Conn -> BOOLEAN]
    /\ lost \in [Conn -> BOOLEAN]
    /\ stage \in {"serving", "stopping", "waiting", "stopped"}
    /\ Cardinality(Registered) <= MAX_CONNECTIONS
    /\ \A c \in Conn : device[c] # NoDevice => c \in Registered

\* start_configured_mobile_gateway loads the store, which has a device.
GatewayInit ==
    /\ paired \in SUBSET Device \ {{}}
    /\ readable = TRUE
    /\ trusted = paired
    /\ phase = [c \in Conn |-> "none"]
    /\ device = [c \in Conn |-> NoDevice]
    /\ inbox = [c \in Conn |-> 0]
    /\ unsent = [c \in Conn |-> FALSE]
    /\ closing = [c \in Conn |-> FALSE]
    /\ lost = [c \in Conn |-> FALSE]
    /\ stage = "serving"

-----------------------------------------------------------------------------
(* The environment: the administrator's store, the peers and TCP *)

ChangeStore ==
    /\ \/ \E d \in paired : paired' = paired \ {d} /\ UNCHANGED readable
       \/ \E d \in Device \ paired : paired' = paired \cup {d} /\ UNCHANGED readable
       \/ readable' = ~readable /\ UNCHANGED paired
    /\ UNCHANGED <<trusted, connVars, stage>>

PeerConnects(c) ==
    /\ phase[c] = "none" /\ stage = "serving"
    /\ phase' = [phase EXCEPT ![c] = "accepted"]
    /\ UNCHANGED <<storeVars, trusted, device, inbox, unsent, closing, lost, stage>>

Connected(c) == phase[c] \notin {"none", "gone"} /\ ~lost[c]

PeerSends(c) ==
    /\ Connected(c) /\ ~closing[c] /\ inbox[c] < INBOX
    /\ inbox' = [inbox EXCEPT ![c] = @ + 1]
    /\ UNCHANGED <<storeVars, trusted, phase, device, unsent, closing, lost, stage>>

PeerReads(c) ==
    /\ Connected(c) /\ unsent[c]
    /\ unsent' = [unsent EXCEPT ![c] = FALSE]
    /\ UNCHANGED <<storeVars, trusted, phase, device, inbox, closing, lost, stage>>

ConnectionLost(c) ==
    /\ lost' = [lost EXCEPT ![c] = TRUE]
    /\ unsent' = [unsent EXCEPT ![c] = FALSE]
    /\ UNCHANGED <<storeVars, trusted, phase, device, inbox, closing, stage>>

PeerLeaves(c) == Connected(c) /\ ConnectionLost(c)

TransportCloses(c) == Connected(c) /\ closing[c] /\ ~unsent[c] /\ ConnectionLost(c)

-----------------------------------------------------------------------------
(* _handle_client *)

\* The finally block, up to its await: the session is closed, the connection
\* leaves the tables and the transport is told to close.
End(c) ==
    /\ phase' = [phase EXCEPT ![c] = "finishing"]
    /\ device' = [device EXCEPT ![c] = NoDevice]
    /\ inbox' = [inbox EXCEPT ![c] = 0]
    /\ closing' = [closing EXCEPT ![c] = TRUE]
    /\ UNCHANGED <<unsent, lost>>

Full == Cardinality(Registered) >= MAX_CONNECTIONS

StartClient(c) ==
    /\ phase[c] = "accepted"
    /\ IF Full
       THEN End(c)
       ELSE /\ phase' = [phase EXCEPT ![c] = "reading"]
            /\ UNCHANGED <<device, inbox, unsent, closing, lost>>
    /\ UNCHANGED <<storeVars, trusted, stage>>

\* _refresh_trusted_devices, which fails on a store that cannot be read.
KeepTrusted == UNCHANGED trusted
RefreshTrustedDevices == trusted' = paired

\* _write_frame: a frame that is not written at once stays in the buffer, and a
\* large one makes drain wait. An answer to a lost connection ends it. (After
\* close() some event loops drop what is written and some still buffer it.)
TakeFrame(c) == inbox' = [inbox EXCEPT ![c] = @ - 1]

WriteAndWait(c) ==
    /\ \/ UNCHANGED <<phase, unsent>>
       \/ /\ unsent' = [unsent EXCEPT ![c] = TRUE]
          /\ \/ UNCHANGED phase
             \/ phase' = [phase EXCEPT ![c] = "draining"]
    /\ TakeFrame(c)
    /\ UNCHANGED <<closing, lost>>

ReadsFrame(c) == phase[c] = "reading" /\ inbox[c] > 0

\* A ClientHello: refresh and accept, in one step of the loop.
AcceptHello(c) ==
    /\ ReadsFrame(c) /\ device[c] = NoDevice /\ ~lost[c]
    /\ readable
    /\ RefreshTrustedDevices
    /\ \E d \in trusted' : device' = [device EXCEPT ![c] = d]
    /\ WriteAndWait(c)
    /\ UNCHANGED <<storeVars, stage>>

\* No hello (the store is not asked then), a store that cannot be read, a device
\* that is not paired, a hello that is malformed or replayed, a core
\* without room, or nobody left to answer.
RejectHello(c) ==
    /\ ReadsFrame(c) /\ device[c] = NoDevice
    /\ UNCHANGED trusted \/ (readable /\ RefreshTrustedDevices)
    /\ End(c)
    /\ UNCHANGED <<storeVars, stage>>

\* A record of a device that is still trusted: the core handles it, and its
\* answers are written. The last protocol error that is tolerated closes the
\* session after its answer, but not the connection: a hello may follow.
ProcessRecord(c) ==
    /\ ReadsFrame(c) /\ device[c] # NoDevice /\ device[c] \in trusted
    /\ IF lost[c]
       THEN End(c)
       ELSE WriteAndWait(c) /\ device' \in {device, [device EXCEPT ![c] = NoDevice]}
    /\ UNCHANGED <<storeVars, trusted, stage>>

\* The device was revoked, the record does not open, or the core fails.
RejectRecord(c) ==
    /\ ReadsFrame(c) /\ device[c] # NoDevice
    /\ End(c)
    /\ UNCHANGED <<storeVars, trusted, stage>>

Drained(c) ==
    /\ phase[c] = "draining" /\ ~unsent[c]
    /\ phase' = [phase EXCEPT ![c] = "reading"]
    /\ UNCHANGED <<storeVars, trusted, device, inbox, unsent, closing, lost, stage>>

\* ConnectionResetError out of drain.
DrainFails(c) ==
    /\ phase[c] = "draining" /\ lost[c]
    /\ End(c)
    /\ UNCHANGED <<storeVars, trusted, stage>>

\* readuntil: no frame is left and no more will come.
MissesEof(c) == FALSE
AtEof(c) == inbox[c] = 0 /\ lost[c]

ReadEof(c) ==
    /\ phase[c] = "reading" /\ AtEof(c)
    /\ End(c)
    /\ UNCHANGED <<storeVars, trusted, stage>>

\* The idle limit of _read_frame.
IdleTimeout(c) ==
    /\ phase[c] = "reading" /\ inbox[c] = 0
    /\ End(c)
    /\ UNCHANGED <<storeVars, trusted, stage>>

\* wait_closed returns.
Finish(c) ==
    /\ phase[c] = "finishing" /\ lost[c]
    /\ phase' = [phase EXCEPT ![c] = "gone"]
    /\ UNCHANGED <<storeVars, trusted, device, inbox, unsent, closing, lost, stage>>

HandleClient(c) ==
    \/ StartClient(c)
    \/ AcceptHello(c) \/ RejectHello(c)
    \/ ProcessRecord(c) \/ RejectRecord(c)
    \/ Drained(c) \/ DrainFails(c) \/ ReadEof(c) \/ Finish(c)

-----------------------------------------------------------------------------
(* _watch_revocations and the shutdown *)

CloseAll(conns) == closing' = [c \in Conn |-> closing[c] \/ c \in conns]

\* Authenticated connections whose device is not trusted any more.
NothingRevoked == {}
Revoked == {c \in Registered : device[c] \notin trusted' \cup {NoDevice}}

WatchRevocations ==
    /\ stage = "serving"
    /\ IF readable
       THEN RefreshTrustedDevices /\ CloseAll(Revoked)
       ELSE UNCHANGED trusted /\ CloseAll(Registered)
    /\ UNCHANGED <<storeVars, phase, device, inbox, unsent, lost, stage>>

RequestShutdown ==
    /\ stage = "serving"
    /\ stage' = "stopping"
    /\ CloseAll(Registered)
    /\ UNCHANGED <<storeVars, trusted, phase, device, inbox, unsent, lost>>

\* _serve wakes up, cancels the watcher and awaits server.wait_closed().
ServeResumes ==
    /\ stage = "stopping"
    /\ stage' = "waiting"
    /\ UNCHANGED <<storeVars, trusted, connVars>>

\* Python 3.12: wait_closed returns when every transport is lost. asyncio.run
\* then cancels the handlers that are left.
ServeReturns ==
    /\ stage = "waiting" /\ \A c \in Conn : ~Connected(c)
    /\ stage' = "stopped"
    /\ phase' = [c \in Conn |-> IF phase[c] = "none" THEN "none" ELSE "gone"]
    /\ device' = [c \in Conn |-> NoDevice]
    /\ UNCHANGED <<storeVars, trusted, inbox, unsent, closing, lost>>

Serve == ServeResumes \/ ServeReturns

-----------------------------------------------------------------------------
GatewayNext ==
    \/ ChangeStore
    \/ \E c \in Conn : PeerConnects(c) \/ PeerSends(c) \/ PeerReads(c)
                       \/ PeerLeaves(c) \/ TransportCloses(c) \/ HandleClient(c)
                       \/ IdleTimeout(c)
    \/ WatchRevocations \/ RequestShutdown \/ Serve

\* The loop runs every handler and callback that is ready, and the watcher. Of
\* the peers (who need not even read), of TCP and of the administrator nothing is
\* assumed, and nothing that is shown waits for the idle limit of ten minutes.
GatewayFairness ==
    /\ \A c \in Conn :
          WF_gatewayVars(HandleClient(c)) /\ WF_gatewayVars(TransportCloses(c))
    /\ WF_gatewayVars(WatchRevocations) /\ WF_gatewayVars(Serve)

GatewaySpec == GatewayInit /\ [][GatewayNext]_gatewayVars /\ GatewayFairness

-----------------------------------------------------------------------------
(* Properties *)

\* A session is opened for a device that is in the store at that moment, however
\* old the gateway's own copy of the store is.
AcceptedIsPaired ==
    [][\A c \in Conn : device[c] = NoDevice /\ device'[c] # NoDevice => device'[c] \in paired]_gatewayVars

\* The peer leaves an answer unread for ever, on a connection that does not break:
\* neither drain() nor the wait_closed() after close() has a timeout.
NeverRead(c) == <>[]unsent[c]

\* A revoked phone loses its session, also when its handler is busy writing or
\* frames are still waiting, unless it is paired again or the gateway is told to
\* stop first. The phone has to read what it was sent, or break the connection.
RevokedIsClosed ==
    \A c \in Conn, d \in Device :
        \/ device[c] = d /\ d \notin paired
              ~> device[c] # d \/ d \in paired \/ stage # "serving"
        \/ NeverRead(c)

\* A connection that is told to close (revocation, unreadable store, shutdown)
\* ends, whatever waits in its reader and wherever its handler is, if its peer
\* reads what it was sent or breaks the connection.
ClosingEnds ==
    \A c \in Conn : (closing[c] ~> phase[c] = "gone") \/ NeverRead(c)
=============================================================================
