----------------------------- MODULE SecureLink -----------------------------
(***************************************************************************)
(* The encrypted USB link: the device's PipaSecureProtocol (firmware) and  *)
(* the SecureCoreConnection that SecureSerialGateway runs behind the port. *)
(*                                                                         *)
(* A line is worth something only to the handshake it belongs to. Because  *)
(* lines are delivered in order, it is enough to know of each line whether *)
(* it belongs to the device's latest handshake ("current"): a ServerHello  *)
(* or a record of an older one is rejected whatever its bytes are.         *)
(***************************************************************************)
EXTENDS Integers, Sequences

CONSTANTS
    RETRY,              \* kHandshakeRetryMs, in ticks
    HEARTBEAT,          \* kHeartbeatMs
    SERVER_TIMEOUT,     \* kServerTimeoutMs
    AUTH_TIMEOUT,       \* AUTHENTICATION_TIMEOUT_SECONDS
    SESSION_IDLE,       \* SESSION_IDLE_SECONDS
    FAULTS,             \* the kinds of break: "restart", "unplug", "memory"
    MAX_BREAKS,         \* bound: restarts, disconnections, failed allocations
    MAX_STALLS,         \* bound: ticks during which a waiting line is not read
    QUEUE               \* bound: lines waiting when time passes

VARIABLES
    authenticated,  \* PipaSecureProtocol::authenticated_
    sinceHello,     \* millis() - last_handshake_
    sinceServer,    \* millis() - last_server_message_
    sinceBeat,      \* millis() - last_heartbeat_
    toAgent,        \* lines written by the device
    toDevice,       \* lines written by the agent
    open,           \* the gateway serves the port
    leaked,         \* an earlier handle of the port was never closed
    session,        \* SecureCoreConnection.authenticated
    matches,        \* ... with the device's latest handshake
    clock,          \* now - last_activity
    breaks, stalls

deviceVars == <<authenticated, sinceHello, sinceServer, sinceBeat>>
agentVars  == <<open, leaked, session, matches, clock>>
boundVars  == <<breaks, stalls>>
vars == <<deviceVars, toAgent, toDevice, agentVars, boundVars>>

Line == [type : {"client_hello", "server_hello", "record"}, current : BOOLEAN]

TypeOK ==
    /\ authenticated \in BOOLEAN
    /\ sinceHello \in 0..RETRY
    /\ sinceServer \in 0..SERVER_TIMEOUT
    /\ sinceBeat \in 0..HEARTBEAT
    /\ toAgent \in Seq(Line) /\ toDevice \in Seq(Line)
    /\ open \in BOOLEAN /\ leaked \in BOOLEAN
    /\ session \in BOOLEAN /\ matches \in BOOLEAN
    /\ (session => open) /\ (matches => session)
    /\ clock \in 0..SESSION_IDLE
    /\ breaks \in 0..MAX_BREAKS /\ stalls \in 0..MAX_STALLS

Init ==
    /\ authenticated = FALSE
    /\ sinceHello = 0 /\ sinceServer = 0 /\ sinceBeat = 0
    /\ toAgent = <<>> /\ toDevice = <<>>
    /\ open = FALSE /\ leaked = FALSE
    /\ session = FALSE /\ matches = FALSE /\ clock = 0
    /\ breaks = 0 /\ stalls = 0

-----------------------------------------------------------------------------
(* The device *)

\* Every line and session of an earlier handshake is now of an old one.
Outdated(lines) == [i \in DOMAIN lines |-> [lines[i] EXCEPT !.current = FALSE]]

DeviceSends(old, lines) == toAgent' = IF open THEN old \o lines ELSE old

\* sendHandshake: beginClient replaces the handshake under way.
SendHandshake(readLines) ==
    /\ sinceHello' = 0
    /\ DeviceSends(Outdated(toAgent), <<[type |-> "client_hello", current |-> TRUE]>>)
    /\ toDevice' = Outdated(readLines)
    /\ matches' = FALSE

HeartbeatDue == authenticated /\ sinceServer >= SERVER_TIMEOUT
RetryDue     == ~authenticated /\ sinceHello >= RETRY
BeatBeforeSession == ~authenticated /\ ~HeartbeatDue /\ sinceBeat >= HEARTBEAT
BeatDue      == authenticated /\ ~HeartbeatDue /\ sinceBeat >= HEARTBEAT

HeartbeatTimeout ==
    /\ HeartbeatDue
    /\ authenticated' = FALSE
    /\ SendHandshake(toDevice)
    /\ UNCHANGED <<sinceServer, sinceBeat, open, leaked, session, clock, boundVars>>

RetryHandshake ==
    /\ RetryDue
    /\ SendHandshake(toDevice)
    /\ UNCHANGED <<authenticated, sinceServer, sinceBeat, open, leaked, session,
                   clock, boundVars>>

Record == [type |-> "record", current |-> TRUE]

SendHeartbeat ==
    /\ BeatDue
    /\ sinceBeat' = 0
    /\ DeviceSends(toAgent, <<Record>>)
    /\ UNCHANGED <<authenticated, sinceHello, sinceServer, toDevice, agentVars,
                   boundVars>>

\* handleServerHello: only the answer to the latest ClientHello verifies. The
\* device announces itself at once.
ServerHelloVerifies(line) == line.type = "server_hello" /\ line.current

AcceptServerHello ==
    /\ toDevice # <<>> /\ ~authenticated
    /\ ServerHelloVerifies(Head(toDevice))
    /\ authenticated' = TRUE
    /\ sinceServer' = 0 /\ sinceBeat' = 0
    /\ toDevice' = Tail(toDevice)
    /\ DeviceSends(toAgent, <<Record, Record>>)     \* device_hello, device_status
    /\ UNCHANGED <<sinceHello, agentVars, boundVars>>

RejectServerHello ==
    /\ toDevice # <<>> /\ ~authenticated
    /\ ~ServerHelloVerifies(Head(toDevice))
    /\ toDevice' = Tail(toDevice)
    /\ UNCHANGED <<deviceVars, toAgent, agentVars, boundVars>>

\* handleEncryptedFrame and rejectEncryptedFrame: one record that does not open,
\* or that finds no memory (a fault), resets the whole session; the next hello
\* waits for the retry period.
RecordOpens(line) == line.type = "record" /\ line.current

OpenRecord ==
    /\ toDevice # <<>> /\ authenticated
    /\ RecordOpens(Head(toDevice))
    /\ sinceServer' = 0
    /\ toDevice' = Tail(toDevice)
    /\ UNCHANGED <<authenticated, sinceHello, sinceBeat, toAgent, agentVars, boundVars>>

Break(kind) == kind \in FAULTS /\ breaks < MAX_BREAKS /\ breaks' = breaks + 1

RejectRecord ==
    /\ toDevice # <<>> /\ authenticated
    /\ IF RecordOpens(Head(toDevice)) THEN Break("memory") ELSE UNCHANGED breaks
    /\ authenticated' = FALSE
    /\ sinceHello' = 0
    /\ toDevice' = Outdated(Tail(toDevice))
    /\ toAgent' = Outdated(toAgent)
    /\ matches' = FALSE
    /\ UNCHANGED <<sinceServer, sinceBeat, open, leaked, session, clock, stalls>>

Poll == HeartbeatTimeout \/ RetryHandshake \/ SendHeartbeat
Handle == AcceptServerHello \/ RejectServerHello \/ OpenRecord \/ RejectRecord

-----------------------------------------------------------------------------
(* The agent *)

\* serial.Serial(port) fails while another handle of the port is open (Windows
\* gives out one), and the name that holds the old one is rebound only when it
\* succeeds.
OpenPort ==
    /\ ~open /\ ~leaked
    /\ open' = TRUE /\ clock' = 0
    /\ UNCHANGED <<deviceVars, toAgent, toDevice, leaked, session, matches, boundVars>>

\* The end of _serve_connection: secure_core.close(), and nothing closes the
\* handle. What the device wrote is discarded when the port is opened again.
LeaveConnection ==
    /\ open' = FALSE /\ leaked' = TRUE
    /\ session' = FALSE /\ matches' = FALSE /\ clock' = 0
    /\ toAgent' = <<>>

Idle == clock >= (IF session THEN SESSION_IDLE ELSE AUTH_TIMEOUT)

IdleClose ==
    /\ open /\ Idle
    /\ LeaveConnection
    /\ UNCHANGED <<deviceVars, toDevice, boundVars>>

Reading(type) == open /\ toAgent # <<>> /\ Head(toAgent).type = type

OnClientHello ==
    /\ Reading("client_hello") /\ ~session
    /\ session' = TRUE /\ clock' = 0
    /\ matches' = Head(toAgent).current
    /\ toAgent' = Tail(toAgent)
    /\ toDevice' = Append(toDevice, [type |-> "server_hello",
                                     current |-> Head(toAgent).current])
    /\ UNCHANGED <<deviceVars, open, leaked, boundVars>>

\* process_frame: the record opens, the core answers.
OnRecord ==
    /\ Reading("record") /\ session /\ matches /\ Head(toAgent).current
    /\ clock' = 0
    /\ toAgent' = Tail(toAgent)
    /\ toDevice' = Append(toDevice, Record)
    /\ UNCHANGED <<deviceVars, open, leaked, session, matches, boundVars>>

\* A ClientHello inside a session, a record without one or under other keys:
\* the connection ends, and the device must start again.
UnexpectedHello == Reading("client_hello") /\ session
UnexpectedRecord ==
    Reading("record") /\ ~(session /\ matches /\ Head(toAgent).current)

EndsConnection ==
    /\ UnexpectedHello \/ UnexpectedRecord
    /\ LeaveConnection
    /\ UNCHANGED <<deviceVars, toDevice, boundVars>>

Serve == OnClientHello \/ OnRecord \/ EndsConnection

-----------------------------------------------------------------------------
(* Faults and time *)

\* A new process owns no handle.
Restart ==
    /\ open \/ leaked
    /\ Break("restart")
    /\ open' = FALSE /\ leaked' = FALSE
    /\ session' = FALSE /\ matches' = FALSE /\ clock' = 0
    /\ toAgent' = <<>>
    /\ toDevice' \in {toDevice, <<>>}
    /\ UNCHANGED <<deviceVars, stalls>>

Unplug ==
    /\ open /\ Break("unplug")
    /\ LeaveConnection
    /\ toDevice' = <<>>
    /\ UNCHANGED <<deviceVars, stalls>>

Saturate(n, limit) == IF n < limit THEN n + 1 ELSE n

Waiting == toAgent # <<>> \/ toDevice # <<>>

Tick ==
    /\ ~HeartbeatDue /\ ~RetryDue /\ ~BeatDue
    /\ ~(open /\ Idle) \/ Waiting
    /\ Len(toAgent) < QUEUE /\ Len(toDevice) < QUEUE
    /\ \/ ~Waiting /\ UNCHANGED stalls
       \/ Waiting /\ stalls < MAX_STALLS /\ stalls' = stalls + 1
    /\ sinceHello' = IF authenticated THEN 0 ELSE Saturate(sinceHello, RETRY)
    /\ sinceServer' = IF authenticated THEN Saturate(sinceServer, SERVER_TIMEOUT) ELSE 0
    /\ sinceBeat' = IF authenticated THEN Saturate(sinceBeat, HEARTBEAT) ELSE 0
    /\ clock' = IF open THEN Saturate(clock, IF session THEN SESSION_IDLE
                                             ELSE AUTH_TIMEOUT)
                ELSE clock
    /\ UNCHANGED <<authenticated, toAgent, toDevice, open, leaked, session,
                   matches, breaks>>

-----------------------------------------------------------------------------
Next ==
    \/ Poll \/ Handle
    \/ OpenPort \/ IdleClose \/ Serve
    \/ Restart \/ Unplug
    \/ Tick

\* The device's loop and the gateway's thread keep running; faults need not
\* happen.
Fairness ==
    /\ WF_vars(Poll) /\ WF_vars(Handle)
    /\ WF_vars(OpenPort) /\ WF_vars(IdleClose) /\ WF_vars(Serve)
    /\ WF_vars(Tick)

Spec == Init /\ [][Next]_vars /\ Fairness

-----------------------------------------------------------------------------
(* Properties *)

\* Both ends hold the keys of the same handshake.
Linked == authenticated /\ session /\ matches

\* A linked pair stays linked while nothing breaks and no line is held up: the
\* heartbeats and their answers come before either side's timeout, nothing of an
\* earlier handshake arrives after the new one, and no retry of the device
\* reaches the agent inside a session.
LinkIsStable ==
    [][Linked /\ stalls' = 0 /\ breaks' = breaks => Linked']_vars

\* After the last break or stall the link is up again and again.
Reconnects == []<>Linked
=============================================================================
