----------------------------- MODULE SerialLink -----------------------------
(***************************************************************************)
(* The USB link between the device's PipaProtocol (firmware) and the       *)
(* AuthenticatedConnection that the agent's SerialGateway runs behind the  *)
(* port: who believes what after restarts, unplugged cables and stalls.    *)
(*                                                                         *)
(* Lines are delivered whole and in order. What a challenge or a hello is  *)
(* worth to the verifier is the life left in the line that carries it      *)
(* (module Authentication has the verifier itself); the agent that         *)
(* restarts remembers no challenge. The retry period keeps one device      *)
(* below MAX_PENDING_PER_DEVICE, and the other transports are assumed not  *)
(* to fill the session table.                                              *)
(***************************************************************************)
EXTENDS Integers, Sequences

CONSTANTS
    RETRY,              \* kChallengeRetryMs, in ticks
    HEARTBEAT,          \* kHeartbeatMs (kStatusMs asks the same of the agent)
    SERVER_TIMEOUT,     \* kServerTimeoutMs
    TTL,                \* DEFAULT_TTL_SECONDS
    AUTH_TIMEOUT,       \* AUTHENTICATION_TIMEOUT_SECONDS
    SESSION_IDLE,       \* SESSION_IDLE_SECONDS
    MAX_AUTH_FAILURES,
    FAULTS,             \* the kinds of break: "restart", "unplug" ("memory" is SecureLink's)
    MAX_BREAKS,         \* bound: restarts and disconnections
    MAX_STALLS,         \* bound: ticks during which a waiting line is not read
    QUEUE               \* bound: lines waiting when time passes

\* The periods are ordered as in the code: 5 s, 20 s, 30 s, 90 s, 600 s.
ASSUME LinkConstants ==
    /\ RETRY \in Nat \ {0} /\ RETRY < AUTH_TIMEOUT
    /\ HEARTBEAT \in Nat \ {0} /\ HEARTBEAT < SERVER_TIMEOUT
    /\ AUTH_TIMEOUT \in Nat /\ AUTH_TIMEOUT < SESSION_IDLE
    /\ SERVER_TIMEOUT < SESSION_IDLE
    /\ TTL \in Nat \ {0} /\ SESSION_IDLE \in Nat /\ SERVER_TIMEOUT \in Nat
    /\ MAX_AUTH_FAILURES \in Nat \ {0}
    /\ FAULTS \subseteq {"restart", "unplug", "memory"}
    /\ MAX_BREAKS \in Nat /\ MAX_STALLS \in Nat /\ QUEUE \in Nat

VARIABLES
    authenticated,  \* PipaProtocol::authenticated_
    awaitingReady,  \* PipaProtocol::awaiting_ready_
    sinceRequest,   \* millis() - last_challenge_request_
    sinceServer,    \* millis() - last_server_message_
    sinceBeat,      \* millis() - last_heartbeat_
    toAgent,        \* lines written by the device
    toDevice,       \* lines written by the agent
    open,           \* the gateway owns the port
    session,        \* the connection has a session_id
    failures,       \* auth_failures
    cooling,        \* within MIN_CHALLENGE_INTERVAL_SECONDS of a challenge
    clock,          \* now - connected_at, or - last_activity_at in a session
    breaks,         \* restarts and disconnections so far
    stalls          \* ticks that passed over a waiting line

deviceVars == <<authenticated, awaitingReady, sinceRequest, sinceServer, sinceBeat>>
agentVars  == <<open, session, failures, cooling, clock>>
lineVars   == <<toAgent, toDevice>>
boundVars  == <<breaks, stalls>>
vars == <<deviceVars, agentVars, lineVars, boundVars>>

\* "status" is ping or device_status, "ack" pong or status_ack; "reauthenticate"
\* is one of the three error codes on which the firmware starts again.
Line == [type : {"challenge_request", "hello", "status", "challenge", "ready",
                 "ack", "reauthenticate", "error"},
         life : 0..TTL]

Plain(type) == [type |-> type, life |-> 0]

TypeOK ==
    /\ authenticated \in BOOLEAN /\ awaitingReady \in BOOLEAN
    /\ ~(authenticated /\ awaitingReady)
    /\ sinceRequest \in 0..RETRY
    /\ sinceServer \in 0..SERVER_TIMEOUT
    /\ sinceBeat \in 0..HEARTBEAT
    /\ toAgent \in Seq(Line) /\ toDevice \in Seq(Line)
    /\ open \in BOOLEAN /\ session \in BOOLEAN
    /\ failures \in 0..(MAX_AUTH_FAILURES - 1)
    /\ cooling \in BOOLEAN
    /\ clock \in 0..SESSION_IDLE
    /\ breaks \in 0..MAX_BREAKS /\ stalls \in 0..MAX_STALLS

\* PipaProtocol::begin, with the agent not listening yet: its first request is
\* lost.
Init ==
    /\ authenticated = FALSE /\ awaitingReady = FALSE
    /\ sinceRequest = 0 /\ sinceServer = 0 /\ sinceBeat = 0
    /\ toAgent = <<>> /\ toDevice = <<>>
    /\ open = FALSE /\ session = FALSE
    /\ failures = 0 /\ cooling = FALSE /\ clock = 0
    /\ breaks = 0 /\ stalls = 0

-----------------------------------------------------------------------------
(* The device *)

\* sendJson: nobody reads a port that is not open.
DeviceSends(line) ==
    toAgent' = IF open THEN Append(toAgent, line) ELSE toAgent

\* Starting again: no session, no hello outstanding, and a new request.
AuthenticateAgain ==
    /\ authenticated' = FALSE
    /\ awaitingReady' = FALSE
    /\ sinceRequest' = 0
    /\ DeviceSends(Plain("challenge_request"))

HeartbeatDue == authenticated /\ sinceServer >= SERVER_TIMEOUT
RetryDue     == ~authenticated /\ sinceRequest >= RETRY
BeatDue      == authenticated /\ ~HeartbeatDue /\ sinceBeat >= HEARTBEAT

HeartbeatTimeout ==
    /\ HeartbeatDue
    /\ AuthenticateAgain
    /\ UNCHANGED <<sinceServer, sinceBeat, toDevice, agentVars, boundVars>>

RetryChallenge ==
    /\ RetryDue
    /\ sinceRequest' = 0
    /\ DeviceSends(Plain("challenge_request"))
    /\ UNCHANGED <<authenticated, awaitingReady, sinceServer, sinceBeat,
                   toDevice, agentVars, boundVars>>

SendHeartbeat ==
    /\ BeatDue
    /\ sinceBeat' = 0
    /\ DeviceSends(Plain("status"))
    /\ UNCHANGED <<authenticated, awaitingReady, sinceRequest, sinceServer,
                   toDevice, agentVars, boundVars>>

\* handleMessage, one action per branch.
DeviceReads(type) ==
    /\ toDevice # <<>> /\ Head(toDevice).type = type
    /\ toDevice' = Tail(toDevice)
    /\ UNCHANGED <<agentVars, boundVars>>

OnChallenge ==
    /\ DeviceReads("challenge")
    /\ ~authenticated /\ ~awaitingReady
    /\ sinceServer' = 0
    /\ awaitingReady' = TRUE
    /\ DeviceSends([type |-> "hello", life |-> Head(toDevice).life])
    /\ UNCHANGED <<authenticated, sinceRequest, sinceBeat>>

OnReady ==
    /\ DeviceReads("ready")
    /\ awaitingReady
    /\ awaitingReady' = FALSE
    /\ authenticated' = TRUE
    /\ sinceServer' = 0 /\ sinceBeat' = 0
    /\ DeviceSends(Plain("status"))
    /\ UNCHANGED sinceRequest

OnAck ==
    /\ DeviceReads("ack")
    /\ authenticated
    /\ sinceServer' = 0
    /\ UNCHANGED <<authenticated, awaitingReady, sinceRequest, sinceBeat, toAgent>>

\* authentication_failed, authentication_required, unknown_session.
OnReauthenticate ==
    /\ DeviceReads("reauthenticate")
    /\ sinceServer' = 0
    /\ AuthenticateAgain
    /\ UNCHANGED sinceBeat

\* Any other error changes the screen only.
OnError ==
    /\ DeviceReads("error")
    /\ sinceServer' = 0
    /\ UNCHANGED <<authenticated, awaitingReady, sinceRequest, sinceBeat, toAgent>>

Discard ==
    /\ \/ DeviceReads("challenge") /\ (authenticated \/ awaitingReady)
       \/ DeviceReads("ready") /\ ~awaitingReady
       \/ DeviceReads("ack") /\ ~authenticated
    /\ UNCHANGED <<deviceVars, toAgent>>

Poll == HeartbeatTimeout \/ RetryChallenge \/ SendHeartbeat
Handle == OnChallenge \/ OnReady \/ OnAck \/ OnReauthenticate \/ OnError \/ Discard

-----------------------------------------------------------------------------
(* The agent *)

OpenPort ==
    /\ ~open
    /\ open' = TRUE /\ clock' = 0
    /\ UNCHANGED <<deviceVars, session, failures, cooling, lineVars, boundVars>>

\* _serve_connection ends: protocol.close() and the port is closed. What the
\* device wrote is gone; what the agent wrote, with its last answer, may still
\* arrive.
EndSession == session' = FALSE

ClosePort(answer) ==
    /\ open' = FALSE /\ EndSession
    /\ failures' = 0 /\ cooling' = FALSE /\ clock' = 0
    /\ toAgent' = <<>>
    /\ \/ toDevice' = toDevice \o answer
       \/ toDevice' = <<>>

Idle == IF session THEN clock >= SESSION_IDLE ELSE clock >= AUTH_TIMEOUT

IdleClose ==
    /\ open /\ Idle
    /\ ClosePort(<<>>)
    /\ UNCHANGED <<deviceVars, boundVars>>

\* process: every message is activity, which counts once there is a session.
AgentReads(type) ==
    /\ open /\ toAgent # <<>> /\ Head(toAgent).type = type
    /\ UNCHANGED <<deviceVars, boundVars>>

Answer(line) ==
    /\ toAgent' = Tail(toAgent)
    /\ toDevice' = Append(toDevice, line)
    /\ clock' = IF session' THEN 0 ELSE clock
    /\ UNCHANGED open

OnChallengeRequest ==
    /\ AgentReads("challenge_request")
    /\ UNCHANGED <<session, failures>>
    /\ IF session \/ cooling    \* already_authenticated, rate_limited
       THEN Answer(Plain("error")) /\ UNCHANGED cooling
       ELSE /\ Answer([type |-> "challenge", life |-> TTL])
            /\ cooling' = TRUE

TooManyFailures(n) == n >= MAX_AUTH_FAILURES

OnHello ==
    /\ AgentReads("hello")
    /\ \/ /\ session            \* already_authenticated
          /\ UNCHANGED <<session, failures, cooling>>
          /\ Answer(Plain("error"))
       \/ /\ ~session /\ Head(toAgent).life > 0
          /\ session' = TRUE /\ failures' = 0
          /\ Answer(Plain("ready"))
          /\ UNCHANGED cooling
       \/ /\ ~session /\ Head(toAgent).life = 0     \* authentication_failed
          /\ IF TooManyFailures(failures + 1)
             THEN ClosePort(<<Plain("reauthenticate")>>)
             ELSE /\ failures' = failures + 1
                  /\ UNCHANGED <<session, cooling>>
                  /\ Answer(Plain("reauthenticate"))

\* Without a session: authentication_required.
StatusError == IF session THEN "ack" ELSE "error"
StatusAnswer == IF session THEN "ack" ELSE "reauthenticate"

OnStatus ==
    /\ AgentReads("status")
    /\ UNCHANGED <<session, failures, cooling>>
    /\ Answer(Plain(StatusAnswer))

Serve == OnChallengeRequest \/ OnHello \/ OnStatus

-----------------------------------------------------------------------------
(* Faults and time *)

Break(kind) == kind \in FAULTS /\ breaks < MAX_BREAKS /\ breaks' = breaks + 1

Worthless(lines) == [i \in DOMAIN lines |-> [lines[i] EXCEPT !.life = 0]]

\* The agent stops or crashes at any moment: its challenges die with it.
Restart ==
    /\ open /\ Break("restart")
    /\ open' = FALSE /\ session' = FALSE
    /\ failures' = 0 /\ cooling' = FALSE /\ clock' = 0
    /\ toAgent' = <<>>
    /\ \/ toDevice' = Worthless(toDevice)
       \/ toDevice' = <<>>
    /\ UNCHANGED <<deviceVars, stalls>>

\* The cable: the gateway sees a read or write error and closes.
Unplug ==
    /\ open /\ Break("unplug")
    /\ ClosePort(<<>>)
    /\ UNCHANGED <<deviceVars, stalls>>

Saturate(n, limit) == IF n < limit THEN n + 1 ELSE n

Older(lines) ==
    [i \in DOMAIN lines |->
        [lines[i] EXCEPT !.life = IF @ > 0 THEN @ - 1 ELSE 0]]

\* Timers that are due fire before time goes on (poll runs every 10 ms, the
\* gateway's read times out after 0.5 s); a line that waits while time goes on
\* is a stall of the agent, of the device or of the PC.
Waiting == toAgent # <<>> \/ toDevice # <<>>

Tick ==
    /\ ~HeartbeatDue /\ ~RetryDue /\ ~BeatDue
    /\ ~(open /\ Idle) \/ Waiting
    /\ Len(toAgent) < QUEUE /\ Len(toDevice) < QUEUE
    /\ \/ ~Waiting /\ UNCHANGED stalls
       \/ Waiting /\ stalls < MAX_STALLS /\ stalls' = stalls + 1
    /\ sinceRequest' = IF authenticated THEN 0 ELSE Saturate(sinceRequest, RETRY)
    /\ sinceServer' = IF authenticated THEN Saturate(sinceServer, SERVER_TIMEOUT) ELSE 0
    /\ sinceBeat' = IF authenticated THEN Saturate(sinceBeat, HEARTBEAT) ELSE 0
    /\ clock' = IF open THEN Saturate(clock, IF session THEN SESSION_IDLE
                                             ELSE AUTH_TIMEOUT)
                ELSE clock
    /\ cooling' = FALSE
    /\ toAgent' = Older(toAgent) /\ toDevice' = Older(toDevice)
    /\ UNCHANGED <<authenticated, awaitingReady, open, session, failures, breaks>>

-----------------------------------------------------------------------------
Next ==
    \/ Poll \/ Handle
    \/ OpenPort \/ IdleClose \/ Serve
    \/ Restart \/ Unplug
    \/ Tick

\* The device's loop and the gateway's thread keep running, and the port can be
\* opened again; faults need not happen.
Fairness ==
    /\ WF_vars(Poll) /\ WF_vars(Handle)
    /\ WF_vars(OpenPort) /\ WF_vars(IdleClose) /\ WF_vars(Serve)
    /\ WF_vars(Tick)

Spec == Init /\ [][Next]_vars /\ Fairness

-----------------------------------------------------------------------------
(* Properties *)

Linked == authenticated /\ session

\* After the last break or stall the link is up again and again: a lost link is
\* found out (a heartbeat, a timeout, an error) and made again.
Reconnects == []<>Linked

\* The two states in which neither end does what the other waits for: the device
\* waits for a ready that was lost and discards every challenge, or the agent
\* keeps a session that the device gave up and refuses it a challenge.
WaitsForReady == awaitingReady /\ ~session
KeepsOldSession == session /\ ~authenticated
=============================================================================
