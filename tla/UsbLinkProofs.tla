--------------------------- MODULE UsbLinkProofs ---------------------------
(****************************************************************************)
(* Theorems about the USB links: the type invariant of both protocols, and  *)
(* the stability of the encrypted link.                                     *)
(****************************************************************************)
EXTENDS UsbLink, TLAPS

----------------------------------------------------------------------------
(* The lines under way *)

NoneCurrent(lines) == \A i \in DOMAIN lines : ~lines[i].current

OnlyLastCurrent(lines, type) ==
    \A i \in DOMAIN lines : lines[i].current => i = Len(lines) /\ lines[i].type = type

AllRecords(lines) == \A i \in DOMAIN lines : lines[i] = Secure!Record

\* A record of the latest handshake is a line.
LEMMA RecordIsLine == /\ Secure!Record \in Secure!Line
                      /\ Secure!Record.current /\ Secure!Record.type = "record"
  BY DEF Secure!Record, Secure!Line

\* Outdating keeps the lines and leaves none of the latest handshake.
LEMMA OutdatedLines ==
  ASSUME NEW lines \in Seq(Secure!Line)
  PROVE  /\ Secure!Outdated(lines) \in Seq(Secure!Line)
         /\ NoneCurrent(Secure!Outdated(lines))
         /\ Len(Secure!Outdated(lines)) = Len(lines)
<1>1. \A i \in DOMAIN lines : /\ [lines[i] EXCEPT !.current = FALSE] \in Secure!Line
                              /\ [lines[i] EXCEPT !.current = FALSE].current = FALSE
  <2>1. \A i \in DOMAIN lines : lines[i] \in Secure!Line
    OBVIOUS
  <2>2. \A line \in Secure!Line : /\ [line EXCEPT !.current = FALSE] \in Secure!Line
                                  /\ [line EXCEPT !.current = FALSE].current = FALSE
    BY DEF Secure!Line
  <2> QED  BY <2>1, <2>2
<1>2. Secure!Outdated(lines) \in Seq(Secure!Line)
  BY <1>1 DEF Secure!Outdated
<1>3. DOMAIN Secure!Outdated(lines) = DOMAIN lines
  BY DEF Secure!Outdated
<1>4. NoneCurrent(Secure!Outdated(lines))
  BY <1>1 DEF Secure!Outdated, NoneCurrent
<1> QED  BY <1>2, <1>3, <1>4

\* What is left when the first line is read.
LEMMA TailLines ==
  ASSUME NEW S, NEW lines \in Seq(S), lines # <<>>
  PROVE  /\ Head(lines) \in S /\ Head(lines) = lines[1] /\ 1 \in DOMAIN lines
         /\ Tail(lines) \in Seq(S) /\ Len(Tail(lines)) = Len(lines) - 1
         /\ \A i \in DOMAIN Tail(lines) : /\ i + 1 \in DOMAIN lines
                                          /\ Tail(lines)[i] = lines[i + 1]
  OBVIOUS

\* The lines after one more is written.
LEMMA AppendLines ==
  ASSUME NEW S, NEW lines \in Seq(S), NEW line
  PROVE  /\ Len(lines \o <<line>>) = Len(lines) + 1
         /\ DOMAIN (lines \o <<line>>) = 1..(Len(lines) + 1)
         /\ \A i \in 1..(Len(lines) + 1) :
              /\ i <= Len(lines) => (lines \o <<line>>)[i] = lines[i]
              /\ i = Len(lines) + 1 => (lines \o <<line>>)[i] = line
         /\ Append(lines, line) = lines \o <<line>>
  OBVIOUS

\* Reading a line of a session leaves the records of that session.
LEMMA TailRecords ==
  ASSUME NEW lines \in Seq(Secure!Line), lines # <<>>, AllRecords(lines)
  PROVE  AllRecords(Tail(lines)) /\ Head(lines) = Secure!Record
  BY TailLines DEF AllRecords

\* Reading a line keeps at most the last one of the latest handshake.
LEMMA TailOnlyLast ==
  ASSUME NEW lines \in Seq(Secure!Line), lines # <<>>, NEW type,
         OnlyLastCurrent(lines, type)
  PROVE  /\ OnlyLastCurrent(Tail(lines), type)
         /\ Head(lines).current => Tail(lines) = <<>> /\ Head(lines).type = type
         /\ ~Head(lines).current /\ ~NoneCurrent(lines) => ~NoneCurrent(Tail(lines))
         /\ NoneCurrent(lines) => NoneCurrent(Tail(lines))
<1>1. OnlyLastCurrent(Tail(lines), type)
  BY TailLines DEF OnlyLastCurrent
<1>2. ASSUME Head(lines).current PROVE Tail(lines) = <<>> /\ Head(lines).type = type
  BY <1>2, TailLines DEF OnlyLastCurrent
<1>3. ASSUME ~Head(lines).current, ~NoneCurrent(lines) PROVE ~NoneCurrent(Tail(lines))
  <2>1. PICK i \in DOMAIN lines : lines[i].current
    BY <1>3 DEF NoneCurrent
  <2>2. i # 1 /\ i \in 1..Len(lines)
    BY <1>3, <2>1, TailLines
  <2>3. i - 1 \in DOMAIN Tail(lines) /\ Tail(lines)[i - 1] = lines[i]
    BY <2>2, TailLines
  <2> QED  BY <2>1, <2>3 DEF NoneCurrent
<1>4. NoneCurrent(lines) => NoneCurrent(Tail(lines))
  BY TailLines DEF NoneCurrent
<1> QED  BY <1>1, <1>2, <1>3, <1>4

----------------------------------------------------------------------------
(* Types of the encrypted link *)

\* Writing to the agent, whether or not the port is open.
LEMMA SendsType ==
  ASSUME open \in BOOLEAN, NEW old \in Seq(Secure!Line), NEW lines \in Seq(Secure!Line),
         Secure!DeviceSends(old, lines)
  PROVE  toAgent' \in Seq(Secure!Line)
  BY DEF Secure!DeviceSends

\* A new handshake keeps the types.
LEMMA SendHandshakeType ==
  ASSUME Secure!TypeOK, Secure!SendHandshake(toDevice)
  PROVE  /\ toAgent' \in Seq(Secure!Line) /\ toDevice' \in Seq(Secure!Line)
         /\ sinceHello' = 0 /\ matches' \in BOOLEAN /\ ~matches'
<1>1. <<[type |-> "client_hello", current |-> TRUE]>> \in Seq(Secure!Line)
  <2>1. [type |-> "client_hello", current |-> TRUE] \in Secure!Line
    BY DEF Secure!Line
  <2> QED  BY <2>1
<1>2. toAgent \in Seq(Secure!Line) /\ toDevice \in Seq(Secure!Line) /\ open \in BOOLEAN
  BY DEF Secure!TypeOK
<1>3. toAgent' \in Seq(Secure!Line)
  BY <1>1, <1>2, OutdatedLines, SendsType DEF Secure!SendHandshake
<1> QED  BY <1>2, <1>3, OutdatedLines DEF Secure!SendHandshake

\* Every step of the encrypted link keeps its types.
LEMMA SecureTypeStep ==
  ASSUME Secure!TypeOK, Secure!Next
  PROVE  Secure!TypeOK'
<1> USE LinkConstants
<1>r. <<Secure!Record>> \in Seq(Secure!Line) /\ <<Secure!Record, Secure!Record>> \in Seq(Secure!Line)
  BY RecordIsLine
<1>1. CASE Secure!HeartbeatTimeout
  <2>1. /\ toAgent' \in Seq(Secure!Line) /\ toDevice' \in Seq(Secure!Line)
        /\ sinceHello' = 0 /\ matches' \in BOOLEAN /\ ~matches'
    BY <1>1, SendHandshakeType DEF Secure!HeartbeatTimeout
  <2>2. /\ authenticated' \in BOOLEAN
        /\ UNCHANGED <<sinceServer, sinceBeat, open, leaked, session, clock, breaks, stalls>>
    BY <1>1 DEF Secure!HeartbeatTimeout, Secure!boundVars, Secure!TypeOK
  <2> QED  BY <2>1, <2>2 DEF Secure!TypeOK
<1>2. CASE Secure!RetryHandshake
  <2>1. /\ toAgent' \in Seq(Secure!Line) /\ toDevice' \in Seq(Secure!Line)
        /\ sinceHello' = 0 /\ matches' \in BOOLEAN /\ ~matches'
    BY <1>2, SendHandshakeType DEF Secure!RetryHandshake
  <2>2. /\ authenticated' \in BOOLEAN
        /\ UNCHANGED <<sinceServer, sinceBeat, open, leaked, session, clock, breaks, stalls>>
    BY <1>2 DEF Secure!RetryHandshake, Secure!boundVars, Secure!TypeOK
  <2> QED  BY <2>1, <2>2 DEF Secure!TypeOK
<1>3. CASE Secure!SendHeartbeat
  <2>1. toAgent' \in Seq(Secure!Line)
    BY <1>3, <1>r, SendsType DEF Secure!SendHeartbeat, Secure!TypeOK
  <2> QED  BY <1>3, <2>1 DEF Secure!SendHeartbeat, Secure!TypeOK, Secure!boundVars, Secure!agentVars
<1>4. CASE Secure!AcceptServerHello
  <2>1. toAgent' \in Seq(Secure!Line)
    BY <1>4, <1>r, SendsType DEF Secure!AcceptServerHello, Secure!TypeOK
  <2>2. toDevice' \in Seq(Secure!Line)
    BY <1>4, TailLines DEF Secure!AcceptServerHello, Secure!TypeOK
  <2> QED  BY <1>4, <2>1, <2>2
           DEF Secure!AcceptServerHello, Secure!TypeOK, Secure!boundVars, Secure!agentVars
<1>5. CASE Secure!RejectServerHello
  <2>1. toDevice' \in Seq(Secure!Line)
    BY <1>5, TailLines DEF Secure!RejectServerHello, Secure!TypeOK
  <2> QED  BY <1>5, <2>1 DEF Secure!RejectServerHello, Secure!TypeOK, Secure!boundVars,
                             Secure!agentVars, Secure!deviceVars
<1>6. CASE Secure!OpenRecord
  <2>1. toDevice' \in Seq(Secure!Line)
    BY <1>6, TailLines DEF Secure!OpenRecord, Secure!TypeOK
  <2> QED  BY <1>6, <2>1 DEF Secure!OpenRecord, Secure!TypeOK, Secure!boundVars, Secure!agentVars
<1>7. CASE Secure!RejectRecord
  <2>1. toDevice' \in Seq(Secure!Line) /\ toAgent' \in Seq(Secure!Line)
    BY <1>7, TailLines, OutdatedLines DEF Secure!RejectRecord, Secure!TypeOK
  <2>2. /\ authenticated' \in BOOLEAN /\ ~authenticated' /\ matches' \in BOOLEAN /\ ~matches' /\ sinceHello' = 0
        /\ UNCHANGED <<sinceServer, sinceBeat, open, leaked, session, clock, stalls>>
    BY <1>7 DEF Secure!RejectRecord
  <2>3. breaks' \in 0..MAX_BREAKS
    BY <1>7 DEF Secure!RejectRecord, Secure!TypeOK, Secure!Break
  <2> QED  BY <2>1, <2>2, <2>3 DEF Secure!TypeOK
<1>8. CASE Secure!OpenPort
  <2>1. /\ open' \in BOOLEAN /\ open' /\ clock' = 0
        /\ UNCHANGED <<authenticated, sinceHello, sinceServer, sinceBeat, toAgent,
                       toDevice, leaked, session, matches, breaks, stalls>>
    BY <1>8 DEF Secure!OpenPort, Secure!boundVars, Secure!deviceVars
  <2> QED  BY <2>1 DEF Secure!TypeOK
<1>9. CASE Secure!IdleClose
  <2>1. /\ open' \in BOOLEAN /\ ~open' /\ leaked' \in BOOLEAN /\ leaked' /\ session' \in BOOLEAN /\ ~session' /\ matches' \in BOOLEAN /\ ~matches'
        /\ clock' = 0 /\ toAgent' = <<>>
        /\ UNCHANGED <<authenticated, sinceHello, sinceServer, sinceBeat, toDevice,
                       breaks, stalls>>
    BY <1>9 DEF Secure!IdleClose, Secure!LeaveConnection, Secure!boundVars, Secure!deviceVars
  <2> QED  BY <2>1 DEF Secure!TypeOK
<1>10. CASE Secure!OnClientHello
  <2>1. toAgent' \in Seq(Secure!Line) /\ Head(toAgent) \in Secure!Line
    BY <1>10, TailLines DEF Secure!OnClientHello, Secure!Reading, Secure!TypeOK
  <2>2. [type |-> "server_hello", current |-> Head(toAgent).current] \in Secure!Line
    BY <2>1 DEF Secure!Line
  <2>3. toDevice' \in Seq(Secure!Line)
    BY <1>10, <2>2 DEF Secure!OnClientHello, Secure!TypeOK
  <2>4. Head(toAgent).current \in BOOLEAN
    BY <2>1 DEF Secure!Line
  <2>5. /\ session' \in BOOLEAN /\ session' /\ clock' = 0 /\ matches' \in BOOLEAN /\ open
        /\ UNCHANGED <<authenticated, sinceHello, sinceServer, sinceBeat, open, leaked,
                       breaks, stalls>>
    BY <1>10, <2>4 DEF Secure!OnClientHello, Secure!Reading, Secure!boundVars,
                       Secure!deviceVars
  <2> QED  BY <2>1, <2>3, <2>5 DEF Secure!TypeOK
<1>11. CASE Secure!OnRecord
  <2>1. toAgent' \in Seq(Secure!Line) /\ toDevice' \in Seq(Secure!Line)
    BY <1>11, TailLines, RecordIsLine DEF Secure!OnRecord, Secure!Reading, Secure!TypeOK
  <2> QED  BY <1>11, <2>1 DEF Secure!OnRecord, Secure!TypeOK, Secure!boundVars, Secure!deviceVars
<1>12. CASE Secure!EndsConnection
  <2>1. /\ open' \in BOOLEAN /\ ~open' /\ leaked' \in BOOLEAN /\ leaked' /\ session' \in BOOLEAN /\ ~session' /\ matches' \in BOOLEAN /\ ~matches'
        /\ clock' = 0 /\ toAgent' = <<>>
        /\ UNCHANGED <<authenticated, sinceHello, sinceServer, sinceBeat, toDevice,
                       breaks, stalls>>
    BY <1>12 DEF Secure!EndsConnection, Secure!LeaveConnection, Secure!boundVars, Secure!deviceVars
  <2> QED  BY <2>1 DEF Secure!TypeOK
<1>13. CASE Secure!Restart
  <2>1. /\ open' \in BOOLEAN /\ ~open' /\ leaked' \in BOOLEAN /\ ~leaked' /\ session' \in BOOLEAN /\ ~session' /\ matches' \in BOOLEAN /\ ~matches'
        /\ clock' = 0 /\ toAgent' = <<>>
        /\ UNCHANGED <<authenticated, sinceHello, sinceServer, sinceBeat, stalls>>
    BY <1>13 DEF Secure!Restart, Secure!deviceVars
  <2>2. breaks' \in 0..MAX_BREAKS
    BY <1>13 DEF Secure!Restart, Secure!TypeOK, Secure!Break
  <2>3. toDevice' \in Seq(Secure!Line)
    <3>1. toDevice' = toDevice \/ toDevice' = <<>>
      BY <1>13 DEF Secure!Restart
    <3>2. toDevice \in Seq(Secure!Line) /\ <<>> \in Seq(Secure!Line)
      BY DEF Secure!TypeOK
    <3> QED  BY <3>1, <3>2, Zenon
  <2> QED  BY <2>1, <2>2, <2>3 DEF Secure!TypeOK
<1>14. CASE Secure!Unplug
  <2>1. /\ open' \in BOOLEAN /\ ~open' /\ leaked' \in BOOLEAN /\ leaked' /\ session' \in BOOLEAN /\ ~session' /\ matches' \in BOOLEAN /\ ~matches'
        /\ clock' = 0 /\ toAgent' = <<>>
        /\ UNCHANGED <<authenticated, sinceHello, sinceServer, sinceBeat, stalls>>
    BY <1>14 DEF Secure!Unplug, Secure!LeaveConnection, Secure!deviceVars
  <2>2. breaks' \in 0..MAX_BREAKS /\ toDevice' \in Seq(Secure!Line)
    BY <1>14 DEF Secure!Unplug, Secure!TypeOK, Secure!Break
  <2> QED  BY <2>1, <2>2 DEF Secure!TypeOK
<1>15. CASE Secure!Tick
  <2>1. /\ sinceHello' \in 0..RETRY /\ sinceServer' \in 0..SERVER_TIMEOUT
        /\ sinceBeat' \in 0..HEARTBEAT
    BY <1>15 DEF Secure!Tick, Secure!TypeOK, Secure!Saturate
  <2>2. clock' \in 0..SESSION_IDLE
    BY <1>15 DEF Secure!Tick, Secure!TypeOK, Secure!Saturate
  <2>3. stalls' \in 0..MAX_STALLS
    BY <1>15 DEF Secure!Tick, Secure!TypeOK
  <2> QED  BY <1>15, <2>1, <2>2, <2>3 DEF Secure!Tick, Secure!TypeOK
<1> QED  BY <1>1, <1>2, <1>3, <1>4, <1>5, <1>6, <1>7, <1>8, <1>9, <1>10, <1>11, <1>12,
            <1>13, <1>14, <1>15
         DEF Secure!Next, Secure!Poll, Secure!Handle, Secure!Serve

----------------------------------------------------------------------------
(* Which lines belong to the latest handshake *)

\* Before the device is authenticated only the newest line of either direction
\* can be of its latest handshake: the ClientHello it just sent or, that one
\* read, the ServerHello that answers it.
HandshakeInv ==
    /\ OnlyLastCurrent(toAgent, "client_hello")
    /\ OnlyLastCurrent(toDevice, "server_hello")
    /\ matches => ~NoneCurrent(toDevice)
    /\ NoneCurrent(toDevice) \/ (toAgent = <<>> /\ (session => matches))

\* Afterwards every line under way is a record under the keys it agreed, and
\* the agent has those keys or no session.
SessionInv == AllRecords(toAgent) /\ AllRecords(toDevice) /\ (session => matches)

LinesInv == (authenticated => SessionInv) /\ (~authenticated => HandshakeInv)

\* A new handshake leaves only its own ClientHello.
LEMMA SendHandshakeLines ==
  ASSUME Secure!TypeOK, Secure!SendHandshake(toDevice), ~authenticated'
  PROVE  LinesInv'
<1> DEFINE hello == [type |-> "client_hello", current |-> TRUE]
<1>1. NoneCurrent(toDevice')
  BY OutdatedLines DEF Secure!SendHandshake, Secure!TypeOK
<1>2. OnlyLastCurrent(toDevice', "server_hello")
  BY <1>1 DEF NoneCurrent, OnlyLastCurrent
<1>3. OnlyLastCurrent(toAgent', "client_hello")
  <2>1. /\ Secure!Outdated(toAgent) \in Seq(Secure!Line)
        /\ NoneCurrent(Secure!Outdated(toAgent))
    BY OutdatedLines DEF Secure!TypeOK
  <2>2. CASE ~open
    <3>1. toAgent' = Secure!Outdated(toAgent)
      BY <2>2 DEF Secure!SendHandshake, Secure!DeviceSends
    <3> QED  BY <2>1, <3>1 DEF NoneCurrent, OnlyLastCurrent
  <2>3. CASE open
    <3> DEFINE old == Secure!Outdated(toAgent)
    <3>1. toAgent' = old \o <<hello>>
      BY <2>3 DEF Secure!SendHandshake, Secure!DeviceSends
    <3>2. old \in Seq(Secure!Line) /\ NoneCurrent(old)
      BY <2>1
    <3>5. hello.type = "client_hello"
      OBVIOUS
    <3> HIDE DEF old, hello
    <3>3. \A i \in DOMAIN toAgent' : /\ i \in 1..(Len(old) + 1)
                                     /\ i <= Len(old) => toAgent'[i] = old[i]
                                     /\ i = Len(old) + 1 => toAgent'[i] = hello
      BY <3>1, <3>2, AppendLines
    <3>4. Len(toAgent') = Len(old) + 1
      BY <3>1, <3>2, AppendLines
    <3> QED  BY <3>2, <3>3, <3>4, <3>5 DEF NoneCurrent, OnlyLastCurrent
  <2> QED  BY <2>2, <2>3
<1>4. ~matches'
  BY DEF Secure!SendHandshake
<1> QED  BY <1>1, <1>2, <1>3, <1>4 DEF LinesInv, HandshakeInv

\* The end of a connection keeps what is known of the lines.
LEMMA LeaveLines ==
  ASSUME LinesInv, UNCHANGED authenticated, toAgent' = <<>>, ~session', ~matches',
         toDevice' = toDevice \/ toDevice' = <<>>
  PROVE  LinesInv'
<1>1. OnlyLastCurrent(toAgent', "client_hello") /\ AllRecords(toAgent')
  BY DEF OnlyLastCurrent, AllRecords
<1>2. /\ NoneCurrent(<<>>) /\ AllRecords(<<>>) /\ OnlyLastCurrent(<<>>, "server_hello")
  BY DEF OnlyLastCurrent, AllRecords, NoneCurrent
<1>3. CASE authenticated
  <2>1. AllRecords(toDevice')
    BY <1>2, <1>3 DEF LinesInv, SessionInv
  <2> QED  BY <1>1, <1>3, <2>1 DEF LinesInv, SessionInv
<1>4. CASE ~authenticated
  <2>1. OnlyLastCurrent(toDevice', "server_hello")
    BY <1>2, <1>4 DEF LinesInv, HandshakeInv
  <2> QED  BY <1>1, <1>4, <2>1 DEF LinesInv, HandshakeInv
<1> QED  BY <1>3, <1>4

\* A record added to the records of a session.
LEMMA AppendRecords ==
  ASSUME NEW lines \in Seq(Secure!Line), AllRecords(lines)
  PROVE  /\ AllRecords(lines \o <<Secure!Record>>) /\ AllRecords(Append(lines, Secure!Record))
  BY RecordIsLine DEF AllRecords

\* Every step of the encrypted link keeps what is known of the lines.
LEMMA LinesStep ==
  ASSUME Secure!TypeOK, LinesInv, Secure!Next
  PROVE  LinesInv'
<1>0. /\ toAgent \in Seq(Secure!Line) /\ toDevice \in Seq(Secure!Line)
      /\ matches => session
  BY DEF Secure!TypeOK
<1>1. CASE Secure!HeartbeatTimeout \/ Secure!RetryHandshake
  <2>1. ~authenticated' /\ Secure!SendHandshake(toDevice)
    BY <1>1 DEF Secure!HeartbeatTimeout, Secure!RetryHandshake, Secure!RetryDue
  <2> QED  BY <2>1, SendHandshakeLines
<1>2. CASE Secure!SendHeartbeat
  <2>1. /\ authenticated /\ authenticated'
        /\ UNCHANGED <<toDevice, session, matches>>
        /\ toAgent' = toAgent \o <<Secure!Record>> \/ toAgent' = toAgent
    BY <1>2 DEF Secure!SendHeartbeat, Secure!BeatDue, Secure!agentVars, Secure!DeviceSends
  <2>2. SessionInv /\ AllRecords(toAgent')
    BY <1>0, <2>1, AppendRecords DEF LinesInv, SessionInv
  <2> QED  BY <2>1, <2>2 DEF LinesInv, SessionInv
<1>3. CASE Secure!AcceptServerHello
  <2>1. /\ ~authenticated /\ authenticated' /\ UNCHANGED <<session, matches>>
        /\ toDevice # <<>> /\ Head(toDevice).current /\ toDevice' = Tail(toDevice)
        /\ \/ toAgent' = toAgent \o <<Secure!Record, Secure!Record>>
           \/ toAgent' = toAgent
    BY <1>3 DEF Secure!AcceptServerHello, Secure!ServerHelloVerifies, Secure!agentVars,
                Secure!DeviceSends
  <2>2. HandshakeInv
    BY <2>1 DEF LinesInv
  <2>3. toDevice' = <<>>
    BY <1>0, <2>1, <2>2, TailOnlyLast DEF HandshakeInv
  <2>4. toAgent = <<>> /\ (session => matches)
    BY <1>0, <2>1, <2>2, TailLines DEF HandshakeInv, NoneCurrent
  <2>5. toAgent' = <<Secure!Record, Secure!Record>> \/ toAgent' = <<>>
    BY <2>1, <2>4
  <2>6. AllRecords(toAgent') /\ AllRecords(toDevice')
    BY <2>3, <2>5 DEF AllRecords
  <2> QED  BY <2>1, <2>4, <2>6 DEF LinesInv, SessionInv
<1>4. CASE Secure!RejectServerHello
  <2>1. /\ ~authenticated /\ ~authenticated' /\ UNCHANGED <<toAgent, session, matches>>
        /\ toDevice # <<>> /\ toDevice' = Tail(toDevice)
        /\ ~(Head(toDevice).type = "server_hello" /\ Head(toDevice).current)
    BY <1>4 DEF Secure!RejectServerHello, Secure!ServerHelloVerifies, Secure!agentVars,
                Secure!deviceVars
  <2>2. HandshakeInv
    BY <2>1 DEF LinesInv
  <2>3. /\ OnlyLastCurrent(toDevice', "server_hello")
        /\ ~NoneCurrent(toDevice) => ~NoneCurrent(toDevice')
        /\ NoneCurrent(toDevice) => NoneCurrent(toDevice')
    BY <1>0, <2>1, <2>2, TailOnlyLast DEF HandshakeInv
  <2> QED  BY <2>1, <2>2, <2>3 DEF LinesInv, HandshakeInv
<1>5. CASE Secure!OpenRecord
  <2>1. /\ authenticated /\ authenticated' /\ UNCHANGED <<toAgent, session, matches>>
        /\ toDevice # <<>> /\ toDevice' = Tail(toDevice)
    BY <1>5 DEF Secure!OpenRecord, Secure!agentVars
  <2>2. SessionInv /\ AllRecords(toDevice')
    BY <1>0, <2>1, TailRecords DEF LinesInv, SessionInv
  <2> QED  BY <2>1, <2>2 DEF LinesInv, SessionInv
<1>6. CASE Secure!RejectRecord
  <2>1. /\ ~authenticated' /\ ~matches' /\ toDevice # <<>>
        /\ toDevice' = Secure!Outdated(Tail(toDevice))
        /\ toAgent' = Secure!Outdated(toAgent)
    BY <1>6 DEF Secure!RejectRecord
  <2>2. NoneCurrent(toDevice') /\ NoneCurrent(toAgent')
    BY <1>0, <2>1, TailLines, OutdatedLines
  <2>3. OnlyLastCurrent(toDevice', "server_hello") /\ OnlyLastCurrent(toAgent', "client_hello")
    BY <2>2 DEF NoneCurrent, OnlyLastCurrent
  <2> QED  BY <2>1, <2>2, <2>3 DEF LinesInv, HandshakeInv
<1>7. CASE Secure!OpenPort \/ Secure!Tick
  <2>1. UNCHANGED <<authenticated, toAgent, toDevice, session, matches>>
    BY <1>7 DEF Secure!OpenPort, Secure!Tick, Secure!deviceVars
  <2> QED  BY <2>1 DEF LinesInv, HandshakeInv, SessionInv
<1>8. CASE Secure!IdleClose \/ Secure!EndsConnection
  <2>1. /\ UNCHANGED <<authenticated, toDevice>> /\ toAgent' = <<>>
        /\ ~session' /\ ~matches'
    BY <1>8 DEF Secure!IdleClose, Secure!EndsConnection, Secure!LeaveConnection,
                Secure!deviceVars
  <2> QED  BY <2>1, LeaveLines
<1>9. CASE Secure!Restart \/ Secure!Unplug
  <2>1. /\ UNCHANGED authenticated /\ toAgent' = <<>>
        /\ ~session' /\ ~matches' /\ (toDevice' = toDevice \/ toDevice' = <<>>)
    BY <1>9 DEF Secure!Restart, Secure!Unplug, Secure!LeaveConnection, Secure!deviceVars
  <2> QED  BY <2>1, LeaveLines
<1>10. CASE Secure!OnClientHello
  <2> DEFINE answer == [type |-> "server_hello", current |-> Head(toAgent).current]
  <2>1. /\ UNCHANGED authenticated /\ toAgent # <<>> /\ Head(toAgent).type = "client_hello"
        /\ ~session /\ session' /\ (matches' <=> Head(toAgent).current)
        /\ toAgent' = Tail(toAgent) /\ toDevice' = Append(toDevice, answer)
    BY <1>10 DEF Secure!OnClientHello, Secure!Reading, Secure!deviceVars
  <2>2. ~authenticated
    <3>1. ~AllRecords(toAgent)
      BY <1>0, <2>1, TailRecords, RecordIsLine
    <3> QED  BY <3>1 DEF LinesInv, SessionInv
  <2>3. HandshakeInv /\ NoneCurrent(toDevice)
    BY <2>1, <2>2 DEF LinesInv, HandshakeInv
  <2>4. /\ OnlyLastCurrent(toAgent', "client_hello")
        /\ Head(toAgent).current => toAgent' = <<>>
    BY <1>0, <2>1, <2>3, TailOnlyLast DEF HandshakeInv
  <2>5. answer.type = "server_hello" /\ (answer.current <=> Head(toAgent).current)
    OBVIOUS
  <2> HIDE DEF answer
  <2>6. /\ DOMAIN toDevice' = 1..(Len(toDevice) + 1) /\ Len(toDevice') = Len(toDevice) + 1
        /\ \A i \in 1..(Len(toDevice) + 1) :
             /\ i <= Len(toDevice) => toDevice'[i] = toDevice[i]
             /\ i = Len(toDevice) + 1 => toDevice'[i] = answer
    BY <1>0, <2>1, AppendLines
  <2>7. Len(toDevice) \in Nat /\ DOMAIN toDevice = 1..Len(toDevice)
    BY <1>0
  <2>8. OnlyLastCurrent(toDevice', "server_hello")
    BY <2>3, <2>5, <2>6, <2>7 DEF OnlyLastCurrent, NoneCurrent
  <2>9. NoneCurrent(toDevice') <=> ~Head(toAgent).current
    BY <2>3, <2>5, <2>6, <2>7 DEF NoneCurrent
  <2> QED  BY <2>1, <2>2, <2>4, <2>8, <2>9 DEF LinesInv, HandshakeInv
<1>11. CASE Secure!OnRecord
  <2>1. /\ UNCHANGED <<authenticated, session, matches>> /\ toAgent # <<>>
        /\ Head(toAgent).type = "record" /\ Head(toAgent).current
        /\ toAgent' = Tail(toAgent) /\ toDevice' = Append(toDevice, Secure!Record)
    BY <1>11 DEF Secure!OnRecord, Secure!Reading, Secure!deviceVars
  <2>2. authenticated
    <3>1. ~OnlyLastCurrent(toAgent, "client_hello")
      BY <1>0, <2>1, TailOnlyLast
    <3> QED  BY <3>1 DEF LinesInv, HandshakeInv
  <2>3. SessionInv
    BY <2>2 DEF LinesInv
  <2>4. AllRecords(toAgent') /\ AllRecords(toDevice')
    BY <1>0, <2>1, <2>3, TailRecords, AppendRecords DEF SessionInv
  <2> QED  BY <2>1, <2>2, <2>3, <2>4 DEF LinesInv, SessionInv
<1> QED  BY <1>1, <1>2, <1>3, <1>4, <1>5, <1>6, <1>7, <1>8, <1>9, <1>10, <1>11
         DEF Secure!Next, Secure!Poll, Secure!Handle, Secure!Serve

----------------------------------------------------------------------------
(* Heartbeats against the two timeouts *)

\* While no line is held up, what a linked side has waited for the other is no
\* more than the age of the last heartbeat, or the answer to that heartbeat is
\* on its way and the wait no more than the heartbeat's period. A handshake
\* takes no time.
TimingInv ==
    stalls = 0 /\ matches =>
        /\ ~authenticated => clock = 0
        /\ authenticated =>
            /\ sinceServer <= sinceBeat \/ (Secure!Waiting /\ sinceServer <= HEARTBEAT)
            /\ clock <= sinceBeat \/ (toAgent # <<>> /\ clock <= HEARTBEAT)

\* A step that leaves the agent without the device's keys claims nothing.
LEMMA TimingUnmatched == ~matches' => TimingInv'
  BY DEF TimingInv

\* Every step of the encrypted link keeps the waits within the heartbeats.
LEMMA TimingStep ==
  ASSUME Secure!TypeOK, LinesInv, TimingInv, Secure!Next
  PROVE  TimingInv'
<1> USE LinkConstants
<1>0. /\ toAgent \in Seq(Secure!Line) /\ toDevice \in Seq(Secure!Line)
      /\ matches => session /\ open
      /\ sinceServer \in Nat /\ sinceBeat \in 0..HEARTBEAT /\ clock \in Nat /\ stalls \in Nat
      /\ sinceServer <= SERVER_TIMEOUT /\ clock <= SESSION_IDLE
  BY DEF Secure!TypeOK
<1>1. CASE Secure!HeartbeatTimeout \/ Secure!RetryHandshake
  <2>1. ~matches'
    BY <1>1 DEF Secure!HeartbeatTimeout, Secure!RetryHandshake, Secure!SendHandshake
  <2> QED  BY <2>1, TimingUnmatched
<1>2. CASE Secure!SendHeartbeat
  <2>1. /\ authenticated /\ authenticated' /\ sinceBeat' = 0
        /\ UNCHANGED <<sinceServer, clock, matches, stalls>>
        /\ open => toAgent' = toAgent \o <<Secure!Record>>
    BY <1>2 DEF Secure!SendHeartbeat, Secure!BeatDue, Secure!agentVars, Secure!boundVars,
                Secure!DeviceSends
  <2>2. matches => toAgent' # <<>>
    BY <1>0, <2>1, RecordIsLine
  <2>3. stalls = 0 /\ matches => sinceServer <= HEARTBEAT /\ clock <= HEARTBEAT
    BY <1>0, <2>1 DEF TimingInv
  <2> QED  BY <2>1, <2>2, <2>3 DEF TimingInv, Secure!Waiting
<1>3. CASE Secure!AcceptServerHello
  <2>1. /\ ~authenticated /\ authenticated' /\ sinceBeat' = 0 /\ sinceServer' = 0
        /\ UNCHANGED <<clock, matches, stalls>>
    BY <1>3 DEF Secure!AcceptServerHello, Secure!agentVars, Secure!boundVars
  <2> QED  BY <1>0, <2>1 DEF TimingInv
<1>4. CASE Secure!RejectServerHello
  <2>1. ~authenticated /\ ~authenticated' /\ UNCHANGED <<clock, matches, stalls>>
    BY <1>4 DEF Secure!RejectServerHello, Secure!agentVars, Secure!boundVars, Secure!deviceVars
  <2> QED  BY <2>1 DEF TimingInv
<1>5. CASE Secure!OpenRecord
  <2>1. /\ authenticated /\ authenticated' /\ sinceServer' = 0
        /\ UNCHANGED <<sinceBeat, clock, matches, stalls, toAgent>>
    BY <1>5 DEF Secure!OpenRecord, Secure!agentVars, Secure!boundVars
  <2> QED  BY <1>0, <2>1 DEF TimingInv
<1>6. CASE Secure!RejectRecord \/ Secure!IdleClose \/ Secure!EndsConnection
           \/ Secure!Restart \/ Secure!Unplug
  <2>1. ~matches'
    BY <1>6 DEF Secure!RejectRecord, Secure!IdleClose, Secure!EndsConnection, Secure!Restart,
                Secure!Unplug, Secure!LeaveConnection
  <2> QED  BY <2>1, TimingUnmatched
<1>7. CASE Secure!OpenPort
  <2>1. ~open /\ UNCHANGED matches
    BY <1>7 DEF Secure!OpenPort
  <2> QED  BY <1>0, <2>1, TimingUnmatched
<1>8. CASE Secure!OnClientHello
  <2>1. /\ UNCHANGED authenticated /\ toAgent # <<>> /\ Head(toAgent).type = "client_hello"
        /\ clock' = 0
    BY <1>8 DEF Secure!OnClientHello, Secure!Reading, Secure!deviceVars
  <2>2. ~AllRecords(toAgent)
    BY <1>0, <2>1, TailRecords, RecordIsLine
  <2>3. ~authenticated'
    BY <2>1, <2>2 DEF LinesInv, SessionInv
  <2> QED  BY <2>1, <2>3 DEF TimingInv
<1>9. CASE Secure!OnRecord
  <2>1. /\ UNCHANGED <<authenticated, sinceServer, sinceBeat, matches, stalls>>
        /\ toAgent # <<>> /\ clock' = 0 /\ toDevice' = Append(toDevice, Secure!Record)
    BY <1>9 DEF Secure!OnRecord, Secure!Reading, Secure!deviceVars, Secure!boundVars
  <2>2. toDevice' # <<>>
    BY <1>0, <2>1
  <2> QED  BY <1>0, <2>1, <2>2 DEF TimingInv, Secure!Waiting
<1>10. CASE Secure!Tick
  <2>1. /\ UNCHANGED <<authenticated, matches, toAgent, toDevice>>
        /\ ~Secure!HeartbeatDue /\ ~Secure!BeatDue
        /\ (~Secure!Waiting /\ stalls' = stalls) \/ stalls' = stalls + 1
    BY <1>10 DEF Secure!Tick
  <2>2. SUFFICES ASSUME stalls' = 0, matches'  PROVE TimingInv'
    BY DEF TimingInv
  <2>3. ~Secure!Waiting /\ stalls = 0 /\ matches
    BY <1>0, <2>1, <2>2
  <2>4. authenticated
    <3>1. NoneCurrent(toDevice)
      BY <2>3 DEF Secure!Waiting, NoneCurrent
    <3> QED  BY <2>3, <3>1 DEF LinesInv, HandshakeInv
  <2>5. sinceServer <= sinceBeat /\ clock <= sinceBeat
    BY <2>3, <2>4 DEF TimingInv, Secure!Waiting
  <2>6. sinceBeat < HEARTBEAT
    BY <1>0, <2>1, <2>4 DEF Secure!BeatDue
  <2>7. sinceBeat' = sinceBeat + 1 /\ sinceServer' = sinceServer + 1 /\ clock' = clock + 1
    BY <1>0, <1>10, <2>3, <2>4, <2>5, <2>6 DEF Secure!Tick, Secure!Saturate
  <2> QED  BY <1>0, <2>1, <2>4, <2>5, <2>7 DEF TimingInv
<1> QED  BY <1>1, <1>2, <1>3, <1>4, <1>5, <1>6, <1>7, <1>8, <1>9, <1>10
         DEF Secure!Next, Secure!Poll, Secure!Handle, Secure!Serve

\* A linked pair stays linked in a step that breaks nothing and holds up no line.
LEMMA LinkedStep ==
  ASSUME Secure!TypeOK, LinesInv, TimingInv, Secure!Next,
         Secure!Linked, stalls' = 0, breaks' = breaks
  PROVE  Secure!Linked'
<1> USE LinkConstants
<1>0. /\ toAgent \in Seq(Secure!Line) /\ toDevice \in Seq(Secure!Line)
      /\ sinceServer \in Nat /\ sinceBeat \in 0..HEARTBEAT /\ clock \in Nat
      /\ stalls \in Nat /\ breaks \in Nat
      /\ authenticated /\ session /\ matches
  BY DEF Secure!TypeOK, Secure!Linked
<1>1. AllRecords(toAgent) /\ AllRecords(toDevice)
  BY <1>0 DEF LinesInv, SessionInv
<1>2. stalls = 0
  <2>1. stalls' = stalls \/ stalls' = stalls + 1
    BY DEF Secure!Next, Secure!Poll, Secure!Handle, Secure!Serve, Secure!HeartbeatTimeout,
           Secure!RetryHandshake, Secure!SendHeartbeat, Secure!AcceptServerHello,
           Secure!RejectServerHello, Secure!OpenRecord, Secure!RejectRecord, Secure!OpenPort,
           Secure!IdleClose, Secure!OnClientHello, Secure!OnRecord, Secure!EndsConnection,
           Secure!Restart, Secure!Unplug, Secure!Break, Secure!Tick, Secure!boundVars
  <2> QED  BY <1>0, <2>1
<1>3. sinceServer <= HEARTBEAT /\ clock <= HEARTBEAT
  BY <1>0, <1>2 DEF TimingInv
<1>4. ~Secure!HeartbeatTimeout /\ ~Secure!RetryHandshake
  <2>1. ~Secure!HeartbeatDue /\ ~Secure!RetryDue
    BY <1>0, <1>3 DEF Secure!HeartbeatDue, Secure!RetryDue
  <2> QED  BY <2>1 DEF Secure!HeartbeatTimeout, Secure!RetryHandshake
<1>5. ~Secure!AcceptServerHello /\ ~Secure!RejectServerHello
  BY <1>0 DEF Secure!AcceptServerHello, Secure!RejectServerHello
<1>6. ~Secure!RejectRecord
  <2>1. ASSUME toDevice # <<>> PROVE Secure!RecordOpens(Head(toDevice))
    BY <1>0, <1>1, <2>1, TailRecords, RecordIsLine DEF Secure!RecordOpens
  <2>2. ASSUME Secure!RejectRecord PROVE breaks' = breaks + 1
    BY <2>1, <2>2 DEF Secure!RejectRecord, Secure!Break
  <2> QED  BY <1>0, <2>2
<1>7. ~Secure!IdleClose
  BY <1>0, <1>3 DEF Secure!IdleClose, Secure!Idle
<1>8. ~Secure!OnClientHello /\ ~Secure!EndsConnection
  <2>1. ASSUME toAgent # <<>>
        PROVE  Head(toAgent).type = "record" /\ Head(toAgent).current
    BY <1>0, <1>1, <2>1, TailRecords, RecordIsLine
  <2> QED  BY <1>0, <2>1 DEF Secure!OnClientHello, Secure!EndsConnection,
                             Secure!UnexpectedHello, Secure!UnexpectedRecord, Secure!Reading
<1>9. ~Secure!Restart /\ ~Secure!Unplug
  BY <1>0 DEF Secure!Restart, Secure!Unplug, Secure!Break
<1>10. ~Secure!OpenPort
  BY <1>0 DEF Secure!OpenPort, Secure!TypeOK
<1>11. CASE Secure!SendHeartbeat \/ Secure!OpenRecord \/ Secure!OnRecord \/ Secure!Tick
  <2>1. UNCHANGED <<authenticated, session, matches>>
    BY <1>11 DEF Secure!SendHeartbeat, Secure!OpenRecord, Secure!OnRecord, Secure!Tick,
                 Secure!agentVars, Secure!deviceVars
  <2> QED  BY <1>0, <2>1 DEF Secure!Linked
<1> QED  BY <1>4, <1>5, <1>6, <1>7, <1>8, <1>9, <1>10, <1>11
         DEF Secure!Next, Secure!Poll, Secure!Handle, Secure!Serve

----------------------------------------------------------------------------
(* Types of the signed link *)

\* A line that carries nothing of worth, and one that has lost some of it.
LEMMA PlainLines ==
  /\ \A type \in {"challenge_request", "hello", "status", "challenge", "ready", "ack",
                  "reauthenticate", "error"}, life \in 0..TTL :
        [type |-> type, life |-> life] \in Line
  /\ \A line \in Line : /\ line.life \in 0..TTL
                        /\ \A n \in 0..TTL : [line EXCEPT !.life = n] \in Line
  BY LinkConstants DEF Line

\* The lines whose worth is taken away or goes down are still lines.
LEMMA OlderLines ==
  ASSUME NEW lines \in Seq(Line)
  PROVE  Older(lines) \in Seq(Line) /\ Worthless(lines) \in Seq(Line)
<1>1. \A line \in Line : /\ (IF line.life > 0 THEN line.life - 1 ELSE 0) \in 0..TTL
                        /\ 0 \in 0..TTL
  BY PlainLines, LinkConstants
<1>2. \A i \in DOMAIN lines : lines[i] \in Line
  OBVIOUS
<1>3. \A i \in DOMAIN lines :
        /\ [lines[i] EXCEPT !.life = IF @ > 0 THEN @ - 1 ELSE 0] \in Line
        /\ [lines[i] EXCEPT !.life = 0] \in Line
  BY <1>1, <1>2, PlainLines
<1>4. Older(lines) \in Seq(Line)
  <2>1. DOMAIN Older(lines) = 1..Len(lines) /\ Len(lines) \in Nat
    BY DEF Older
  <2>2. Older(lines) \in [1..Len(lines) -> Line]
    BY <1>3, <2>1 DEF Older
  <2> QED  BY <2>1, <2>2
<1>5. Worthless(lines) \in Seq(Line)
  <2>1. DOMAIN Worthless(lines) = 1..Len(lines) /\ Len(lines) \in Nat
    BY DEF Worthless
  <2>2. Worthless(lines) \in [1..Len(lines) -> Line]
    BY <1>3, <2>1 DEF Worthless
  <2> QED  BY <2>1, <2>2
<1> QED  BY <1>4, <1>5

\* What the device writes to the agent.
LEMMA SignedSends ==
  ASSUME open \in BOOLEAN, toAgent \in Seq(Line), NEW line \in Line, DeviceSends(line)
  PROVE  toAgent' \in Seq(Line)
  BY DEF DeviceSends

\* The end of a connection keeps the types.
LEMMA ClosePortType ==
  ASSUME TypeOK, NEW answer \in Seq(Line), ClosePort(answer)
  PROVE  /\ open' \in BOOLEAN /\ session' \in BOOLEAN /\ cooling' \in BOOLEAN
         /\ failures' \in 0..(MAX_AUTH_FAILURES - 1) /\ clock' \in 0..SESSION_IDLE
         /\ toAgent' \in Seq(Line) /\ toDevice' \in Seq(Line)
<1>1. toDevice' = toDevice \o answer \/ toDevice' = <<>>
  BY DEF ClosePort
<1>2. toDevice \o answer \in Seq(Line) /\ <<>> \in Seq(Line)
  BY DEF TypeOK
<1>3. toDevice' \in Seq(Line)
  BY <1>1, <1>2, Zenon
<1>4. /\ open' \in BOOLEAN /\ session' \in BOOLEAN /\ cooling' \in BOOLEAN
  BY DEF ClosePort, EndSession
<1>5. failures' = 0 /\ clock' = 0 /\ toAgent' = <<>>
  BY DEF ClosePort
<1>6. 0 \in 0..(MAX_AUTH_FAILURES - 1) /\ 0 \in 0..SESSION_IDLE /\ <<>> \in Seq(Line)
  BY LinkConstants
<1> QED  BY <1>3, <1>4, <1>5, <1>6

\* An answer to the device keeps the types.
LEMMA AnswerType ==
  ASSUME TypeOK, NEW line \in Line, toAgent # <<>>, Answer(line)
  PROVE  /\ toAgent' \in Seq(Line) /\ toDevice' \in Seq(Line) /\ open' \in BOOLEAN
         /\ clock' \in 0..SESSION_IDLE
<1>1. toAgent' \in Seq(Line) /\ toDevice' \in Seq(Line)
  BY TailLines DEF Answer, TypeOK
<1>2. clock' = 0 \/ clock' = clock
  BY DEF Answer
<1>3. clock' \in 0..SESSION_IDLE
  BY <1>2, LinkConstants DEF TypeOK
<1> QED  BY <1>1, <1>3 DEF Answer, TypeOK

\* Every step of the signed link keeps its types.
LEMMA SignedTypeStep ==
  ASSUME TypeOK, Next
  PROVE  TypeOK'
<1> USE LinkConstants
<1> DEFINE DeviceTypes == /\ authenticated \in BOOLEAN /\ awaitingReady \in BOOLEAN
                          /\ ~(authenticated /\ awaitingReady)
                          /\ sinceRequest \in 0..RETRY /\ sinceServer \in 0..SERVER_TIMEOUT
                          /\ sinceBeat \in 0..HEARTBEAT
           AgentTypes == /\ open \in BOOLEAN /\ session \in BOOLEAN /\ cooling \in BOOLEAN
                         /\ failures \in 0..(MAX_AUTH_FAILURES - 1)
                         /\ clock \in 0..SESSION_IDLE
           LineTypes == toAgent \in Seq(Line) /\ toDevice \in Seq(Line)
           BoundTypes == breaks \in 0..MAX_BREAKS /\ stalls \in 0..MAX_STALLS
<1>0. DeviceTypes /\ AgentTypes /\ LineTypes /\ BoundTypes
  BY DEF TypeOK
<1>d. UNCHANGED deviceVars => DeviceTypes'
  BY <1>0 DEF deviceVars
<1>a. UNCHANGED agentVars => AgentTypes'
  BY <1>0 DEF agentVars
<1>b. UNCHANGED boundVars => BoundTypes'
  BY <1>0 DEF boundVars
<1>l. \A type \in {"challenge_request", "hello", "status", "challenge", "ready", "ack",
                   "reauthenticate", "error"} :
        /\ Plain(type) \in Line
        /\ \A life \in 0..TTL : [type |-> type, life |-> life] \in Line
  BY PlainLines DEF Plain
<1>q. SUFFICES DeviceTypes' /\ AgentTypes' /\ LineTypes' /\ BoundTypes'
  BY DEF TypeOK
<1>1. CASE HeartbeatTimeout
  <2>1. toAgent' \in Seq(Line)
    BY <1>0, <1>1, <1>l, SignedSends DEF HeartbeatTimeout, AuthenticateAgain
  <2>2. DeviceTypes'
    <3>1. /\ authenticated' \in BOOLEAN /\ ~authenticated'
          /\ awaitingReady' \in BOOLEAN /\ ~awaitingReady'
          /\ sinceRequest' = 0 /\ UNCHANGED sinceBeat /\ (sinceServer' = 0 \/ UNCHANGED sinceServer)
      BY <1>1 DEF HeartbeatTimeout, AuthenticateAgain
    <3> QED  BY <1>0, <3>1
  <2> QED  BY <1>0, <1>1, <1>a, <1>b, <2>1, <2>2 DEF HeartbeatTimeout
<1>2. CASE RetryChallenge
  <2>1. toAgent' \in Seq(Line)
    BY <1>0, <1>2, <1>l, SignedSends DEF RetryChallenge
  <2>2. DeviceTypes'
    BY <1>0, <1>2 DEF RetryChallenge
  <2> QED  BY <1>0, <1>2, <1>a, <1>b, <2>1, <2>2 DEF RetryChallenge
<1>3. CASE SendHeartbeat
  <2>1. toAgent' \in Seq(Line)
    BY <1>0, <1>3, <1>l, SignedSends DEF SendHeartbeat
  <2>2. DeviceTypes'
    BY <1>0, <1>3 DEF SendHeartbeat
  <2> QED  BY <1>0, <1>3, <1>a, <1>b, <2>1, <2>2 DEF SendHeartbeat
<1>4. ASSUME NEW type, DeviceReads(type)
      PROVE  /\ toDevice' \in Seq(Line) /\ AgentTypes' /\ BoundTypes'
             /\ Head(toDevice) \in Line /\ Head(toDevice).life \in 0..TTL
  <2>1. toDevice' \in Seq(Line) /\ Head(toDevice) \in Line
    BY <1>0, <1>4, TailLines DEF DeviceReads
  <2>2. Head(toDevice).life \in 0..TTL
    BY <2>1, PlainLines
  <2> QED  BY <1>4, <1>a, <1>b, <2>1, <2>2 DEF DeviceReads
<1>5. CASE OnChallenge
  <2>1. /\ toDevice' \in Seq(Line) /\ AgentTypes' /\ BoundTypes'
        /\ [type |-> "hello", life |-> Head(toDevice).life] \in Line
    BY <1>4, <1>5, <1>l DEF OnChallenge
  <2>2. toAgent' \in Seq(Line)
    BY <1>0, <1>5, <2>1, SignedSends DEF OnChallenge
  <2>3. DeviceTypes'
    BY <1>0, <1>5 DEF OnChallenge
  <2> QED  BY <2>1, <2>2, <2>3
<1>6. CASE OnReady
  <2>1. toDevice' \in Seq(Line) /\ AgentTypes' /\ BoundTypes'
    BY <1>4, <1>6 DEF OnReady
  <2>2. toAgent' \in Seq(Line)
    BY <1>0, <1>6, <1>l, SignedSends DEF OnReady
  <2>3. DeviceTypes'
    <3>1. /\ authenticated' \in BOOLEAN /\ awaitingReady' \in BOOLEAN /\ ~awaitingReady'
          /\ sinceServer' = 0 /\ sinceBeat' = 0 /\ UNCHANGED sinceRequest
      BY <1>6 DEF OnReady
    <3> QED  BY <1>0, <3>1
  <2> QED  BY <2>1, <2>2, <2>3
<1>7. CASE OnAck \/ OnError
  <2>1. toDevice' \in Seq(Line) /\ AgentTypes' /\ BoundTypes'
    BY <1>4, <1>7 DEF OnAck, OnError
  <2>2. /\ sinceServer' = 0
        /\ UNCHANGED <<authenticated, awaitingReady, sinceRequest, sinceBeat, toAgent>>
    BY <1>7 DEF OnAck, OnError
  <2> QED  BY <1>0, <2>1, <2>2
<1>8. CASE OnReauthenticate
  <2>1. toDevice' \in Seq(Line) /\ AgentTypes' /\ BoundTypes'
    BY <1>4, <1>8 DEF OnReauthenticate
  <2>2. toAgent' \in Seq(Line)
    BY <1>0, <1>8, <1>l, SignedSends DEF OnReauthenticate, AuthenticateAgain
  <2>3. DeviceTypes'
    <3>1. /\ authenticated' \in BOOLEAN /\ ~authenticated'
          /\ awaitingReady' \in BOOLEAN /\ ~awaitingReady'
          /\ sinceRequest' = 0 /\ UNCHANGED sinceBeat /\ (sinceServer' = 0 \/ UNCHANGED sinceServer)
      BY <1>8 DEF OnReauthenticate, AuthenticateAgain
    <3> QED  BY <1>0, <3>1
  <2> QED  BY <2>1, <2>2, <2>3
<1>9. CASE Discard
  <2>1. toDevice' \in Seq(Line) /\ AgentTypes' /\ BoundTypes'
    BY <1>4, <1>9 DEF Discard
  <2> QED  BY <1>0, <1>9, <1>d, <2>1 DEF Discard
<1>10. CASE OpenPort
  <2>1. AgentTypes'
    BY <1>0, <1>10 DEF OpenPort
  <2> QED  BY <1>0, <1>10, <1>d, <1>b, <2>1 DEF OpenPort, lineVars
<1>11. CASE IdleClose
  <2>1. AgentTypes' /\ LineTypes'
    <3>1. <<>> \in Seq(Line) /\ ClosePort(<<>>)
      BY <1>11 DEF IdleClose
    <3> QED  BY <3>1, ClosePortType
  <2> QED  BY <1>11, <1>d, <1>b, <2>1 DEF IdleClose
<1>12. ASSUME NEW type, AgentReads(type)
       PROVE  /\ toAgent # <<>> /\ DeviceTypes' /\ BoundTypes'
              /\ Head(toAgent) \in Line
  BY <1>0, <1>12, <1>d, <1>b, TailLines DEF AgentReads
<1>13. CASE OnChallengeRequest
  <2>1. toAgent # <<>> /\ DeviceTypes' /\ BoundTypes'
    BY <1>12, <1>13 DEF OnChallengeRequest
  <2>2. /\ \E line \in Line : Answer(line)
        /\ UNCHANGED <<session, failures>> /\ cooling' \in BOOLEAN
    <3>1. Plain("error") \in Line /\ [type |-> "challenge", life |-> TTL] \in Line
      BY <1>l
    <3> QED  BY <1>0, <1>13, <3>1 DEF OnChallengeRequest
  <2>3. LineTypes' /\ open' \in BOOLEAN /\ clock' \in 0..SESSION_IDLE
    BY <2>1, <2>2, AnswerType
  <2> QED  BY <1>0, <2>1, <2>2, <2>3
<1>14. CASE OnHello
  <2>1. toAgent # <<>> /\ DeviceTypes' /\ BoundTypes'
    BY <1>12, <1>14 DEF OnHello
  <2>2. \/ /\ \E line \in Line : Answer(line)
           /\ session' \in BOOLEAN /\ UNCHANGED cooling
           /\ failures' \in {0, failures, failures + 1}
           /\ failures' # failures + 1 \/ ~TooManyFailures(failures + 1)
        \/ \E answer \in Seq(Line) : ClosePort(answer)
    <3>1. Plain("error") \in Line /\ Plain("ready") \in Line /\ Plain("reauthenticate") \in Line
          /\ <<Plain("reauthenticate")>> \in Seq(Line)
      BY <1>l
    <3>2. failures # failures + 1 /\ 0 # failures + 1
      BY <1>0
    <3> QED  BY <1>0, <1>14, <3>1, <3>2 DEF OnHello
  <2>3. CASE \E answer \in Seq(Line) : ClosePort(answer)
    <3>1. AgentTypes' /\ LineTypes'
      BY <2>3, ClosePortType
    <3> QED  BY <2>1, <3>1
  <2>4. CASE /\ \E line \in Line : Answer(line)
             /\ session' \in BOOLEAN /\ UNCHANGED cooling
             /\ failures' \in {0, failures, failures + 1}
             /\ failures' # failures + 1 \/ ~TooManyFailures(failures + 1)
    <3>1. LineTypes' /\ open' \in BOOLEAN /\ clock' \in 0..SESSION_IDLE
      BY <2>1, <2>4, AnswerType
    <3>2. failures' \in 0..(MAX_AUTH_FAILURES - 1)
      BY <1>0, <2>4 DEF TooManyFailures
    <3>3. session' \in BOOLEAN /\ cooling' \in BOOLEAN
      BY <1>0, <2>4
    <3> QED  BY <2>1, <3>1, <3>2, <3>3
  <2> QED  BY <2>2, <2>3, <2>4
<1>15. CASE OnStatus
  <2>1. toAgent # <<>> /\ DeviceTypes' /\ BoundTypes'
    BY <1>12, <1>15 DEF OnStatus
  <2>2. (\E line \in Line : Answer(line)) /\ UNCHANGED <<session, failures, cooling>>
    BY <1>15, <1>l DEF OnStatus, StatusAnswer
  <2>3. LineTypes' /\ open' \in BOOLEAN /\ clock' \in 0..SESSION_IDLE
    BY <2>1, <2>2, AnswerType
  <2> QED  BY <1>0, <2>1, <2>2, <2>3
<1>16. CASE Restart
  <2>1. /\ open' \in BOOLEAN /\ session' \in BOOLEAN /\ cooling' \in BOOLEAN
    BY <1>16 DEF Restart
  <2>2. failures' = 0 /\ clock' = 0 /\ toAgent' = <<>>
    BY <1>16 DEF Restart
  <2>3. toDevice' \in Seq(Line)
    <3>1. toDevice' = Worthless(toDevice) \/ toDevice' = <<>>
      BY <1>16 DEF Restart
    <3>2. Worthless(toDevice) \in Seq(Line) /\ <<>> \in Seq(Line)
      BY <1>0, OlderLines
    <3> QED  BY <3>1, <3>2, Zenon
  <2>4. BoundTypes'
    BY <1>0, <1>16 DEF Restart, Break
  <2> QED  BY <1>16, <1>d, <2>1, <2>2, <2>3, <2>4 DEF Restart
<1>17. CASE Unplug
  <2>1. AgentTypes' /\ LineTypes'
    <3>1. <<>> \in Seq(Line) /\ ClosePort(<<>>)
      BY <1>17 DEF Unplug
    <3> QED  BY <3>1, ClosePortType
  <2>2. BoundTypes'
    BY <1>0, <1>17 DEF Unplug, Break
  <2> QED  BY <1>17, <1>d, <2>1, <2>2 DEF Unplug
<1>18. CASE Tick
  <2>1. /\ sinceRequest' \in 0..RETRY /\ sinceServer' \in 0..SERVER_TIMEOUT
        /\ sinceBeat' \in 0..HEARTBEAT
    BY <1>0, <1>18 DEF Tick, Saturate
  <2>2. clock' \in 0..SESSION_IDLE
    BY <1>0, <1>18 DEF Tick, Saturate
  <2>3. BoundTypes'
    BY <1>0, <1>18 DEF Tick
  <2>4. LineTypes'
    BY <1>0, <1>18, OlderLines DEF Tick
  <2>5. /\ cooling' \in BOOLEAN
        /\ UNCHANGED <<authenticated, awaitingReady, open, session, failures>>
    BY <1>18 DEF Tick
  <2> QED  BY <1>0, <2>1, <2>2, <2>3, <2>4, <2>5
<1> QED  BY <1>1, <1>2, <1>3, <1>5, <1>6, <1>7, <1>8, <1>9, <1>10, <1>11, <1>13, <1>14, <1>15,
            <1>16, <1>17, <1>18
         DEF Next, Poll, Handle, Serve

----------------------------------------------------------------------------
(* The theorems *)

\* The inductive invariant of the two links.
UsbInv ==
    /\ UsbTypeOK
    /\ protocol = "v2" => LinesInv /\ TimingInv

\* Both links start in the invariant.
LEMMA UsbInvInit == UsbInit => UsbInv
<1> SUFFICES ASSUME UsbInit PROVE UsbInv
  OBVIOUS
<1> USE LinkConstants
<1>1. UsbTypeOK
  <2>1. TypeOK
    <3>1. /\ authenticated \in BOOLEAN /\ ~authenticated /\ awaitingReady \in BOOLEAN
          /\ open \in BOOLEAN /\ session \in BOOLEAN /\ cooling \in BOOLEAN
      BY DEF UsbInit, Init
    <3>2. /\ sinceRequest = 0 /\ sinceServer = 0 /\ sinceBeat = 0 /\ failures = 0 /\ clock = 0
          /\ breaks = 0 /\ stalls = 0 /\ toAgent = <<>> /\ toDevice = <<>>
      BY DEF UsbInit, Init
    <3> QED  BY <3>1, <3>2 DEF TypeOK
  <2>2. Secure!TypeOK
    <3>1. /\ authenticated \in BOOLEAN /\ open \in BOOLEAN /\ leaked \in BOOLEAN
          /\ session \in BOOLEAN /\ ~session /\ matches \in BOOLEAN /\ ~matches
      BY DEF UsbInit, Secure!Init
    <3>2. /\ sinceHello = 0 /\ sinceServer = 0 /\ sinceBeat = 0 /\ clock = 0
          /\ breaks = 0 /\ stalls = 0 /\ toAgent = <<>> /\ toDevice = <<>>
      BY DEF UsbInit, Secure!Init
    <3> QED  BY <3>1, <3>2 DEF Secure!TypeOK
  <2> QED  BY <2>1, <2>2 DEF UsbTypeOK
<1>2. LinesInv
  BY DEF UsbInit, Secure!Init, LinesInv, HandshakeInv, OnlyLastCurrent, NoneCurrent
<1>3. TimingInv
  BY DEF UsbInit, Secure!Init, TimingInv
<1> QED  BY <1>1, <1>2, <1>3 DEF UsbInv

\* Every step of either link keeps the invariant.
LEMMA UsbInvStep == UsbInv /\ [UsbNext]_usbVars => UsbInv'
<1> SUFFICES ASSUME UsbInv, [UsbNext]_usbVars PROVE UsbInv'
  OBVIOUS
<1>1. CASE Signed(Next)
  <2>1. protocol = "v1" /\ UNCHANGED protocol /\ Next
    BY <1>1 DEF Signed
  <2>2. TypeOK'
    BY <2>1, SignedTypeStep DEF UsbInv, UsbTypeOK
  <2> QED  BY <2>1, <2>2 DEF UsbInv, UsbTypeOK
<1>2. CASE Encrypted(Secure!Next)
  <2>1. protocol = "v2" /\ UNCHANGED protocol /\ Secure!Next
    BY <1>2 DEF Encrypted
  <2>2. Secure!TypeOK /\ LinesInv /\ TimingInv
    BY <2>1 DEF UsbInv, UsbTypeOK
  <2>3. Secure!TypeOK' /\ LinesInv' /\ TimingInv'
    BY <2>1, <2>2, SecureTypeStep, LinesStep, TimingStep
  <2> QED  BY <2>1, <2>3 DEF UsbInv, UsbTypeOK
<1>3. CASE UNCHANGED usbVars
  BY <1>3 DEF UsbInv, UsbTypeOK, TypeOK, Secure!TypeOK, LinesInv, HandshakeInv, SessionInv,
              TimingInv, Secure!Waiting, usbVars, vars, deviceVars, agentVars, lineVars,
              boundVars, secureOnly
<1> QED  BY <1>1, <1>2, <1>3 DEF UsbNext

\* The invariant holds of both links, for every order of the periods that the
\* firmware and the gateways respect.
THEOREM UsbInvariant == UsbSpec => []UsbInv
  BY UsbInvInit, UsbInvStep, PTL DEF UsbSpec

\* Both links keep their types: no timer passes its limit, a session needs an
\* open port, and the signed device never waits for ready while authenticated.
THEOREM UsbTypeCorrect == UsbSpec => []UsbTypeOK
<1>1. UsbInv => UsbTypeOK
  BY DEF UsbInv
<1> QED  BY <1>1, UsbInvariant, PTL

\* While nothing breaks and no line is held up, a pair linked over the encrypted
\* protocol stays linked: neither side's timeout fires before the heartbeats and
\* their answers, and nothing that arrives ends the session.
THEOREM EncryptedLinkStable == UsbSpec => EncryptedLinkIsStable
<1>1. UsbInv /\ [UsbNext]_usbVars
        => [protocol = "v2" /\ Secure!Linked /\ stalls' = 0 /\ breaks' = breaks
              => Secure!Linked']_usbVars
  <2> SUFFICES ASSUME UsbInv, UsbNext, protocol = "v2", Secure!Linked,
                      stalls' = 0, breaks' = breaks
               PROVE  Secure!Linked'
    OBVIOUS
  <2>1. Secure!Next
    BY DEF UsbNext, Signed, Encrypted
  <2>2. Secure!TypeOK /\ LinesInv /\ TimingInv
    BY DEF UsbInv, UsbTypeOK
  <2> QED  BY <2>1, <2>2, LinkedStep
<1> QED  BY <1>1, UsbInvariant, PTL DEF UsbSpec, EncryptedLinkIsStable
============================================================================
