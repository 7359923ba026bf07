---------------------------- MODULE SecureChannel ----------------------------
(***************************************************************************)
(* Secure session protocol v2: the signed handshake and the record layer,  *)
(* between the clients of one paired device (firmware or phone) and the    *)
(* connections of the agent.                                               *)
(*                                                                         *)
(* Nothing is assumed of the transport: whatever was written may be lost,  *)
(* delayed, repeated, reordered or delivered to another connection. What   *)
(* has been written is determined by the state: a client past "new" wrote  *)
(* its ClientHello, a connection with a hello wrote its ServerHello, and   *)
(* the records of an end are those below its send sequence. Signatures,    *)
(* X25519, HKDF and ChaCha20-Poly1305 are taken at their word: a signature *)
(* is of the key that made it, and a record opens only under the keys of   *)
(* the transcript it was sealed in, which fixes the hello and the answer.  *)
(***************************************************************************)
EXTENDS Naturals, Sequences

CONSTANTS
    Hello,          \* ClientHellos; each one has its own session_id
    Signed,         \* those signed with the key of the paired device
    Conn,           \* connections that the agent accepts
    None,
    MAX_USED,       \* MAX_USED_SESSION_IDS
    MAX_SEQUENCE,   \* MAX_SEQUENCE, kMaxSequence
    ANSWERS         \* bound: messages in an answer of the core

ASSUME ChannelConstants ==
    /\ Signed \subseteq Hello
    /\ None \notin Conn /\ None \notin Hello
    /\ MAX_USED \in Nat \ {0}
    /\ MAX_SEQUENCE \in Nat /\ ANSWERS \in Nat

VARIABLES
    client,         \* of a hello: "new", "waiting", "open" or "closed"
    peer,           \* ... the connection whose ServerHello it completed
    clientSent,     \* ... send_sequence_
    clientReceived, \* ... receive_sequence_
    server,         \* of a connection: "new", "open" or "closed"
    hello,          \* ... the ClientHello it accepted
    serverSent,     \* ... _send_sequence
    serverReceived, \* ... _receive_sequence
    used,           \* _used_session_ids, oldest first
    trusted         \* the device is in trusted_devices

clientVars == <<client, peer, clientSent, clientReceived>>
serverVars == <<server, hello, serverSent, serverReceived>>
vars == <<clientVars, serverVars, used, trusted>>

TypeOK ==
    /\ client \in [Hello -> {"new", "waiting", "open", "closed"}]
    /\ peer \in [Hello -> Conn \cup {None}]
    /\ clientSent \in [Hello -> 0..MAX_SEQUENCE]
    /\ clientReceived \in [Hello -> 0..MAX_SEQUENCE]
    /\ server \in [Conn -> {"new", "open", "closed"}]
    /\ hello \in [Conn -> Hello \cup {None}]
    /\ serverSent \in [Conn -> 0..(MAX_SEQUENCE + 1)]
    /\ serverReceived \in [Conn -> 0..(MAX_SEQUENCE + 1)]
    /\ used \in Seq(Hello) /\ Len(used) <= MAX_USED
    /\ trusted \in BOOLEAN

Init ==
    /\ client = [h \in Hello |-> "new"]
    /\ peer = [h \in Hello |-> None]
    /\ clientSent = [h \in Hello |-> 0] /\ clientReceived = [h \in Hello |-> 0]
    /\ server = [c \in Conn |-> "new"]
    /\ hello = [c \in Conn |-> None]
    /\ serverSent = [c \in Conn |-> 0] /\ serverReceived = [c \in Conn |-> 0]
    /\ used = <<>>
    /\ trusted = TRUE

-----------------------------------------------------------------------------
(* Handshake *)

\* create_client_hello, beginClient: a fresh session_id, key and nonce.
CreateClientHello(h) ==
    /\ client[h] = "new"
    /\ client' = [client EXCEPT ![h] = "waiting"]
    /\ UNCHANGED <<peer, clientSent, clientReceived, serverVars, used, trusted>>

\* The session_ids younger than SESSION_ID_REPLAY_TTL_SECONDS: all but some of
\* the oldest ones.
Unexpired(k) == SubSeq(used, k + 1, Len(used))

InUse(h, ids) == \E i \in DOMAIN ids : ids[i] = h

MakeRoom(ids) == IF Len(ids) >= MAX_USED THEN Tail(ids) ELSE ids

\* SecureSessionServer.accept_client_hello and create_server_hello, under the
\* server's lock.
Consume(h) ==
    /\ trusted
    /\ h \in Signed
    /\ \E k \in 0..Len(used) :
          /\ ~InUse(h, Unexpired(k))
          /\ used' = Append(MakeRoom(Unexpired(k)), h)

AcceptClientHello(c, h) ==
    /\ server[c] = "new" /\ client[h] # "new"
    /\ Consume(h)
    /\ server' = [server EXCEPT ![c] = "open"]
    /\ hello' = [hello EXCEPT ![c] = h]
    /\ UNCHANGED <<clientVars, serverSent, serverReceived, trusted>>

\* SecureCoreConnection.accept_client_hello: the core has no room for a session,
\* or the device was unpaired meanwhile. The hello is spent and not answered.
AcceptFails(c, h) ==
    /\ server[c] = "new" /\ client[h] # "new"
    /\ Consume(h)
    /\ server' = [server EXCEPT ![c] = "closed"]
    /\ UNCHANGED <<clientVars, hello, serverSent, serverReceived, trusted>>

\* HandshakeError: the connection closes. A paired device's hello has dropped
\* the expired session_ids by then.
RejectClientHello(c, h) ==
    /\ server[c] = "new" /\ client[h] # "new"
    /\ \E k \in 0..Len(used) :
          /\ ~trusted \/ h \notin Signed \/ InUse(h, Unexpired(k))
          /\ used' = IF trusted THEN Unexpired(k) ELSE used
    /\ server' = [server EXCEPT ![c] = "closed"]
    /\ UNCHANGED <<clientVars, hello, serverSent, serverReceived, trusted>>

\* complete_client_handshake, acceptServerHello: the answer repeats the hello.
Answers(h, c) == hello[c] = h

CompleteHandshake(h, c) ==
    /\ client[h] = "waiting"
    /\ Answers(h, c)
    /\ client' = [client EXCEPT ![h] = "open"]
    /\ peer' = [peer EXCEPT ![h] = c]
    /\ UNCHANGED <<clientSent, clientReceived, serverVars, used, trusted>>

-----------------------------------------------------------------------------
(* Records *)

\* PipaSecureSession::seal, which refuses the last sequence.
ClientSeal(h) ==
    /\ client[h] = "open"
    /\ clientSent[h] < MAX_SEQUENCE
    /\ clientSent' = [clientSent EXCEPT ![h] = @ + 1]
    /\ UNCHANGED <<client, peer, clientReceived, serverVars, used, trusted>>

\* The record layer of a connection opens a record of h: its session_id in the
\* header, and its keys, which come from both ephemeral keys and the transcript.
SameSessionId(c, h) == hello[c] = h
Opens(c, h) == hello[c] = h /\ peer[h] = c

\* SecureSession.open: the next expected sequence, or ReplayError.
AnySequence(expected, sent) == sent > 0
NextExpected(expected, sent) == expected < sent

\* SecureCoreConnection.process_frame: trust, open, handle, seal the answers.
ProcessFrame(c, h) ==
    /\ server[c] = "open" /\ trusted
    /\ Opens(c, h)
    /\ NextExpected(serverReceived[c], clientSent[h])
    /\ serverReceived' = [serverReceived EXCEPT ![c] = @ + 1]
    /\ \E k \in 0..ANSWERS :
          /\ serverSent[c] + k <= MAX_SEQUENCE + 1
          /\ serverSent' = [serverSent EXCEPT ![c] = @ + k]
    /\ UNCHANGED <<clientVars, server, hello, used, trusted>>

\* PipaSecureSession::open, which refuses the last sequence too.
ClientOpen(h, c) ==
    /\ client[h] = "open"
    /\ Opens(c, h)
    /\ NextExpected(clientReceived[h], serverSent[c])
    /\ clientReceived[h] # MAX_SEQUENCE
    /\ clientReceived' = [clientReceived EXCEPT ![h] = @ + 1]
    /\ UNCHANGED <<client, peer, clientSent, serverVars, used, trusted>>

\* A record that does not open, an answer to another hello, a lost transport or
\* the owner's close: the session is gone for good.
CloseClient(h) ==
    /\ client[h] \in {"waiting", "open"}
    /\ client' = [client EXCEPT ![h] = "closed"]
    /\ UNCHANGED <<peer, clientSent, clientReceived, serverVars, used, trusted>>

CloseServer(c) ==
    /\ server[c] \in {"new", "open"}
    /\ server' = [server EXCEPT ![c] = "closed"]
    /\ UNCHANGED <<clientVars, hello, serverSent, serverReceived, used, trusted>>

\* refresh_trusted_devices keeps the replay cache.
RefreshTrustedDevices ==
    /\ trusted' \in BOOLEAN
    /\ UNCHANGED <<clientVars, serverVars, used>>

Next ==
    \/ \E h \in Hello : CreateClientHello(h) \/ ClientSeal(h) \/ CloseClient(h)
    \/ \E c \in Conn, h \in Hello :
          \/ AcceptClientHello(c, h) \/ AcceptFails(c, h)
          \/ RejectClientHello(c, h)
          \/ CompleteHandshake(h, c)
          \/ ProcessFrame(c, h) \/ ClientOpen(h, c)
    \/ \E c \in Conn : CloseServer(c)
    \/ RefreshTrustedDevices

Spec == Init /\ [][Next]_vars

-----------------------------------------------------------------------------
(* Properties *)

\* Each end has received a first part of what the other end of the same
\* handshake sent, and a connection has only ever acted on records of a client
\* that completed the handshake with it.
ReceivedWasSent ==
    /\ \A c \in Conn : serverReceived[c] > 0 =>
          /\ hello[c] \in Signed
          /\ peer[hello[c]] = c
          /\ serverReceived[c] <= clientSent[hello[c]]
    /\ \A h \in Hello : clientReceived[h] > 0 =>
          /\ peer[h] \in Conn
          /\ clientReceived[h] <= serverSent[peer[h]]

\* The memory of used session_ids is bounded and expires, so a hello that comes
\* again may open a second connection. No record is ever processed on both.
OneLivePeer ==
    \A c, d \in Conn :
        serverReceived[c] > 0 /\ serverReceived[d] > 0 /\ hello[c] = hello[d]
            => c = d

\* Both directions are pipes, from the client's side of each handshake.
Upstream == INSTANCE Pipe WITH
    Key <- Hello,
    sent <- clientSent,
    received <- [h \in Hello |->
                    IF peer[h] = None THEN 0 ELSE serverReceived[peer[h]]]

Downstream == INSTANCE Pipe WITH
    Key <- Hello,
    sent <- [h \in Hello |-> IF peer[h] = None THEN 0 ELSE serverSent[peer[h]]],
    received <- clientReceived

\* What the device sends is processed in order and once, whatever the transport
\* does and however often its hellos are replayed.
CommandsArriveInOrder == Upstream!Spec

\* And so is what the agent answers.
AnswersArriveInOrder == Downstream!Spec
=============================================================================
