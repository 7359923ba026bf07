------------------------- MODULE SecureChannelProofs -------------------------
(***************************************************************************)
(* For any number of hellos and connections and any size of the replay     *)
(* memory: each end receives a first part of what the other sent, at most  *)
(* one connection acts on a handshake, and both directions are pipes.      *)
(***************************************************************************)
EXTENDS SecureChannel, TLAPS

\* A client that has no peer has exchanged nothing.
FreshClients ==
    \A h \in Hello :
        /\ client[h] \in {"new", "waiting"} => peer[h] = None
        /\ client[h] = "open" => peer[h] # None
        /\ peer[h] = None => clientSent[h] = 0 /\ clientReceived[h] = 0

\* A connection answers one hello, which the device signed; who completed the
\* handshake with it did so with that hello.
Bound ==
    /\ \A c \in Conn : server[c] = "new" => hello[c] = None
    /\ \A c \in Conn : hello[c] # None => hello[c] \in Signed
    /\ \A h \in Hello : peer[h] # None => hello[peer[h]] = h

\* A connection only ever answers what it received.
AnswersOnly == \A c \in Conn : serverSent[c] > 0 => serverReceived[c] > 0

IInv == TypeOK /\ FreshClients /\ Bound /\ AnswersOnly /\ ReceivedWasSent

-----------------------------------------------------------------------------
\* The replay memory stays within its bound when ids expire and one is added.
LEMMA UsedStaysBounded ==
    ASSUME NEW h \in Hello, NEW s \in Seq(Hello), Len(s) <= MAX_USED,
           NEW k \in 0..Len(s)
    PROVE  LET t == SubSeq(s, k + 1, Len(s)) IN
           /\ t \in Seq(Hello) /\ Len(t) <= MAX_USED
           /\ Append(MakeRoom(t), h) \in Seq(Hello)
           /\ Len(Append(MakeRoom(t), h)) <= MAX_USED
<1> DEFINE t == SubSeq(s, k + 1, Len(s))
<1>1. t \in Seq(Hello) /\ Len(t) = Len(s) - k
  OBVIOUS
<1>2. MakeRoom(t) \in Seq(Hello) /\ Len(MakeRoom(t)) < MAX_USED
  <2>1. CASE Len(t) >= MAX_USED
    <3>1. t # <<>> /\ Len(t) = MAX_USED
      BY <1>1, <2>1, ChannelConstants
    <3>2. Tail(t) \in Seq(Hello) /\ Len(Tail(t)) = Len(t) - 1
      BY <1>1, <3>1
    <3> QED  BY <2>1, <3>1, <3>2, ChannelConstants DEF MakeRoom
  <2>2. CASE ~(Len(t) >= MAX_USED)
    BY <1>1, <2>2, ChannelConstants DEF MakeRoom
  <2> QED  BY <2>1, <2>2
<1>3. Append(MakeRoom(t), h) \in Seq(Hello)
      /\ Len(Append(MakeRoom(t), h)) = Len(MakeRoom(t)) + 1
  BY <1>2
<1> QED  BY <1>1, <1>2, <1>3, ChannelConstants

\* Initially nothing was sent.
LEMMA InvInit == Init => IInv
<1> SUFFICES ASSUME Init PROVE IInv
  OBVIOUS
<1> USE DEF Init
<1>1. TypeOK
  <2>1. used \in Seq(Hello) /\ Len(used) = 0
    OBVIOUS
  <2> QED  BY <2>1, ChannelConstants DEF TypeOK
<1>2. FreshClients  BY DEF FreshClients
<1>3. Bound  BY DEF Bound
<1>4. AnswersOnly  BY DEF AnswersOnly
<1>5. ReceivedWasSent  BY DEF ReceivedWasSent
<1> QED  BY <1>1, <1>2, <1>3, <1>4, <1>5 DEF IInv

-----------------------------------------------------------------------------
(* One lemma per kind of step. *)

\* A client creates a hello or gives up.
LEMMA ClientSteps ==
    ASSUME IInv, NEW h \in Hello, CreateClientHello(h) \/ CloseClient(h)
    PROVE  IInv'
<1> USE DEF IInv, CreateClientHello, CloseClient, serverVars
<1>1. TypeOK'  BY DEF TypeOK
<1>2. FreshClients'  BY DEF FreshClients, TypeOK
<1>3. Bound'  BY DEF Bound
<1>4. AnswersOnly'  BY DEF AnswersOnly
<1>5. ReceivedWasSent'  BY DEF ReceivedWasSent
<1> QED  BY <1>1, <1>2, <1>3, <1>4, <1>5

\* A client seals a record.
LEMMA SealStep ==
    ASSUME IInv, NEW h \in Hello, ClientSeal(h)
    PROVE  IInv'
<1> USE DEF IInv, ClientSeal, serverVars
<1>1. TypeOK'
  <2>1. clientSent[h] + 1 \in 0..MAX_SEQUENCE
    BY ChannelConstants DEF TypeOK
  <2> QED  BY <2>1 DEF TypeOK
<1>2. FreshClients'  BY DEF FreshClients, TypeOK
<1>3. Bound'  BY DEF Bound
<1>4. AnswersOnly'  BY DEF AnswersOnly
<1>5. ReceivedWasSent'
  BY ChannelConstants DEF ReceivedWasSent, TypeOK, Bound
<1> QED  BY <1>1, <1>2, <1>3, <1>4, <1>5

\* A hello is consumed, and answered or not.
LEMMA AcceptStep ==
    ASSUME IInv, NEW c \in Conn, NEW h \in Hello,
           AcceptClientHello(c, h) \/ AcceptFails(c, h)
    PROVE  IInv'
<1> USE DEF IInv, AcceptClientHello, AcceptFails, clientVars
<1>1. used' \in Seq(Hello) /\ Len(used') <= MAX_USED
  <2>1. PICK k \in 0..Len(used) : used' = Append(MakeRoom(Unexpired(k)), h)
    BY DEF Consume
  <2>2. used \in Seq(Hello) /\ Len(used) <= MAX_USED
    BY DEF TypeOK
  <2> QED  BY <2>1, <2>2, UsedStaysBounded DEF Unexpired
<1>2. TypeOK'  BY <1>1 DEF TypeOK
<1>3. serverReceived[c] = 0
  BY ChannelConstants DEF TypeOK, Bound, ReceivedWasSent
<1>4. \A g \in Hello : peer[g] # c
  BY ChannelConstants DEF TypeOK, Bound
<1>5. FreshClients'  BY DEF FreshClients
<1>6. Bound'
  <2>1. h \in Signed  BY DEF Consume
  <2>2. \A d \in Conn : d # c => hello'[d] = hello[d] /\ server'[d] = server[d]
    BY DEF TypeOK
  <2>3. server'[c] # "new" /\ (hello'[c] = h \/ hello'[c] = hello[c])
    BY DEF TypeOK
  <2>4. \A g \in Hello : peer[g] # None => peer[g] \in Conn /\ peer[g] # c
    BY <1>4 DEF TypeOK
  <2> QED  BY <2>1, <2>2, <2>3, <2>4 DEF Bound
<1>7. AnswersOnly'  BY DEF AnswersOnly
<1>8. ReceivedWasSent'
  <2>1. \A d \in Conn : d # c => hello'[d] = hello[d]
    BY DEF TypeOK
  <2> QED  BY <1>3, <2>1 DEF ReceivedWasSent
<1> QED  BY <1>2, <1>5, <1>6, <1>7, <1>8

\* A hello is rejected, or a connection closes.
LEMMA RejectStep ==
    ASSUME IInv, NEW c \in Conn,
           (\E h \in Hello : RejectClientHello(c, h)) \/ CloseServer(c)
    PROVE  IInv'
<1> USE DEF IInv, RejectClientHello, CloseServer, clientVars
<1>1. used' \in Seq(Hello) /\ Len(used') <= MAX_USED
  <2>1. used \in Seq(Hello) /\ Len(used) <= MAX_USED
    BY DEF TypeOK
  <2>2. CASE CloseServer(c)  BY <2>1, <2>2
  <2>3. CASE \E h \in Hello : RejectClientHello(c, h)
    <3>1. PICK h \in Hello : RejectClientHello(c, h)  BY <2>3
    <3>2. PICK k \in 0..Len(used) : used' = IF trusted THEN Unexpired(k) ELSE used
      BY <3>1
    <3>3. Unexpired(k) \in Seq(Hello) /\ Len(Unexpired(k)) <= MAX_USED
      BY <2>1, UsedStaysBounded DEF Unexpired
    <3> QED  BY <3>2, <3>3, <2>1
  <2> QED  BY <2>2, <2>3
<1>2. TypeOK'  BY <1>1 DEF TypeOK
<1>3. FreshClients'  BY DEF FreshClients
<1>4. Bound'  BY DEF Bound, TypeOK
<1>5. AnswersOnly'  BY DEF AnswersOnly
<1>6. ReceivedWasSent'  BY DEF ReceivedWasSent
<1> QED  BY <1>2, <1>3, <1>4, <1>5, <1>6

\* A client completes its handshake: nothing can have reached the connection.
LEMMA CompleteStep ==
    ASSUME IInv, NEW c \in Conn, NEW h \in Hello, CompleteHandshake(h, c)
    PROVE  /\ IInv'
           /\ peer[h] = None
           /\ serverReceived[c] = 0 /\ serverSent[c] = 0
<1> USE DEF IInv, CompleteHandshake, Answers, serverVars
<1>1. peer[h] = None
  BY DEF FreshClients
<1>2. serverReceived[c] = 0
  BY <1>1, ChannelConstants DEF TypeOK, ReceivedWasSent
<1>3. serverSent[c] = 0
  <2>1. serverSent[c] \in 0..(MAX_SEQUENCE + 1)  BY DEF TypeOK
  <2>2. ~(serverSent[c] > 0)  BY <1>2 DEF AnswersOnly
  <2> QED  BY <2>1, <2>2, ChannelConstants
<1>4. TypeOK'  BY DEF TypeOK
<1>5. FreshClients'  BY ChannelConstants DEF FreshClients, TypeOK
<1>6. Bound'  BY ChannelConstants DEF Bound, TypeOK
<1>7. AnswersOnly'  BY DEF AnswersOnly
<1>8. ReceivedWasSent'
  BY <1>1, <1>2 DEF ReceivedWasSent, TypeOK, FreshClients
<1> QED  BY <1>1, <1>2, <1>3, <1>4, <1>5, <1>6, <1>7, <1>8

\* A connection processes a record of the client that it shares keys with.
LEMMA FrameStep ==
    ASSUME IInv, NEW c \in Conn, NEW h \in Hello, ProcessFrame(c, h)
    PROVE  IInv'
<1> USE DEF IInv, ProcessFrame, Opens, NextExpected, clientVars
<1>1. PICK k \in 0..ANSWERS :
          /\ serverSent[c] + k <= MAX_SEQUENCE + 1
          /\ serverSent' = [serverSent EXCEPT ![c] = @ + k]
  OBVIOUS
<1>2. TypeOK'
  <2>1. serverSent[c] + k \in 0..(MAX_SEQUENCE + 1)
    BY <1>1, ChannelConstants DEF TypeOK
  <2>2. serverReceived[c] + 1 \in 0..(MAX_SEQUENCE + 1)
    BY ChannelConstants DEF TypeOK
  <2> QED  BY <1>1, <2>1, <2>2 DEF TypeOK
<1>3. FreshClients'  BY DEF FreshClients
<1>4. Bound'  BY DEF Bound
<1>5. AnswersOnly'  BY <1>1 DEF AnswersOnly, TypeOK
<1>6. ReceivedWasSent'
  <2>1. hello[c] \in Signed  BY ChannelConstants DEF Bound
  <2>2. \A d \in Conn : serverReceived'[d] > 0 =>
            /\ hello[d] \in Signed /\ peer[hello[d]] = d
            /\ serverReceived'[d] <= clientSent[hello[d]]
    BY <2>1 DEF ReceivedWasSent, TypeOK
  <2>3. \A g \in Hello : clientReceived[g] > 0 =>
            /\ peer[g] \in Conn
            /\ clientReceived[g] <= serverSent'[peer[g]]
    BY <1>1 DEF ReceivedWasSent, TypeOK
  <2> QED  BY <2>2, <2>3 DEF ReceivedWasSent
<1> QED  BY <1>2, <1>3, <1>4, <1>5, <1>6

\* A client opens an answer.
LEMMA OpenStep ==
    ASSUME IInv, NEW c \in Conn, NEW h \in Hello, ClientOpen(h, c)
    PROVE  IInv'
<1> USE DEF IInv, ClientOpen, Opens, NextExpected, serverVars
<1>1. TypeOK'
  <2>1. clientReceived[h] \in 0..MAX_SEQUENCE
    BY DEF TypeOK
  <2>2. clientReceived[h] + 1 \in 0..MAX_SEQUENCE
    BY <2>1, ChannelConstants
  <2> QED  BY <2>2 DEF TypeOK
<1>2. FreshClients'  BY DEF FreshClients, TypeOK
<1>3. Bound'  BY DEF Bound
<1>4. AnswersOnly'  BY DEF AnswersOnly
<1>5. ReceivedWasSent'  BY DEF ReceivedWasSent, TypeOK
<1> QED  BY <1>1, <1>2, <1>3, <1>4, <1>5

LEMMA InvNext == IInv /\ [Next]_vars => IInv'
<1> SUFFICES ASSUME IInv, [Next]_vars PROVE IInv'
  OBVIOUS
<1>1. CASE UNCHANGED vars \/ RefreshTrustedDevices
  BY <1>1 DEF vars, clientVars, serverVars, RefreshTrustedDevices, IInv, TypeOK,
              FreshClients, Bound, AnswersOnly, ReceivedWasSent
<1>2. ASSUME NEW h \in Hello, CreateClientHello(h) \/ CloseClient(h) PROVE IInv'
  BY <1>2, ClientSteps
<1>3. ASSUME NEW h \in Hello, ClientSeal(h) PROVE IInv'
  BY <1>3, SealStep
<1>4. ASSUME NEW c \in Conn, NEW h \in Hello,
             AcceptClientHello(c, h) \/ AcceptFails(c, h)
      PROVE  IInv'
  BY <1>4, AcceptStep
<1>5. ASSUME NEW c \in Conn,
             (\E h \in Hello : RejectClientHello(c, h)) \/ CloseServer(c)
      PROVE  IInv'
  BY <1>5, RejectStep
<1>6. ASSUME NEW c \in Conn, NEW h \in Hello, CompleteHandshake(h, c) PROVE IInv'
  BY <1>6, CompleteStep
<1>7. ASSUME NEW c \in Conn, NEW h \in Hello, ProcessFrame(c, h) PROVE IInv'
  BY <1>7, FrameStep
<1>8. ASSUME NEW c \in Conn, NEW h \in Hello, ClientOpen(h, c) PROVE IInv'
  BY <1>8, OpenStep
<1> QED
  BY <1>1, <1>2, <1>3, <1>4, <1>5, <1>6, <1>7, <1>8 DEF Next

-----------------------------------------------------------------------------
\* The inductive invariant holds in every reachable state.
THEOREM Invariant == Spec => []IInv
BY InvInit, InvNext, PTL DEF Spec

\* Every variable keeps its type; the replay memory keeps its bound.
THEOREM TypeCorrect == Spec => []TypeOK
BY Invariant, PTL DEF IInv

\* Each end has received a first part of what the other end of the same
\* handshake sent, signed by the paired device.
THEOREM RecordsWereSent == Spec => []ReceivedWasSent
BY Invariant, PTL DEF IInv

\* However often a hello is replayed, one connection at most acts on it.
THEOREM AtMostOneLivePeer == Spec => []OneLivePeer
<1>1. ReceivedWasSent => OneLivePeer
  BY DEF ReceivedWasSent, OneLivePeer
<1> QED  BY <1>1, RecordsWereSent, PTL

-----------------------------------------------------------------------------
(* Refinement *)

\* What the agent has processed of a client, and what it has answered.
Processed == [h \in Hello |-> IF peer[h] = None THEN 0 ELSE serverReceived[peer[h]]]
Answered  == [h \in Hello |-> IF peer[h] = None THEN 0 ELSE serverSent[peer[h]]]

\* Peers are not shared: a step of one connection is a step of one handshake.
LEMMA PeersDiffer ==
    ASSUME IInv, NEW g \in Hello, NEW h \in Hello, peer[g] = peer[h], peer[g] # None
    PROVE  g = h
BY DEF IInv, Bound

\* Steps that neither seal, nor open, nor complete a handshake are invisible.
LEMMA QuietSteps ==
    ASSUME IInv, [Next]_vars,
           ~ \E c \in Conn, h \in Hello :
                CompleteHandshake(h, c) \/ ProcessFrame(c, h) \/ ClientOpen(h, c),
           ~ \E h \in Hello : ClientSeal(h)
    PROVE  UNCHANGED <<clientSent, clientReceived, Processed, Answered>>
<1>1. UNCHANGED <<peer, clientSent, clientReceived, serverSent, serverReceived>>
  BY DEF Next, vars, clientVars, serverVars, CreateClientHello, CloseClient,
         AcceptClientHello, AcceptFails, RejectClientHello, CloseServer,
         RefreshTrustedDevices
<1> QED  BY <1>1 DEF Processed, Answered

\* Completing a handshake is invisible: its connection has done nothing yet.
LEMMA CompleteIsQuiet ==
    ASSUME IInv, NEW c \in Conn, NEW h \in Hello, CompleteHandshake(h, c)
    PROVE  UNCHANGED <<clientSent, clientReceived, Processed, Answered>>
<1>1. peer[h] = None /\ serverReceived[c] = 0 /\ serverSent[c] = 0
  BY CompleteStep
<1>2. peer' = [peer EXCEPT ![h] = c] /\ peer \in [Hello -> Conn \cup {None}]
  BY DEF CompleteHandshake, IInv, TypeOK
<1>3. UNCHANGED <<clientSent, clientReceived, serverSent, serverReceived>>
  BY DEF CompleteHandshake, serverVars
<1>4. ASSUME NEW g \in Hello
      PROVE  Processed'[g] = Processed[g] /\ Answered'[g] = Answered[g]
  <2>1. CASE g = h
    BY <1>1, <1>2, <1>3, <2>1 DEF Processed, Answered
  <2>2. CASE g # h
    BY <1>2, <1>3, <2>2 DEF Processed, Answered
  <2> QED  BY <2>1, <2>2
<1> QED  BY <1>3, <1>4 DEF Processed, Answered

\* Processing a record of h receives on the one pipe and sends on the other.
LEMMA FrameOnPipes ==
    ASSUME IInv, NEW c \in Conn, NEW h \in Hello, ProcessFrame(c, h)
    PROVE  /\ UNCHANGED <<clientSent, clientReceived>>
           /\ Processed[h] < clientSent[h]
           /\ Processed' = [Processed EXCEPT ![h] = @ + 1]
           /\ Answered' = [Answered EXCEPT ![h] = Answered'[h]]
           /\ Answered[h] \in Nat /\ Answered'[h] \in Nat
           /\ Answered'[h] >= Answered[h]
<1> USE DEF ProcessFrame, Opens, NextExpected, clientVars
<1>1. peer[h] = c /\ c # None /\ peer' = peer
  BY ChannelConstants
<1>2. PICK k \in 0..ANSWERS : serverSent' = [serverSent EXCEPT ![c] = @ + k]
  OBVIOUS
<1>3. /\ serverSent \in [Conn -> 0..(MAX_SEQUENCE + 1)]
      /\ serverReceived \in [Conn -> 0..(MAX_SEQUENCE + 1)]
      /\ peer \in [Hello -> Conn \cup {None}]
  BY DEF IInv, TypeOK
<1>4. serverReceived'[c] = serverReceived[c] + 1 /\ serverSent'[c] = serverSent[c] + k
  BY <1>2, <1>3
<1>5. \A g \in Hello : g # h /\ peer[g] # None =>
          /\ serverReceived'[peer[g]] = serverReceived[peer[g]]
          /\ serverSent'[peer[g]] = serverSent[peer[g]]
  BY <1>1, <1>2, <1>3, PeersDiffer
<1>6. Processed[h] = serverReceived[c] /\ Processed'[h] = serverReceived[c] + 1
      /\ Answered[h] = serverSent[c] /\ Answered'[h] = serverSent[c] + k
  BY <1>1, <1>4 DEF Processed, Answered
<1>7. \A g \in Hello : g # h =>
          Processed'[g] = Processed[g] /\ Answered'[g] = Answered[g]
  BY <1>1, <1>5 DEF Processed, Answered
<1>8. Processed' = [Processed EXCEPT ![h] = @ + 1]
  <2>1. /\ Processed = [g \in Hello |-> Processed[g]]
        /\ Processed' = [g \in Hello |-> Processed'[g]]
    BY DEF Processed
  <2>2. Processed'[h] = Processed[h] + 1
    BY <1>6
  <2> HIDE DEF Processed, ProcessFrame
  <2> QED  BY <1>7, <2>1, <2>2
<1>9. Answered' = [Answered EXCEPT ![h] = Answered'[h]]
  BY <1>7 DEF Answered
<1>10. serverSent[c] \in Nat /\ k \in Nat
  BY <1>3, ChannelConstants
<1> QED  BY <1>6, <1>8, <1>9, <1>10

\* What the device sends is processed in order and once.
THEOREM UpstreamIsAPipe == Spec => CommandsArriveInOrder
<1>1. Init => Upstream!Init
  BY DEF Init, Upstream!Init
<1>2. IInv /\ [Next]_vars => [Upstream!Next]_<<clientSent, Processed>>
  <2> SUFFICES ASSUME IInv, [Next]_vars
               PROVE  [Upstream!Next]_<<clientSent, Processed>>
    OBVIOUS
  <2>1. ASSUME NEW h \in Hello, ClientSeal(h) PROVE Upstream!Send(h)
    <3>1. clientSent[h] \in Nat /\ clientSent'[h] = clientSent[h] + 1
      BY <2>1, ChannelConstants DEF ClientSeal, IInv, TypeOK
    <3>2. clientSent' = [clientSent EXCEPT ![h] = clientSent'[h]]
      BY <2>1, <3>1 DEF ClientSeal
    <3>3. Processed' = Processed
      BY <2>1 DEF ClientSeal, serverVars, Processed
    <3> QED  BY <3>1, <3>2, <3>3 DEF Upstream!Send, Processed
  <2>2. ASSUME NEW c \in Conn, NEW h \in Hello, ProcessFrame(c, h)
        PROVE  Upstream!Receive(h)
    BY <2>2, FrameOnPipes DEF Upstream!Receive, Processed
  <2>3. ASSUME NEW c \in Conn, NEW h \in Hello,
               CompleteHandshake(h, c) \/ ClientOpen(h, c)
        PROVE  UNCHANGED <<clientSent, Processed>>
    <3>1. CASE CompleteHandshake(h, c)  BY <3>1, CompleteIsQuiet
    <3>2. CASE ClientOpen(h, c)
      BY <3>2 DEF ClientOpen, serverVars, Processed
    <3> QED  BY <2>3, <3>1, <3>2
  <2> QED  BY <2>1, <2>2, <2>3, QuietSteps DEF Upstream!Next
<1> QED  BY <1>1, <1>2, Invariant, PTL DEF Spec, CommandsArriveInOrder, Upstream!Spec, Processed

\* And what the agent answers arrives in order and once.
THEOREM DownstreamIsAPipe == Spec => AnswersArriveInOrder
<1>1. Init => Downstream!Init
  BY DEF Init, Downstream!Init
<1>2. IInv /\ [Next]_vars => [Downstream!Next]_<<Answered, clientReceived>>
  <2> SUFFICES ASSUME IInv, [Next]_vars
               PROVE  [Downstream!Next]_<<Answered, clientReceived>>
    OBVIOUS
  <2>1. ASSUME NEW c \in Conn, NEW h \in Hello, ProcessFrame(c, h)
        PROVE  Downstream!Send(h) \/ UNCHANGED <<Answered, clientReceived>>
    <3>1. CASE Answered'[h] > Answered[h]
      BY <2>1, <3>1, FrameOnPipes DEF Downstream!Send, Answered
    <3>2. CASE ~(Answered'[h] > Answered[h])
      <4>1. Answered'[h] = Answered[h]
        BY <2>1, <3>2, FrameOnPipes
      <4>2. Answered' = [Answered EXCEPT ![h] = Answered[h]]
        BY <2>1, <4>1, FrameOnPipes
      <4> QED  BY <2>1, <4>2, FrameOnPipes DEF Answered
    <3> QED  BY <3>1, <3>2
  <2>2. ASSUME NEW c \in Conn, NEW h \in Hello, ClientOpen(h, c)
        PROVE  Downstream!Receive(h)
    <3>1. peer[h] = c /\ c # None /\ clientReceived[h] < serverSent[c]
      BY <2>2, ChannelConstants DEF ClientOpen, Opens, NextExpected
    <3>2. Answered' = Answered
      BY <2>2 DEF ClientOpen, serverVars, Answered
    <3>3. Answered[h] = serverSent[c]
      BY <3>1 DEF Answered
    <3> QED  BY <2>2, <3>1, <3>2, <3>3 DEF ClientOpen, Downstream!Receive, Answered
  <2>3. ASSUME NEW h \in Hello, ClientSeal(h)
        PROVE  UNCHANGED <<Answered, clientReceived>>
    BY <2>3 DEF ClientSeal, serverVars, Answered
  <2> QED  BY <2>1, <2>2, <2>3, QuietSteps, CompleteIsQuiet DEF Downstream!Next
<1> QED  BY <1>1, <1>2, Invariant, PTL DEF Spec, AnswersArriveInOrder, Downstream!Spec, Answered
=============================================================================
