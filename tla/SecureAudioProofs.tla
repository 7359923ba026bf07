------------------------ MODULE SecureAudioProofs ------------------------
(***************************************************************************)
(* Proofs about SecureAudio, for every number of senders, frames and       *)
(* chunks: what reaches the core is one whole stream, and a new capture    *)
(* starts clean. The argument has two halves. The device seals with one    *)
(* sender at a time, so the chunks of a sender stand next to each other in *)
(* the sealed frames (FramesInv). The session opens frames in that order,  *)
(* so a usable provider holds exactly the last ones it opened              *)
(* (ProviderInv), and a chunk index that fits the receiver's count is the  *)
(* next chunk of the same sender.                                          *)
(***************************************************************************)
EXTENDS SecureAudio, TLAPS

USE AudioConstants


-----------------------------------------------------------------------------
(* Sequences of frames *)

\* A run of frames stays one when another frame is sealed after it.
LEMMA RunStays ==
    ASSUME frames \in Seq(Frame), NEW f \in Frame, frames' = Append(frames, f),
           NEW chunks \in Seq(Frame), OneStream(chunks)
    PROVE  OneStream(chunks)'
<1>1. CASE chunks = <<>>
  BY <1>1 DEF OneStream
<1>2. CASE chunks # <<>>
  <2>1. PICK j \in 0..(Len(frames) - Len(chunks)) : RunAfter(j, chunks)
    BY <1>2 DEF OneStream
  <2>2. /\ Len(frames') = Len(frames) + 1
        /\ \A i \in 1..Len(frames) : frames'[i] = frames[i]
    OBVIOUS
  <2>3. Len(chunks) \in Nat /\ Len(frames) \in Nat /\ DOMAIN chunks = 1..Len(chunks)
    OBVIOUS
  <2>4. j \in 0..(Len(frames') - Len(chunks))
    BY <2>2, <2>3
  <2>5. RunAfter(j, chunks)'
    BY <2>1, <2>2, <2>3 DEF RunAfter
  <2> QED
    BY <2>4, <2>5 DEF OneStream
<1> QED
  BY <1>1, <1>2

\* Whether some chunks are one stream depends on the sealed frames only.
LEMMA StreamStays ==
    ASSUME frames' = frames, NEW chunks, OneStream(chunks)
    PROVE  OneStream(chunks)'
  BY DEF OneStream, RunAfter

\* The frame the session opens next continues what a usable provider holds: it
\* is the first chunk of its sender when the receiver expects chunk 0, and by
\* the sender of the frame before it otherwise.
LEMMA NextFrameContinues ==
    ASSUME AudioTypeOK, FramesInv, ProviderInv, Usable,
           NEW i \in DOMAIN frames, NEW meta \in Metadata,
           InOrder(meta), Authentic(i, meta)
    PROVE  /\ Append(provider, frames[i]) \in Seq(Frame)
           /\ Len(Append(provider, frames[i])) = stream.next + 1
           /\ received + 1 <= Len(frames)
           /\ RunAfter(received - stream.next, Append(provider, frames[i]))
           /\ OneStream(Append(provider, frames[i]))
<1> DEFINE heard == Append(provider, frames[i])
           j == received - stream.next
<1>1. /\ provider \in Seq(Frame) /\ frames \in Seq(Frame) /\ received \in Nat
      /\ stream.next \in Nat /\ meta.chunk \in Nat /\ i \in 1..Len(frames)
      /\ Len(frames) \in Nat /\ frames[i] \in Frame
  BY DEF AudioTypeOK, Metadata
<1>2. i = received + 1 /\ frames[i].meta = meta /\ meta.chunk = stream.next
  BY DEF InOrder, Authentic
<1>3. /\ Len(provider) = stream.next /\ stream.next <= received
      /\ stream.next # 0 => RunAfter(received - stream.next, provider)
  BY DEF ProviderInv
<1>4. /\ heard \in Seq(Frame) /\ Len(heard) = stream.next + 1
      /\ DOMAIN heard = 1..(stream.next + 1)
      /\ heard[stream.next + 1] = frames[i]
      /\ \A k \in 1..stream.next : heard[k] = provider[k]
  BY <1>1, <1>3
<1>5. received + 1 <= Len(frames) /\ j \in 0..(Len(frames) - Len(heard))
  BY <1>1, <1>2, <1>3, <1>4
<1>6. RunAfter(j, heard)
  <2>1. CASE stream.next = 0
    <3>1. \A h \in 1..(i - 1) : frames[h].by # frames[i].by
      BY <1>1, <1>2, <2>1 DEF FramesInv
    <3>2. j = i - 1 /\ DOMAIN heard = {1} /\ heard[1] = frames[i] /\ j + 1 = i
      BY <1>1, <1>2, <1>4, <2>1
    <3> HIDE DEF j, heard
    <3> QED
      BY <3>1, <3>2 DEF RunAfter
  <2>2. CASE stream.next # 0
    <3>1. RunAfter(j, provider)
      BY <1>3, <2>2
    <3>2. frames[i - 1].by = frames[i].by
      BY <1>1, <1>2, <2>2 DEF FramesInv
    <3>3. DOMAIN provider = 1..stream.next /\ stream.next \in DOMAIN provider
      BY <1>1, <1>3, <2>2
    <3>4. provider[stream.next] = frames[j + stream.next] /\ j + stream.next = i - 1
      BY <1>1, <1>2, <3>1, <3>3 DEF RunAfter
    <3>5. provider[stream.next].by = provider[1].by
      BY <3>1, <3>3 DEF RunAfter
    <3>6. frames[i].by = provider[1].by
      BY <3>2, <3>4, <3>5
    <3>7. heard[1] = provider[1]
      BY <1>1, <1>4, <2>2
    <3>8. j + (stream.next + 1) = i
      BY <1>1, <1>2
    <3>9. ASSUME NEW k \in DOMAIN heard
          PROVE  heard[k] = frames[j + k] /\ heard[k].by = heard[1].by
      <4>1. k = stream.next + 1 \/ k \in 1..stream.next
        BY <1>1, <1>4
      <4> HIDE DEF j, heard
      <4>2. CASE k = stream.next + 1
        BY <4>2, <1>4, <3>6, <3>7, <3>8
      <4>3. CASE k \in 1..stream.next
        BY <4>3, <1>4, <3>1, <3>3, <3>7 DEF RunAfter
      <4> QED
        BY <4>1, <4>2, <4>3
    <3>10. \A h \in 1..j : frames[h].by # heard[1].by
      BY <3>1, <3>7 DEF RunAfter
    <3> QED
      BY <3>9, <3>10 DEF RunAfter
  <2> QED
    BY <2>1, <2>2
<1>7. OneStream(heard)
  BY <1>5, <1>6 DEF OneStream
<1> QED
  BY <1>4, <1>5, <1>6, <1>7

-----------------------------------------------------------------------------
(* Steps that several operations share *)

\* A step that only closes: the frames stay, the provider keeps what it held or
\* nothing, no command is dispatched and the bridge is not usable afterwards.
LEMMA ClosedIsSafe ==
    ASSUME AudioInv, AudioTypeOK', UNCHANGED <<deviceVars, received, commands>>,
           provider' = provider \/ provider' = <<>>, ~Usable', bridge' => bridge
    PROVE  AudioInv'
<1>1. UNCHANGED <<sender, frames>>
  BY DEF deviceVars
<1>2. FramesInv'
  BY <1>1 DEF AudioInv, FramesInv
<1>3. OneStream(provider)'
  BY <1>1 DEF AudioInv, ProviderInv, OneStream, RunAfter
<1>4. ProviderInv'
  BY <1>1, <1>3 DEF AudioInv, ProviderInv
<1>5. BridgeInv'
  BY DEF AudioInv, BridgeInv
<1>6. CommandsAreWholeStreams'
  <2>1. ASSUME NEW k \in DOMAIN commands, OneStream(commands[k])
        PROVE  OneStream(commands[k])'
    BY <1>1, <2>1 DEF OneStream, RunAfter
  <2> QED
    BY <1>3, <2>1 DEF AudioInv, CommandsAreWholeStreams
<1>7. CaptureStartsClean'
  BY DEF CaptureStartsClean
<1> QED
  BY <1>2, <1>4, <1>5, <1>6, <1>7 DEF AudioInv

\* A step of the agent that leaves the provider, the receiver and the commands
\* as they are changes no more than the gate.
LEMMA GateMoves ==
    ASSUME AudioInv, gate' \in GateState,
           UNCHANGED <<deviceVars, receiverVars, consumer, transcriberVars, bridge, commands>>,
           gate # "listening" \/ gate' = "listening"
    PROVE  AudioInv'
<1>1. UNCHANGED <<sender, frames, session, received, stream, consumer, provider,
                  providerClosed, transcript, bridge, commands>>
  BY DEF deviceVars, receiverVars, transcriberVars
<1>2. AudioTypeOK'
  BY <1>1 DEF AudioInv, AudioTypeOK
<1>3. FramesInv' /\ ProviderInv' /\ BridgeInv' /\ CommandsAreWholeStreams'
  BY <1>1 DEF AudioInv, FramesInv, ProviderInv, BridgeInv, CommandsAreWholeStreams, Usable,
              OneStream, RunAfter
<1>4. CaptureStartsClean'
  BY <1>1 DEF AudioInv, CaptureStartsClean, Usable
<1> QED
  BY <1>2, <1>3, <1>4 DEF AudioInv

-----------------------------------------------------------------------------
(* The device *)

\* A new sender has sealed nothing yet: its number is above that of every frame.
LEMMA NewSenderSafe ==
    ASSUME AudioInv, NEW id \in StreamId, NewSender(id)
    PROVE  AudioInv'
<1>1. UNCHANGED <<frames, gate, session, received, stream, consumer, provider,
                  providerClosed, transcript, bridge, commands>>
  BY DEF NewSender, receiverVars, transcriberVars
<1>2. /\ sender'.stream_id = id /\ sender'.number = sender.number + 1
      /\ sender'.next = 0 /\ sender'.finished = FALSE
      /\ sender.number \in 0..SENDERS /\ sender.number < SENDERS
  BY DEF NewSender, AudioInv, AudioTypeOK
<1>3. AudioTypeOK'
  BY <1>1 DEF AudioInv, AudioTypeOK, NewSender
<1>4. \A i \in DOMAIN frames : frames[i].by <= sender.number /\ frames[i].by \in Nat
  <2>1. \A i \in DOMAIN frames : frames[i] \in Frame
    BY DEF AudioInv, AudioTypeOK
  <2>2. \A i \in DOMAIN frames : frames[i].by \in Nat
    BY <2>1 DEF Frame
  <2> QED
    BY <2>2 DEF AudioInv, FramesInv
<1>5. FramesInv'
  BY <1>1, <1>2, <1>4 DEF AudioInv, FramesInv
<1>6. /\ ProviderInv' /\ BridgeInv' /\ CommandsAreWholeStreams' /\ CaptureStartsClean'
  BY <1>1 DEF AudioInv, ProviderInv, BridgeInv, CommandsAreWholeStreams, CaptureStartsClean,
              Usable, OneStream, RunAfter
<1> QED
  BY <1>3, <1>5, <1>6 DEF AudioInv

\* A cancelled sender seals no more.
LEMMA CancelSenderSafe ==
    ASSUME AudioInv, CancelSender
    PROVE  AudioInv'
<1>1. UNCHANGED <<frames, gate, session, received, stream, consumer, provider,
                  providerClosed, transcript, bridge, commands>>
  BY DEF CancelSender, receiverVars, transcriberVars
<1>2. /\ sender'.number = sender.number /\ sender'.finished
      /\ AudioTypeOK'
  <2>1. sender \in [stream_id : StreamId \cup {None}, number : 0..SENDERS,
                    next : 0..MAX_AUDIO_CHUNKS, finished : BOOLEAN]
    BY DEF AudioInv, AudioTypeOK
  <2>2. sender' = [stream_id |-> sender.stream_id, number |-> sender.number,
                   next |-> 0, finished |-> TRUE]
    BY <2>1 DEF CancelSender
  <2>3. sender' \in [stream_id : StreamId \cup {None}, number : 0..SENDERS,
                     next : 0..MAX_AUDIO_CHUNKS, finished : BOOLEAN]
    BY <2>1, <2>2
  <2>4. sender'.number = sender.number /\ sender'.finished
    BY <2>2
  <2> QED
    BY <1>1, <2>3, <2>4 DEF AudioInv, AudioTypeOK
<1>3. FramesInv'
  BY <1>1, <1>2 DEF AudioInv, FramesInv
<1>4. /\ ProviderInv' /\ BridgeInv' /\ CommandsAreWholeStreams' /\ CaptureStartsClean'
  BY <1>1 DEF AudioInv, ProviderInv, BridgeInv, CommandsAreWholeStreams, CaptureStartsClean,
              Usable, OneStream, RunAfter
<1> QED
  BY <1>2, <1>3, <1>4 DEF AudioInv

\* A sealed chunk comes after all the others: it extends no run of frames that
\* was already heard.
LEMMA SealChunkSafe ==
    ASSUME AudioInv, NEW final \in BOOLEAN, SealChunk(final)
    PROVE  AudioInv'
<1> DEFINE f == [meta |-> [stream_id |-> sender.stream_id, chunk |-> sender.next,
                           final |-> final],
                 by |-> sender.number]
<1>1. UNCHANGED <<gate, session, received, stream, consumer, provider,
                  providerClosed, transcript, bridge, commands>>
  BY DEF SealChunk, receiverVars, transcriberVars
<1>2. /\ ~sender.finished /\ sender.stream_id \in StreamId /\ sender.number \in 1..SENDERS
      /\ sender.next \in 0..(MAX_AUDIO_CHUNKS - 1)
  BY DEF SealChunk, Chunked, AudioInv, AudioTypeOK, FramesInv
<1>3. f \in Frame /\ frames \in Seq(Frame) /\ frames' = Append(frames, f)
  BY <1>2 DEF SealChunk, Frame, Metadata, AudioInv, AudioTypeOK
<1>4. /\ sender'.stream_id = sender.stream_id /\ sender'.number = sender.number
      /\ sender'.next = sender.next + 1
  BY DEF SealChunk, AudioInv, AudioTypeOK
<1>5. /\ Len(frames') = Len(frames) + 1 /\ DOMAIN frames' = 1..(Len(frames) + 1)
      /\ DOMAIN frames = 1..Len(frames) /\ Len(frames) \in Nat
      /\ frames'[Len(frames) + 1] = f
      /\ \A i \in 1..Len(frames) : frames'[i] = frames[i]
  BY <1>3
<1>6. f.by = sender.number /\ f.meta.chunk = sender.next
  OBVIOUS
<1> HIDE DEF f
<1>7. AudioTypeOK'
  <2>1. frames' \in Seq(Frame) /\ Len(frames') <= FRAMES
    BY <1>3, <1>5 DEF SealChunk, AudioInv, AudioTypeOK
  <2>2. sender' \in [stream_id : StreamId \cup {None}, number : 0..SENDERS,
                     next : 0..MAX_AUDIO_CHUNKS, finished : BOOLEAN]
    <3>1. sender \in [stream_id : StreamId \cup {None}, number : 0..SENDERS,
                      next : 0..MAX_AUDIO_CHUNKS, finished : BOOLEAN]
      BY DEF AudioInv, AudioTypeOK
    <3>2. sender' = [stream_id |-> sender.stream_id, number |-> sender.number,
                     next |-> sender.next + 1, finished |-> final]
      BY <3>1 DEF SealChunk
    <3> QED
      BY <1>2, <3>1, <3>2
  <2> QED
    BY <1>1, <2>1, <2>2 DEF AudioInv, AudioTypeOK
<1>8. FramesInv'
  <2>1. ASSUME NEW i \in DOMAIN frames'
        PROVE  /\ frames'[i].by <= sender'.number
               /\ frames'[i].meta.chunk = 0 => \A h \in 1..(i - 1) : frames'[h].by # frames'[i].by
               /\ frames'[i].meta.chunk # 0 => i > 1 /\ frames'[i - 1].by = frames'[i].by
    <3>1. CASE i \in 1..Len(frames)
      BY <3>1, <1>4, <1>5 DEF AudioInv, FramesInv
    <3>2. CASE i = Len(frames) + 1
      <4>1. frames'[i].by = sender.number /\ frames'[i].meta.chunk = sender.next
        BY <3>2, <1>5, <1>6
      <4>2. sender.number <= sender'.number
        BY <1>2, <1>4
      <4>3. CASE sender.next = 0
        BY <4>1, <4>2, <4>3, <3>2, <1>2, <1>5 DEF AudioInv, FramesInv
      <4>4. CASE sender.next # 0
        <5>1. frames # <<>> /\ frames[Len(frames)].by = sender.number
          BY <4>4, <1>2 DEF AudioInv, FramesInv
        <5>2. Len(frames) >= 1 /\ i > 1 /\ i - 1 = Len(frames)
          BY <5>1, <3>2, <1>3, <1>5
        <5>3. frames'[i - 1] = frames[Len(frames)]
          BY <5>2, <1>5
        <5> QED
          BY <4>1, <4>2, <4>4, <5>1, <5>2, <5>3
      <4> QED
        BY <4>3, <4>4
    <3> QED
      BY <3>1, <3>2, <1>5
  <2>2. /\ sender'.stream_id \in StreamId /\ sender'.number \in 1..SENDERS
        /\ sender'.next # 0
    BY <1>2, <1>4
  <2>3. frames' # <<>> /\ frames'[Len(frames')].by = sender'.number
    BY <1>3, <1>4, <1>5, <1>6
  <2> QED
    BY <2>1, <2>2, <2>3 DEF FramesInv
<1>9. ProviderInv' /\ CommandsAreWholeStreams'
  <2>1. /\ OneStream(provider) /\ provider \in Seq(Frame)
        /\ \A k \in DOMAIN commands : OneStream(commands[k]) /\ commands[k] \in Seq(Frame)
        /\ received \in Nat /\ received <= Len(frames)
    BY DEF AudioInv, AudioTypeOK, ProviderInv, CommandsAreWholeStreams
  <2>2. OneStream(provider)' /\ \A k \in DOMAIN commands : OneStream(commands[k])'
    BY <1>1, <1>3, <2>1, RunStays
  <2>3. ASSUME Usable, stream.next # 0
        PROVE  RunAfter(received - stream.next, provider)'
    <3>1. /\ Len(provider) = stream.next /\ stream.next <= received /\ stream.next \in Nat
          /\ RunAfter(received - stream.next, provider)
      BY <2>3 DEF AudioInv, AudioTypeOK, ProviderInv
    <3>2. DOMAIN provider = 1..stream.next
      BY <2>1, <3>1
    <3>3. /\ \A k \in 1..stream.next : (received - stream.next) + k \in 1..Len(frames)
          /\ \A i \in 1..(received - stream.next) : i \in 1..Len(frames)
      BY <2>1, <3>1, <1>5
    <3> QED
      BY <1>1, <1>5, <3>1, <3>2, <3>3 DEF RunAfter
  <2>4. Usable' = Usable
    BY <1>1 DEF Usable
  <2>5. ProviderInv'
    BY <1>1, <1>5, <2>1, <2>2, <2>3, <2>4 DEF AudioInv, ProviderInv
  <2> QED
    BY <1>1, <2>2, <2>5 DEF AudioInv, CommandsAreWholeStreams
<1>10. BridgeInv' /\ CaptureStartsClean'
  BY <1>1 DEF AudioInv, BridgeInv, CaptureStartsClean, Usable
<1> QED
  BY <1>7, <1>8, <1>9, <1>10 DEF AudioInv

-----------------------------------------------------------------------------
(* The agent *)

\* A frame that was kept: the provider has one chunk more, the next one of the
\* same sender.
LEMMA ConsumeFrameSafe ==
    ASSUME AudioInv, NEW i \in DOMAIN frames, NEW meta \in Metadata, NEW answer \in Answers,
           ConsumeFrame(i, meta, answer)
    PROVE  AudioInv'
<1>1. /\ UNCHANGED <<sender, frames, gate, session, providerClosed, bridge, commands>>
      /\ Usable /\ InOrder(meta) /\ Authentic(i, meta) /\ Takes(meta, answer)
      /\ gate = "listening" /\ received' = received + 1
      /\ provider' = Append(provider, frames[i])
      /\ consumer' \in {"open", "finished"}
      /\ transcript' = IF answer = "text" THEN provider' ELSE None
      /\ stream' = [stream_id |-> meta.stream_id, next |-> stream.next + 1,
                    finished |-> meta.final]
  BY DEF ConsumeFrame, deviceVars
<1>2. /\ provider' \in Seq(Frame) /\ Len(provider') = stream.next + 1
      /\ received + 1 <= Len(frames)
      /\ RunAfter(received - stream.next, provider') /\ OneStream(provider')
  BY <1>1, NextFrameContinues DEF AudioInv
<1>3. /\ meta.stream_id \in StreamId /\ meta.final \in BOOLEAN
      /\ meta.chunk \in 0..(MAX_AUDIO_CHUNKS - 1) /\ meta.chunk = stream.next
  BY <1>1 DEF Metadata, InOrder
<1>4. received \in Nat /\ Len(frames) \in Nat /\ Len(frames) <= FRAMES /\ stream.next \in Nat
  BY DEF AudioInv, AudioTypeOK
<1>5. AudioTypeOK'
  <2>1. received' \in 0..FRAMES
    BY <1>1, <1>2, <1>4
  <2>2. stream' \in [stream_id : StreamId \cup {None}, next : 0..MAX_AUDIO_CHUNKS,
                     finished : BOOLEAN]
    BY <1>1, <1>3
  <2> QED
    BY <1>1, <1>2, <2>1, <2>2 DEF AudioInv, AudioTypeOK
<1>6. FramesInv'
  BY <1>1 DEF AudioInv, FramesInv
<1>7. OneStream(provider)'
  BY <1>1, <1>2 DEF OneStream, RunAfter
<1>8. ProviderInv'
  <2>1. stream'.next = stream.next + 1 /\ received' - stream'.next = received - stream.next
    <3>1. stream' = [stream_id |-> meta.stream_id, next |-> stream.next + 1,
                     finished |-> meta.final]
      BY <1>1
    <3>2. stream'.next = stream.next + 1
      BY <3>1
    <3>3. received' = received + 1
      BY <1>1
    <3> QED
      BY <1>4, <3>2, <3>3
  <2>2. RunAfter(received - stream.next, provider)'
    BY <1>1, <1>2, <2>1 DEF RunAfter
  <2>3. ASSUME transcript' # None
        PROVE  transcript' = provider' /\ provider' # <<>> /\ Last(provider').meta.final
    <3>1. transcript' = provider' /\ answer = "text"
      BY <1>1, <2>3
    <3>2. meta.final
      BY <1>1, <3>1 DEF Takes
    <3>3. provider' # <<>> /\ Last(provider') = frames[i]
      <4>1. /\ provider \in Seq(Frame) /\ frames[i] \in Frame
            /\ provider' = Append(provider, frames[i])
        BY <1>1 DEF AudioInv, AudioTypeOK
      <4> QED
        BY <4>1 DEF Last
    <3>4. frames[i].meta = meta
      BY <1>1 DEF Authentic
    <3> QED
      BY <3>1, <3>2, <3>3, <3>4
  <2>4. Len(provider') = stream'.next /\ stream'.next <= received' /\ received' <= Len(frames')
    <3>1. stream.next <= received
      BY <1>1 DEF AudioInv, ProviderInv
    <3> QED
      BY <1>1, <1>2, <1>4, <2>1, <3>1
  <2> QED
    BY <1>7, <2>2, <2>3, <2>4 DEF ProviderInv
<1>9. BridgeInv'
  BY <1>1 DEF AudioInv, BridgeInv
<1>10. CommandsAreWholeStreams'
  <2>1. commands = <<>>
    BY <1>1 DEF AudioInv, BridgeInv, Usable
  <2> QED
    BY <1>1, <1>7, <2>1 DEF AudioInv, CommandsAreWholeStreams
<1>11. CaptureStartsClean'
  BY <1>1 DEF CaptureStartsClean
<1> QED
  BY <1>5, <1>6, <1>8, <1>9, <1>10, <1>11 DEF AudioInv

\* A frame whose answer was refused: the provider heard it, and nothing uses the
\* provider again.
LEMMA AnswerRefusedSafe ==
    ASSUME AudioInv, NEW i \in DOMAIN frames, NEW meta \in Metadata, NEW answer \in Answers,
           AnswerRefused(i, meta, answer)
    PROVE  AudioInv'
<1>1. /\ UNCHANGED <<sender, frames, providerClosed, transcript, bridge, commands>>
      /\ Usable /\ InOrder(meta) /\ Authentic(i, meta)
      /\ received' = received + 1 /\ provider' = Append(provider, frames[i])
  BY DEF AnswerRefused, deviceVars
<1>2. session' = FALSE /\ stream' = NoStream /\ gate' = "error" /\ consumer' = "closed"
  BY DEF AnswerRefused, CloseConsumer
<1>3. /\ provider' \in Seq(Frame) /\ received + 1 <= Len(frames) /\ OneStream(provider')
  BY <1>1, NextFrameContinues DEF AudioInv
<1>4. received \in Nat /\ Len(frames) \in Nat /\ Len(frames) <= FRAMES
  BY DEF AudioInv, AudioTypeOK
<1>5. AudioTypeOK'
  <2>1. received' \in 0..FRAMES
    BY <1>1, <1>3, <1>4
  <2>2. stream' \in [stream_id : StreamId \cup {None}, next : 0..MAX_AUDIO_CHUNKS,
                     finished : BOOLEAN]
    BY <1>2 DEF NoStream
  <2>3. gate' \in GateState
    BY <1>2 DEF GateState
  <2> QED
    BY <1>1, <1>2, <1>3, <2>1, <2>2, <2>3 DEF AudioInv, AudioTypeOK
<1>6. FramesInv'
  BY <1>1 DEF AudioInv, FramesInv
<1>7. OneStream(provider)'
  BY <1>1, <1>3 DEF OneStream, RunAfter
<1>8. ~Usable' /\ commands = <<>>
  BY <1>1, <1>2 DEF Usable, AudioInv, BridgeInv
<1>9. ProviderInv' /\ BridgeInv' /\ CommandsAreWholeStreams' /\ CaptureStartsClean'
  BY <1>1, <1>3, <1>7, <1>8
     DEF AudioInv, ProviderInv, BridgeInv, CommandsAreWholeStreams, CaptureStartsClean
<1> QED
  BY <1>5, <1>6, <1>9 DEF AudioInv

\* Closing the consumer keeps the domains of the session, the stream, the gate
\* and the consumer.
LEMMA CloseConsumerTyped ==
    ASSUME AudioTypeOK, CloseConsumer
    PROVE  /\ session' \in BOOLEAN /\ gate' \in GateState
           /\ stream' \in [stream_id : StreamId \cup {None}, next : 0..MAX_AUDIO_CHUNKS,
                           finished : BOOLEAN]
           /\ consumer' \in {"open", "finished", "closed"}
<1>1. CASE consumer = "closed"
  BY <1>1 DEF CloseConsumer, AudioTypeOK
<1>2. CASE consumer # "closed"
  <2>1. session' = FALSE /\ stream' = NoStream /\ gate' = "error" /\ consumer' = "closed"
    BY <1>2 DEF CloseConsumer
  <2>2. NoStream \in [stream_id : StreamId \cup {None}, next : 0..MAX_AUDIO_CHUNKS,
                      finished : BOOLEAN]
    BY DEF NoStream
  <2> QED
    BY <2>1, <2>2 DEF GateState
<1> QED
  BY <1>1, <1>2

\* A frame that is refused closes the consumer and changes nothing else.
LEMMA RefuseFrameSafe ==
    ASSUME AudioInv, NEW i \in DOMAIN frames, NEW meta \in Metadata, RefuseFrame(i, meta)
    PROVE  AudioInv'
<1>1. /\ Usable /\ CloseConsumer
      /\ UNCHANGED <<sender, frames, received, provider, providerClosed, transcript, bridge,
                     commands>>
  BY DEF RefuseFrame, deviceVars, transcriberVars
<1>2. session' = FALSE /\ stream' = NoStream /\ gate' = "error" /\ consumer' = "closed"
  BY <1>1 DEF CloseConsumer, Usable
<1>3. AudioTypeOK'
  BY <1>1, CloseConsumerTyped DEF AudioInv, AudioTypeOK
<1>4. ~Usable'
  BY <1>2 DEF Usable
<1> QED
  BY <1>1, <1>3, <1>4, ClosedIsSafe DEF deviceVars

\* Closing the bridge, the transcriber or both keeps the domains.
LEMMA ClosingTyped ==
    ASSUME AudioInv, NEW resets \in BOOLEAN, commands' \in Seq(Seq(Frame)),
           CloseBridge(resets) \/ (CloseTranscriber(resets) /\ UNCHANGED bridge),
           UNCHANGED <<deviceVars, received>>
    PROVE  AudioTypeOK'
<1>1. UNCHANGED <<sender, frames, received>>
  BY DEF deviceVars
<1>2. bridge' \in BOOLEAN
  BY DEF AudioInv, AudioTypeOK, CloseBridge
<1>3. CASE UNCHANGED <<session, stream, gate, consumer, transcriberVars>>
  BY <1>1, <1>2, <1>3 DEF AudioInv, AudioTypeOK, transcriberVars
<1>4. CASE /\ providerClosed' = TRUE /\ transcript' = None
           /\ provider' = IF resets THEN <<>> ELSE provider
           /\ CloseConsumer
  <2>1. provider' \in Seq(Frame)
    BY <1>4 DEF AudioInv, AudioTypeOK
  <2> QED
    BY <1>1, <1>2, <1>4, <2>1, CloseConsumerTyped DEF AudioInv, AudioTypeOK
<1>5. \/ UNCHANGED <<session, stream, gate, consumer, transcriberVars>>
      \/ /\ providerClosed' = TRUE /\ transcript' = None
         /\ provider' = IF resets THEN <<>> ELSE provider
         /\ CloseConsumer
  BY DEF CloseBridge, CloseTranscriber
<1> QED
  BY <1>3, <1>4, <1>5

\* A bridge that closes keeps what it dispatched and dispatches no more.
LEMMA CloseOrFailSafe ==
    ASSUME AudioInv, NEW resets \in BOOLEAN, CloseOrFail(resets)
    PROVE  AudioInv'
<1>1. bridge /\ CloseBridge(resets) /\ UNCHANGED <<deviceVars, received, commands>>
  BY DEF CloseOrFail
<1>2. AudioTypeOK'
  BY <1>1, ClosingTyped DEF AudioInv, AudioTypeOK
<1>3. bridge' = FALSE /\ (provider' = provider \/ provider' = <<>>)
  BY <1>1 DEF CloseBridge, CloseTranscriber, transcriberVars
<1> QED
  BY <1>1, <1>2, <1>3, ClosedIsSafe DEF Usable

\* A cancel whose reset fails leaves a closed transcriber.
LEMMA CancelFailsSafe ==
    ASSUME AudioInv, NEW resets \in BOOLEAN, CancelFails(resets)
    PROVE  AudioInv'
<1>1. /\ Usable /\ CloseTranscriber(resets)
      /\ UNCHANGED <<deviceVars, received, bridge, commands>>
  BY DEF CancelFails
<1>2. AudioTypeOK'
  BY <1>1, ClosingTyped DEF AudioInv, AudioTypeOK
<1>3. ~Usable' /\ (provider' = provider \/ provider' = <<>>)
  BY <1>1 DEF CloseTranscriber, Usable
<1> QED
  BY <1>1, <1>2, <1>3, ClosedIsSafe

\* The one command of a bridge: its transcript was made of all that the provider
\* holds, up to a final chunk.
LEMMA FinalizeSafe ==
    ASSUME AudioInv, NEW resets \in BOOLEAN, Finalize(resets)
    PROVE  AudioInv'
<1>1. /\ Usable /\ transcript # None /\ CloseBridge(resets)
      /\ UNCHANGED <<sender, frames, received>> /\ UNCHANGED deviceVars
      /\ commands' = Append(commands, transcript)
  BY DEF Finalize, TranscriptFinalizes, CloseAfterDispatch, deviceVars
<1>2. /\ transcript = provider /\ provider # <<>> /\ Last(provider).meta.final
      /\ OneStream(provider) /\ commands = <<>> /\ provider \in Seq(Frame)
  BY <1>1 DEF AudioInv, ProviderInv, BridgeInv, AudioTypeOK, Usable
<1>3. commands' = <<provider>>
  BY <1>1, <1>2
<1>4. AudioTypeOK'
  <2>1. commands' \in Seq(Seq(Frame))
    BY <1>2, <1>3
  <2> QED
    BY <1>1, <2>1, ClosingTyped
<1>5. bridge' = FALSE /\ (provider' = provider \/ provider' = <<>>)
  BY <1>1 DEF CloseBridge, CloseTranscriber, transcriberVars
<1>6. FramesInv'
  BY <1>1 DEF AudioInv, FramesInv
<1>7. OneStream(provider)'
  <2>1. CASE provider' = <<>>
    BY <2>1 DEF OneStream
  <2>2. CASE provider' = provider
    BY <2>2, <1>1, <1>2, StreamStays
  <2> QED
    BY <1>5, <2>1, <2>2
<1>8. ProviderInv'
  BY <1>1, <1>5, <1>7 DEF AudioInv, ProviderInv, Usable
<1>9. BridgeInv' /\ CaptureStartsClean'
  BY <1>5 DEF BridgeInv, CaptureStartsClean, Usable
<1>10. CommandsAreWholeStreams'
  <2>1. /\ Len(commands') = 1 /\ DOMAIN commands' = {1} /\ commands'[1] = provider
    BY <1>3
  <2>2. OneStream(commands[1])'
    BY <1>1, <1>2, <2>1, StreamStays
  <2> QED
    BY <1>2, <1>7, <2>1, <2>2 DEF CommandsAreWholeStreams
<1> QED
  BY <1>4, <1>6, <1>8, <1>9, <1>10 DEF AudioInv

\* A cancelled capture leaves an empty provider, and the session goes on after
\* the frames it has opened.
LEMMA CancelSafe ==
    ASSUME AudioInv, CancelCapture
    PROVE  AudioInv'
<1>1. /\ UNCHANGED <<sender, frames, session, received, providerClosed, bridge, commands>>
      /\ Usable /\ stream' = NoStream /\ gate' = Drained /\ consumer' = "open"
      /\ provider' = <<>> /\ transcript' = None
  BY DEF CancelCapture, CancelConsumer, ResetProvider, deviceVars
<1>2. gate' \in GateState
  BY <1>1 DEF AudioInv, AudioTypeOK, GateState, Drained
<1>3. AudioTypeOK'
  BY <1>1, <1>2 DEF AudioInv, AudioTypeOK, NoStream
<1>4. FramesInv'
  BY <1>1 DEF AudioInv, FramesInv
<1>5. OneStream(provider)'
  BY <1>1 DEF OneStream
<1>6. ProviderInv'
  <2>1. stream'.next = 0 /\ Len(provider') = 0 /\ received \in Nat
    BY <1>1 DEF NoStream, AudioInv, AudioTypeOK
  <2> QED
    BY <1>1, <1>5, <2>1 DEF AudioInv, ProviderInv
<1>7. BridgeInv' /\ CaptureStartsClean'
  BY <1>1 DEF AudioInv, BridgeInv, CaptureStartsClean
<1>8. CommandsAreWholeStreams'
  <2>1. commands = <<>>
    BY <1>1 DEF AudioInv, BridgeInv, Usable
  <2> QED
    BY <1>1, <1>5, <2>1 DEF AudioInv, CommandsAreWholeStreams
<1> QED
  BY <1>3, <1>4, <1>6, <1>7, <1>8 DEF AudioInv

-----------------------------------------------------------------------------
(* The theorems *)

\* The inductive invariant of the secure audio path: the sealed frames of a
\* sender stand together, and a usable provider holds the ones opened last.
THEOREM AudioInvariant == AudioSpec => []AudioInv
<1>1. AudioInit => AudioInv
  <2> SUFFICES ASSUME AudioInit
               PROVE  AudioInv
    OBVIOUS
  <2>1. AudioTypeOK
    <3>1. NoStream \in [stream_id : StreamId \cup {None}, next : 0..MAX_AUDIO_CHUNKS,
                        finished : BOOLEAN]
      BY DEF NoStream
    <3>2. /\ <<>> \in Seq(Frame) /\ <<>> \in Seq(Seq(Frame)) /\ Len(<<>>) <= FRAMES
          /\ 0 \in 0..FRAMES
      OBVIOUS
    <3>3. sender \in [stream_id : StreamId \cup {None}, number : 0..SENDERS,
                      next : 0..MAX_AUDIO_CHUNKS, finished : BOOLEAN]
      BY DEF AudioInit
    <3> QED
      BY <3>1, <3>2, <3>3 DEF AudioInit, AudioTypeOK, GateState
  <2>2. FramesInv
    BY DEF AudioInit, FramesInv
  <2>3. ProviderInv
    BY DEF AudioInit, ProviderInv, OneStream, NoStream
  <2>4. BridgeInv /\ CommandsAreWholeStreams /\ CaptureStartsClean
    BY DEF AudioInit, BridgeInv, CommandsAreWholeStreams, CaptureStartsClean, OneStream
  <2> QED
    BY <2>1, <2>2, <2>3, <2>4 DEF AudioInv
<1>2. AudioInv /\ [AudioNext]_audioVars => AudioInv'
  <2> SUFFICES ASSUME AudioInv, [AudioNext]_audioVars
               PROVE  AudioInv'
    OBVIOUS
  <2>1. ASSUME NEW id \in StreamId, NewSender(id) PROVE AudioInv'
    BY <2>1, NewSenderSafe
  <2>2. ASSUME NEW b \in BOOLEAN, SealChunk(b) PROVE AudioInv'
    BY <2>2, SealChunkSafe
  <2>3. ASSUME NEW b \in BOOLEAN, MarkCodecReady(b) PROVE AudioInv'
    <3>1. gate # "listening" /\ gate' \in GateState
      BY <2>3 DEF MarkCodecReady, GateState
    <3> QED
      BY <2>3, <3>1, GateMoves DEF MarkCodecReady
  <2>4. ASSUME NEW b \in BOOLEAN, BeginCapture(b) PROVE AudioInv'
    <3>1. gate' = "listening" /\ gate' \in GateState
      BY <2>4 DEF BeginCapture, BeginListening, GateState
    <3> QED
      BY <2>4, <3>1, GateMoves DEF BeginCapture
  <2>5. ASSUME NEW b \in BOOLEAN, Finalize(b) PROVE AudioInv'
    BY <2>5, FinalizeSafe
  <2>6. ASSUME NEW b \in BOOLEAN, CloseOrFail(b) PROVE AudioInv'
    BY <2>6, CloseOrFailSafe
  <2>7. ASSUME NEW b \in BOOLEAN, CancelFails(b) PROVE AudioInv'
    BY <2>7, CancelFailsSafe
  <2>8. CASE CancelSender
    BY <2>8, CancelSenderSafe
  <2>9. CASE CancelCapture
    BY <2>9, CancelSafe
  <2>10. ASSUME NEW i \in DOMAIN frames, NEW meta \in Metadata, RefuseFrame(i, meta)
         PROVE  AudioInv'
    BY <2>10, RefuseFrameSafe
  <2>11. ASSUME NEW i \in DOMAIN frames, NEW meta \in Metadata, NEW a \in Answers,
                ConsumeFrame(i, meta, a)
         PROVE  AudioInv'
    BY <2>11, ConsumeFrameSafe
  <2>12. ASSUME NEW i \in DOMAIN frames, NEW meta \in Metadata, NEW a \in Answers,
                AnswerRefused(i, meta, a)
         PROVE  AudioInv'
    BY <2>12, AnswerRefusedSafe
  <2>13. CASE UNCHANGED audioVars
    <3>1. UNCHANGED <<deviceVars, receiverVars, consumer, transcriberVars, bridge, commands>>
          /\ gate' = gate
      BY <2>13 DEF audioVars
    <3>2. gate' \in GateState
      BY <3>1 DEF AudioInv, AudioTypeOK
    <3> QED
      BY <3>1, <3>2, GateMoves
  <2> QED
    BY <2>1, <2>2, <2>3, <2>4, <2>5, <2>6, <2>7, <2>8, <2>9, <2>10, <2>11, <2>12, <2>13
       DEF AudioNext
<1> QED
  BY <1>1, <1>2, PTL DEF AudioSpec

\* What the bridge hands to the core is a whole stream of one sender, up to its
\* final chunk, and at most one (SecureAudioReceiver.open_chunk,
\* SecureAudioTranscriber._consume_chunk, SecureAudioCommandBridge.finalize).
THEOREM WholeStreamsOnly == AudioSpec => []CommandsAreWholeStreams
<1>1. AudioInv => CommandsAreWholeStreams
  BY DEF AudioInv
<1> QED
  BY <1>1, AudioInvariant, PTL

\* Outside a capture a usable transcriber holds nothing of an earlier one
\* (SecureAudioCommandBridge.cancel, _reset_provider_state).
THEOREM NothingIsLeftOver == AudioSpec => []CaptureStartsClean
<1>1. AudioInv => CaptureStartsClean
  BY DEF AudioInv
<1> QED
  BY <1>1, AudioInvariant, PTL
=============================================================================
