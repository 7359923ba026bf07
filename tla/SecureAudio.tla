---------------------------- MODULE SecureAudio ----------------------------
(***************************************************************************)
(* Encrypted microphone audio over a secure session: the senders of the    *)
(* device, and on the agent the capture gate, the receiver, the consumer,  *)
(* the transcriber with its injected speech provider, and the bridge that  *)
(* hands one transcript to the core.                                       *)
(*                                                                         *)
(* The transport promises nothing: any sealed frame may arrive at any time *)
(* and any number of times, or with its metadata altered. Samples are not  *)
(* modelled; a chunk is known by the sender that sealed it and its index,  *)
(* a transcript by the chunks the provider had heard when it returned it.  *)
(* MAX_AUDIO_STREAM_BYTES is MAX_AUDIO_CHUNKS full chunks, so the chunk    *)
(* limit is the one that can be met.                                       *)
(***************************************************************************)
EXTENDS Naturals, Sequences, SequencesExt

CONSTANTS
    StreamId,           \* values of stream_id
    MAX_AUDIO_CHUNKS,
    SENDERS,            \* bound: senders the device creates in the session
    FRAMES,             \* bound: frames it seals
    None

ASSUME AudioConstants ==
    /\ MAX_AUDIO_CHUNKS \in Nat \ {0} /\ SENDERS \in Nat /\ FRAMES \in Nat
    /\ None \notin StreamId

VARIABLES
    sender,         \* the SecureAudioSender in use
    frames,         \* what was sealed; the place of a frame is its sequence
    gate,           \* AudioCaptureGate._state
    session,        \* the agent's SecureSession: whether it is open
    received,       \* ... its _receive_sequence
    stream,         \* SecureAudioReceiver: stream_id, next chunk, finished
    consumer,       \* SecureAudioConsumer: "open", "finished" or "closed"
    provider,       \* the chunks the speech provider holds
    providerClosed, \* SecureAudioTranscriber._provider_closed
    transcript,     \* ... _transcript
    bridge,         \* the SecureAudioCommandBridge still has its transcriber
    commands        \* the transcripts it dispatched

deviceVars == <<sender, frames>>
receiverVars == <<session, received, stream>>
consumerVars == <<gate, session, stream, consumer>>
transcriberVars == <<provider, providerClosed, transcript>>
audioVars == <<deviceVars, gate, receiverVars, consumer, transcriberVars, bridge, commands>>

GateState == {"disabled", "codec_ready", "listening", "error"}
Metadata == [stream_id : StreamId, chunk : 0..(MAX_AUDIO_CHUNKS - 1), final : BOOLEAN]
Frame == [meta : Metadata, by : 1..SENDERS]

NoStream == [stream_id |-> None, next |-> 0, finished |-> FALSE]

AudioTypeOK ==
    /\ sender \in [stream_id : StreamId \cup {None}, number : 0..SENDERS,
                   next : 0..MAX_AUDIO_CHUNKS, finished : BOOLEAN]
    /\ frames \in Seq(Frame) /\ Len(frames) <= FRAMES
    /\ gate \in GateState
    /\ session \in BOOLEAN /\ received \in 0..FRAMES
    /\ stream \in [stream_id : StreamId \cup {None}, next : 0..MAX_AUDIO_CHUNKS,
                   finished : BOOLEAN]
    /\ consumer \in {"open", "finished", "closed"}
    /\ provider \in Seq(Frame)
    /\ providerClosed \in BOOLEAN
    /\ transcript = None \/ transcript \in Seq(Frame)
    /\ bridge \in BOOLEAN
    /\ commands \in Seq(Seq(Frame))

AudioInit ==
    /\ sender = [stream_id |-> None, number |-> 0, next |-> 0, finished |-> TRUE]
    /\ frames = <<>>
    /\ gate = "disabled"
    /\ session = TRUE /\ received = 0 /\ stream = NoStream
    /\ consumer = "open"
    /\ provider = <<>> /\ providerClosed = FALSE /\ transcript = None
    /\ bridge = TRUE
    /\ commands = <<>>

-----------------------------------------------------------------------------
(* The device *)

\* A SecureAudioSender on the session; an identifier may be used again.
NewSender(id) ==
    /\ sender.number < SENDERS
    /\ sender' = [stream_id |-> id, number |-> sender.number + 1, next |-> 0,
                  finished |-> FALSE]
    /\ UNCHANGED <<frames, gate, receiverVars, consumer, transcriberVars, bridge, commands>>

\* The last chunk of the limit has to be the final one.
Chunked(final) ==
    /\ sender.next < MAX_AUDIO_CHUNKS
    /\ sender.next = MAX_AUDIO_CHUNKS - 1 => final

SealChunk(final) ==
    /\ ~sender.finished /\ Chunked(final)
    /\ Len(frames) < FRAMES
    /\ frames' = Append(frames,
          [meta |-> [stream_id |-> sender.stream_id, chunk |-> sender.next, final |-> final],
           by |-> sender.number])
    /\ sender' = [sender EXCEPT !.next = @ + 1, !.finished = final]
    /\ UNCHANGED <<gate, receiverVars, consumer, transcriberVars, bridge, commands>>

CancelSender ==
    /\ sender' = [sender EXCEPT !.finished = TRUE, !.next = 0]
    /\ UNCHANGED <<frames, gate, receiverVars, consumer, transcriberVars, bridge, commands>>

-----------------------------------------------------------------------------
(* Closing: each layer closes the one below, and only the first time. *)

CloseConsumer ==
    IF consumer = "closed"
    THEN UNCHANGED <<session, stream, gate, consumer>>
    ELSE /\ session' = FALSE /\ stream' = NoStream
         /\ gate' = "error"
         /\ consumer' = "closed"

\* The provider is dropped even when its own reset fails.
CloseTranscriber(resets) ==
    IF providerClosed
    THEN UNCHANGED <<session, stream, gate, consumer, transcriberVars>>
    ELSE /\ providerClosed' = TRUE
         /\ transcript' = None
         /\ provider' = IF resets THEN <<>> ELSE provider
         /\ CloseConsumer

CloseBridge(resets) ==
    /\ bridge' = FALSE
    /\ IF bridge THEN CloseTranscriber(resets)
                 ELSE UNCHANGED <<session, stream, gate, consumer, transcriberVars>>

\* SecureAudioCommandBridge._require_transcriber.
Usable == bridge /\ ~providerClosed /\ consumer # "closed"

-----------------------------------------------------------------------------
(* The agent *)

\* AudioCaptureGate.mark_codec_ready, called when the codec was set up.
MarkCodecReady(initialized) ==
    /\ gate \in {"disabled", "error"}
    /\ gate' = IF initialized THEN "codec_ready" ELSE "error"
    /\ UNCHANGED <<deviceVars, receiverVars, consumer, transcriberVars, bridge, commands>>

\* AudioCaptureGate.begin_listening; ready stands for display_ready, consented
\* and secure_transport_ready together.
BeginListening(ready) ==
    /\ gate = "codec_ready" /\ ready
    /\ gate' = "listening"

BeginCapture(ready) ==
    /\ Usable
    /\ BeginListening(ready)
    /\ UNCHANGED <<deviceVars, receiverVars, consumer, transcriberVars, bridge, commands>>

\* SecureSession.open: the frame has the next sequence and its tag covers the
\* metadata.
AcceptsAnySequence(i, meta) == frames[i].meta = meta
Authentic(i, meta) == i = received + 1 /\ frames[i].meta = meta

\* SecureAudioReceiver.open_chunk, up to the decryption.
InOrder(meta) ==
    /\ ~stream.finished
    /\ stream.stream_id \in {None, meta.stream_id}
    /\ meta.chunk = stream.next

\* _consume_chunk: what the provider may answer to a chunk, and whether the
\* transcriber takes that answer; "bad" is an exception or a text that
\* validate_bounded_text refuses. A second transcript cannot be: after the first
\* the consumer is finished.
Answers == {"nothing", "text", "bad"}

TakesPartial(meta, answer) == answer # "bad"
Takes(meta, answer) == answer = "nothing" \/ (answer = "text" /\ meta.final)

\* A frame that is opened, heard by the provider and kept.
ConsumeFrame(i, meta, answer) ==
    /\ Usable /\ consumer = "open" /\ gate = "listening"
    /\ session /\ InOrder(meta) /\ Authentic(i, meta)
    /\ Takes(meta, answer)
    /\ received' = received + 1
    /\ stream' = [stream_id |-> meta.stream_id, next |-> stream.next + 1,
                  finished |-> meta.final]
    /\ provider' = Append(provider, frames[i])
    /\ transcript' = IF answer = "text" THEN provider' ELSE None
    /\ consumer' = IF meta.final THEN "finished" ELSE "open"
    /\ UNCHANGED <<deviceVars, gate, session, providerClosed, bridge, commands>>

\* A frame that is opened and heard, but whose answer is refused.
AnswerRefused(i, meta, answer) ==
    /\ Usable /\ consumer = "open" /\ gate = "listening"
    /\ session /\ InOrder(meta) /\ Authentic(i, meta)
    /\ ~Takes(meta, answer)
    /\ received' = received + 1
    /\ provider' = Append(provider, frames[i])
    /\ CloseConsumer
    /\ UNCHANGED <<deviceVars, providerClosed, transcript, bridge, commands>>

\* Too late, without consent, out of order or not authentic: the session
\* closes, and the provider keeps what it had heard until the bridge closes.
RefuseFrame(i, meta) ==
    /\ Usable
    /\ \/ consumer = "finished"
       \/ gate # "listening"
       \/ ~(session /\ InOrder(meta) /\ Authentic(i, meta))
    /\ CloseConsumer
    /\ UNCHANGED <<deviceVars, received, transcriberVars, bridge, commands>>

\* SecureAudioConsumer.finalize; the gate drains, and the close that follows a
\* finalized stream leaves it in "error" all the same.
StreamFinalizes ==
    /\ consumer = "finished" /\ stream.finished
    /\ gate = "listening"

TranscriptFinalizes == StreamFinalizes /\ transcript # None

CloseAfterDispatch(resets) == CloseBridge(resets)

\* SecureAudioCommandBridge.finalize: whether the dispatcher returns or fails,
\* the bridge closes.
Finalize(resets) ==
    /\ Usable /\ TranscriptFinalizes
    /\ commands' = Append(commands, transcript)
    /\ CloseAfterDispatch(resets)
    /\ UNCHANGED <<deviceVars, received>>

\* Any other finalize, and any call to a bridge whose transcriber is closed,
\* ends in a closed bridge; so does close() itself.
CloseOrFail(resets) ==
    /\ bridge
    /\ CloseBridge(resets)
    /\ UNCHANGED <<deviceVars, received, commands>>

\* _reset_provider_state. A provider that keeps what it hears supplies its
\* reset_provider, as SECURE_AUDIO_PROTOCOL.md:69-71 asks; one that supplies none
\* (the default) keeps nothing between calls, and nothing is to be reset.
KeepsProvider == provider' = provider
ResetProvider == provider' = <<>>

\* begin_draining and finish_draining.
Drained == IF gate = "listening" THEN "codec_ready" ELSE gate

CancelConsumer ==
    /\ stream' = NoStream
    /\ gate' = Drained
    /\ consumer' = "open"

\* SecureAudioCommandBridge.cancel: the stream goes, the session stays. A
\* transcriber that is already closed is left as it is.
CancelCapture ==
    /\ Usable
    /\ CancelConsumer
    /\ ResetProvider
    /\ transcript' = None
    /\ UNCHANGED <<deviceVars, session, received, providerClosed, bridge, commands>>

\* The provider's reset fails: the transcriber closes, and tries it once more.
CancelFails(resets) ==
    /\ Usable
    /\ CloseTranscriber(resets)
    /\ UNCHANGED <<deviceVars, received, bridge, commands>>

AudioNext ==
    \/ \E id \in StreamId : NewSender(id)
    \/ \E b \in BOOLEAN :
          \/ SealChunk(b) \/ MarkCodecReady(b) \/ BeginCapture(b)
          \/ Finalize(b) \/ CloseOrFail(b) \/ CancelFails(b)
    \/ CancelSender \/ CancelCapture
    \/ \E i \in DOMAIN frames, meta \in Metadata :
          \/ RefuseFrame(i, meta)
          \/ \E a \in Answers : ConsumeFrame(i, meta, a) \/ AnswerRefused(i, meta, a)

AudioSpec == AudioInit /\ [][AudioNext]_audioVars

-----------------------------------------------------------------------------
(* Properties *)

\* The chunks are the frames after the first j, and one sender sealed them, none
\* of them before.
RunAfter(j, chunks) ==
    /\ \A k \in DOMAIN chunks : chunks[k] = frames[j + k] /\ chunks[k].by = chunks[1].by
    /\ \A i \in 1..j : frames[i].by # chunks[1].by

\* The first chunks of one sender, in the order it sealed them.
OneStream(chunks) ==
    chunks = <<>> \/ \E j \in 0..(Len(frames) - Len(chunks)) : RunAfter(j, chunks)

\* What the provider holds is the beginning of what one sender sealed, and what
\* reaches the core as a command is a whole stream up to its final chunk: never
\* a partial capture, two captures joined, or a chunk heard twice, whatever was
\* cancelled, resent or left in flight (open_chunk, _consume_chunk, cancel). A
\* bridge dispatches one command in its life, also when the dispatcher failed
\* or the owner cancels afterwards (SecureAudioCommandBridge.finalize).
CommandsAreWholeStreams ==
    /\ Len(commands) <= 1
    /\ OneStream(provider)
    /\ \A k \in DOMAIN commands : /\ commands[k] # <<>>
                                  /\ OneStream(commands[k])
                                  /\ Last(commands[k]).meta.final

\* Outside a capture a usable transcriber holds nothing of an earlier one: no
\* sample in the provider, no transcript and no half-open stream that the next
\* begin_capture would continue (cancel, finalize, _reset_provider_state).
CaptureStartsClean ==
    Usable /\ gate # "listening" =>
        provider = <<>> /\ transcript = None /\ stream = NoStream

-----------------------------------------------------------------------------
(* The inductive invariant *)

\* The first chunk of a sender follows none of its own, and every other one
\* follows a chunk of the same sender: a device seals with one sender at a time.
FramesInv ==
    /\ \A i \in DOMAIN frames :
          /\ frames[i].by <= sender.number
          /\ frames[i].meta.chunk = 0 => \A h \in 1..(i - 1) : frames[h].by # frames[i].by
          /\ frames[i].meta.chunk # 0 => i > 1 /\ frames[i - 1].by = frames[i].by
    /\ ~sender.finished =>
          /\ sender.stream_id \in StreamId /\ sender.number \in 1..SENDERS
          /\ sender.next = 0 => \A i \in DOMAIN frames : frames[i].by # sender.number
          /\ sender.next # 0 =>
                frames # <<>> /\ frames[Len(frames)].by = sender.number

\* While the transcriber is usable, its provider holds the frames the session
\* opened last, as many as the receiver counts, and the transcript is made of
\* all of them.
ProviderInv ==
    /\ received <= Len(frames)
    /\ OneStream(provider)
    /\ Usable =>
          /\ Len(provider) = stream.next /\ stream.next <= received
          /\ stream.next # 0 => RunAfter(received - stream.next, provider)
          /\ transcript # None =>
                /\ transcript = provider /\ provider # <<>>
                /\ Last(provider).meta.final

\* A bridge that has dispatched a command is closed.
BridgeInv == bridge => commands = <<>>

AudioInv ==
    /\ AudioTypeOK
    /\ FramesInv
    /\ ProviderInv
    /\ BridgeInv
    /\ CommandsAreWholeStreams
    /\ CaptureStartsClean
=============================================================================
