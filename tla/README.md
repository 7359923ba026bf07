# TLA+ verification of Pipa

Pipa is a personal assistant. A Windows agent written in Python runs local tools
(applications, media, messages, timers) for paired devices: an ESP32 with screen
and touch on a USB port or a WebSocket, and an iPhone over TCP. This directory
models the parts of the agent, the firmware and the app that hold protocol or
concurrent state, checks them with TLC on small instances, and proves the most
important results with TLAPS for every value of the constants.

## The system's parts

| Part | State it keeps | Operations | What makes it hard | What makes it correct |
|---|---|---|---|---|
| Core: `backend/pipa_core/core.py`, `state.py`, `confirmations.py`, `tools.py` | registry of sessions, pending confirmations, UI state of each session | authenticate, accept_client_hello, handle, handle_transcript, close | three transports call it from three threads; pruning, lookup, consumption and execution are separate critical sections; handlers fail midway | an unsafe tool runs at most once, only after its own session accepted it on its own screen |
| Authentication: `trusted_unlock_protocol.py`, `connection.py`, the WebSocket route of `main.py` | trusted keys; pending and consumed challenges; failures, errors and timers of each connection | create_challenge, verify_response, process, close | replayed, delayed and forged hellos, expiry, a bounded memory of consumed challenges, timeouts racing answers | a session only from a fresh signature of the right device, once per challenge; a peer cannot hold an unauthenticated connection |
| Secure session v2: `secure_session.py`, `secure_session_server.py`, `secure_core_connection.py`, `secure_json_channel.py`, `pipa_secure_handshake.cpp`, `pipa_secure_session.cpp` | keys, send and receive sequences, used session ids | handshake, seal, open, close | lost, repeated, reordered and redirected frames; a replay memory that evicts and expires; sequence limits | nothing is processed twice, out of order, or without having been sent |
| Mobile gateway: `secure_tcp_gateway.py` | connections and their writers, copy of the device store, stop flags | accept, serve, watch revocations, stop | handlers, watcher and shutdown interleave at each await; buffered frames and unread answers | sessions only for paired devices; revocation and shutdown end connections |
| iPhone app: `PipaMobileViewModel.swift`, `PipaMobileTCPClient.swift` | client, session generation, flags, the confirmation on screen | connect, disconnect, send, resolve, apply | two actors, cancelled tasks that still run, answers of a session that was left | an old session does not reappear; the approval shows the command it is about |
| USB link v1: `pipa_protocol.cpp`, `pipa_serial_gateway.py` | phase of the device, timers, session of the agent | poll, handle lines, serve | restarts, unplugging and stalls at any moment; each end keeps its own idea of the session | after a break the link comes back (not always: see Findings) |
| USB link v2: `pipa_secure_protocol.cpp`, `secure_serial_gateway.py` | the same, with handshakes | the same | the same, and the port handle | the link is stable while nothing breaks; after a break it should come back (see Findings) |
| Trusted unlock: `trusted_unlock_ticket.py`, `_broker.py`, `_devices.py`, `_admin.py`, `_broker_client.py` | device registry, the broker's copy of it, challenges, tickets and what was consumed | pair, revoke, start, challenge, verify, issue, consume | a registry written value by value, without a lock, by other processes; bounded memories, the wall clock, answers that come too late; disabled by a flag | a signed challenge unlocks once at most, and only for a completely paired key |
| Secure audio: `secure_audio.py` | capture gate, sequence, stream, provider, transcript, bridge | begin, open_chunk, finalize, cancel, dispatch | chunks late, repeated or altered; cancellation and failures in the middle | one command at most, from one whole capture |
| League adapter: `tools/league.py` | one lock; the client's lobby and matchmaking are external | search, cancel, wait, status, open | several requests and the player on one client; calls that act and fail; two waits in a row | no request acts on another's stale reading; every request ends |
| Timers: `tools/timers.py` | records, one thread each | create, cancel, fire, prune | a timer fires while it is cancelled or pruned | one outcome each, none forgotten while pending |
| Application list: `tools/apps.py`, `configure_apps.py`, routes of `main.py` | `config/apps.json` | save, rename, delete, find | threads and another process replace one file without a lock | a label names one application; other entries survive |
| Messages: `whatsapp.py`, `contacts.py`, `discord.py`, `control_config.py`, `agent_catalog.py` | mode, token, contacts, a confirmed message | prepare, confirm, send, update settings, edit contacts | what was confirmed is carried out later, against settings and contacts that change | the confirmed destination and mode are the ones used |
| Language: `intents.py`, `integration_catalog.py`, `agent_catalog.py` | the panel's edited phrases | read a sentence, edit, disable, reset | some sixty overlapping patterns in order, two readers in turn, a file edited between sentences | a sentence reaches its tool with its arguments, and nothing that is off |

Interactions. A transport authenticates (v1: challenge and signature, v2: signed
handshake), obtains a session from the core, and hands every further message to
`PipaCore.handle`, which answers with messages for the device. The core calls
tool handlers; the device's confirmation screen sends `confirm` back through the
same connection. Closing a connection closes its session, which cancels its
confirmations. The registry prunes silent sessions whenever any transport calls
the core.

`PROJECT.json` lists every part with what is modelled of it, and, under `hazards`,
the places of the code that tests hardly reach, with the properties that watch
each.

## Modules

| Module | Models |
|---|---|
| `OneUse` | abstract: a token issued to one holder, redeemed by it, used at most once |
| `Pipe` | abstract: messages arrive in order, none twice, none invented |
| `PipaCore` | the core under concurrent transports |
| `Authentication`, `AuthenticationProofs` | the verifier of challenges and the life of a v1 connection, WebSocket or serial |
| `SecureChannel`, `SecureChannelProofs` | handshake and record layer v2 between clients and connections |
| `MobileGateway` | the TCP gateway for phones |
| `MobileApp` | the app's view model and its TCP clients |
| `Phone`, `PhoneProofs` | the two ends of the phone's connection; one of them moves in a behaviour |
| `SerialLink` | device and agent over USB, protocol v1 |
| `SecureLink` | device and agent over USB, protocol v2 |
| `UsbLink`, `UsbLinkProofs` | either of the two on one cable |
| `SecureAudio`, `SecureAudioProofs` | microphone audio from the device's senders to the command for the core |
| `Unlock`, `UnlockProofs` | pairing, the broker, challenges and tickets |
| `League`, `Timers`, `ProcessList`, `Messages` | the local tools that keep state |
| `LocalTools`, `LocalToolsProofs` | those four and `SecureAudio` side by side |
| `Intents` | patterns, catalogue and contracts: what a sentence means |
| `TextCommands` | sentences, the core's routing and the edited catalogue |
| `PipaCoreProofs` | theorems about `PipaCore` and about the sentences it routes |
| `MCPipaCore`, `MCAuthentication`, `MCSecureChannel`, `MCPhone`, `MCUnlock`, `MCTextCommands` | instances for TLC: model values, vocabularies and symmetry |

How they fit together: `PipaCore` takes authentication as an action that succeeds
or fails; `Authentication` and `SecureChannel` model the two ways it happens.
`SerialLink` and `SecureLink` compose a device and an agent and keep of the
authentication only the life of a challenge and the freshness of a handshake.
`UsbLink` chooses one of the two at the start: firmware and gateway are built for
one protocol. `MobileGateway` and `MobileApp` are the two ends of the phone's
connection, each against any behaviour of the other, so they share no variable and
`Phone` lets one of them move. `PipaCore` takes any tool
for a sentence; `TextCommands` says which. What a confirmed tool then does, later
and in another thread, is in `Messages` and `League`. Three modules share the
abstract `OneUse`: confirmations, challenges and unlock tickets are all tokens
that somebody holds, redeems and may not redeem again.

A `...Proofs` module holds the theorems about the modules it extends. An inductive
invariant stands at the end of its component's module, or in the proofs where
nothing else has a use for it. Type invariants are proved and not run, by themselves
or as parts of an inductive invariant, except for the memories of what was consumed
in `Authentication` and `Unlock`: these are pruned with `SelectSeq`, which takes an
operator and of which the provers know nothing.

### PipaCore

A `Thread` is a transport with one connection at a time (`my`). One step is one
critical section (the registry's lock or the manager's) or code that touches only
the thread's own session. A message is `Receive`, `PruneSessions` and `CancelStale`
(`_prune_stale_sessions`), `GetSession`, `Touch`, then the handler for its type.
`NeedsConfirmation` creates a confirmation; `Confirm` reads the clock as `consume`
does, before it locks, so that the verdict `inTime` can be stale when
`ConsumeAccepted` uses it; `Execute` starts the handler after the entry is gone.
`idle` and `left` are the age of a session and the rest of a confirmation's life, so
that time need not be bounded: where the code compares an absolute `expires_at` with
the clock, the model counts down (`CountDown`). `shown` is what the device was last
told; `acceptedBy` and `ran` are history.

### Authentication

`Sign` is the device signing a challenge it was given; `Hello` delivers any
combination of challenge, device and signature, on any connection, any number of
times. `Acceptable` are the verifier's checks in their order; `VerifySucceeds`
remembers and evicts as `_consumed` does; the session is created in a later step
(`OpenSession`). WebSocket and serial connections differ in what resets their
timers (`IdleAfterProcess`), as in `main.py` and `pipa_serial_gateway.py`.

### SecureChannel

Nothing is assumed of the transport. What was written follows from the state, so
there is no channel variable: any hello, ServerHello or record that was written
may be delivered to any connection, any number of times, in any order. Keys and
signatures are ideal: a record opens only under the transcript it was sealed in.
The device's sequences stop at `MAX_SEQUENCE`; the agent's reach one more, as in
the code. The agent's answers to one record are sealed one by one and a failure
midway closes the connection.

### MobileGateway

An action is what a coroutine does between two awaits on the gateway's loop.
`closing` is a transport after `close()`, `unsent` data in its buffer, `inbox`
frames in its reader. `ChangeStore` is the administrator, or the store failing.
Nothing is assumed of a peer: it may leave what it was sent unread for ever on a
connection that does not break (`NeverRead`), and neither `drain()` nor
`wait_closed()` has a timeout. The lock of the writers' table, which the code also
holds while it waits for closed writers, is left out.

### MobileApp

An action is what one actor does between two awaits. `stale` marks requests of an
earlier `sessionGeneration`, `cancelled` connect tasks whose cancellation was
requested, which their network waits do not notice. Tasks queued for one client
run in the order of their creation. `early` records that a command was sent on a
client that was still connecting; see the observations below.

### SerialLink, SecureLink

Lines are whole and in order. A challenge or hello carries the life left in it (v1),
or whether it belongs to the device's latest handshake (v2). The faults are a
restart of the agent, an unplugged cable, a device without memory for an answer
(v2), and `Tick` with lines waiting (a stall); `FAULTS` says which of the first
three happen, `MAX_BREAKS` and `MAX_STALLS` how often. Periods keep the order they
have in the code. Messages other than the handshake and heartbeats are left out of
both, and so is the device's confirmation screen. A port has one handle, as on
Windows, the agent's only platform; `leaked` says that the v2 gateway left one open.

### SecureAudio

Sealed frames are a sequence whose places are the record sequences; any of them
may arrive at any time, again, or altered. A chunk is known by its sender and
index, so that a joined, doubled or partial capture can be told from a whole one.
The provider is external: each of its calls returns or raises. A provider that
keeps what it hears is taken to come with a `reset_provider`; the code's default,
none, is right only for one that keeps nothing.

### Unlock

A request to the broker is one action (it serves one at a time). Several
administrators may run pair commands at once, as the registry takes no lock; each
creates the subkey, writes the key and the date in steps of their own, and may die,
fail, or fail to clean up in between. One whose subkey was deleted by another goes on
with a handle to nothing (`gone`), and `overlaps` records that two of them worked on
one id. `now` moves both ways up to `HORIZON`. A lost answer spends the challenge
or the ticket without the caller knowing. `UNLOCK_ENABLED` is false in the code:
both values are explored.

### League, Timers, ProcessList, Messages

A step is one call of the League client, one critical section of the timers, or
one access to a file or to the credential store. `moved` and `current` record
whether the client changed by itself, or another writer replaced the file, since
a thread read it: the properties say what holds when nothing did, and the code
promises no more. The League client may report `"searching": true` beside a state
of not searching (`entering`). The question about a message reads the sending mode
whichever way was asked for, and fails with it (`SeeFails`). `LocalTools` lets one
of the five move in a behaviour, these four or `SecureAudio`. They
share no state, so a property of one holds in every interleaving with the others
when it holds while they rest. Records of timers are a set: identifiers are drawn
in order, so their order is that of the dictionary the code prunes from its front.

### Intents, TextCommands

A sentence is a sequence of words and a pattern a sequence of items, matched with
the backtracking order of Python's `re` (lazy and greedy captures, first match
wins). `Rules` are the patterns of `parse_text_intent` in their order, `COMMANDS`
the catalogue, `parse_catalog_intent` its choice of the most specific match.
`TextCommands` says sentences made of every built-in form and every command
phrase, with known recipient, text and arguments (`wanted`), edits and disables
phrases, or spoils the file by hand, between sentences. A hand edit may name a
command that does not exist, which is kept and ignored. `ArgumentFits` are the
tools' own refusals (names, lengths, ranges, `normalize_phone`,
`validate_external_url`), stricter than the shapes the readers recognise; after
them the preparer of a confirmation refuses a contact that is not in the file
(`Known`). Folding of case and accents is the choice of the words. What the core
makes of each of the 50,902 sentence and catalogue pairs of the run was compared
with the Python parsers, without a difference.

## Runs

| Run | Instance | What it shows |
|---|---|---|
| `core` | 2 transports, 2 devices, 3 sessions for 2 places, 1 confirmation | unsafe work is asked for on its owner's screen, runs once at most and refines `OneUse`; screens agree with sessions; a full table never evicts a live session |
| `auth` | 2 serial connections, 2 devices, 2 challenges, a memory of 1 | no session without the right signature; challenges refine `OneUse` |
| `auth_timeouts` | a WebSocket and a serial connection, fair | an unauthenticated connection is decided |
| `secure_channel` | 3 hellos (one unsigned), 3 connections, a memory of 1, sequences to 2 | one live peer per hello; both directions refine `Pipe` |
| `phone` | the gateway with 2 connections for 1 place and 1 device, or the app with 2 connections, a typed and a structured command; fair | sessions only for paired devices; a revoked phone is closed and what closes ends, if the peer reads; old sessions stay gone; the preview is true; abandoned clients close; connecting ends |
| `usb_link` | either protocol, 2 breaks, 6 ticks of stalls, fair | v1 comes back, or stays for ever in one of two named states; v2 is stable while nothing breaks |
| `usb_signed_restart` | the same, 1 restart of the agent, no stall | *violation*: v1 does not always come back |
| `usb_encrypted_restart` | the same, 1 restart of the agent, no stall | *violation*: v2 does not always come back |
| `unlock` | 2 administrators, 2 keys of a device, 2 challenges, 2 tickets, memories of 1, a clock to 1 | one unlock per challenge, only for paired keys; no silent replacement of a key, but by overlapping pair commands; tickets refine `OneUse` |
| `tools` | 2 League threads and queues, 4 timers for 2 places, 2 writers of 2 applications, 2 destinations; 3 audio senders with 2 stream ids, 5 frames, limit of 3 chunks | nothing acts on a stale reading; League requests end; a timer has one outcome; entries are kept and unambiguous; messages go as confirmed; a spoken command is one whole stream, once; a capture starts clean |
| `language` | all forms and commands; names of 1 to 3 words and one too long, texts with separators and a colon, telephones and addresses that a tool takes and refuses; 4 editable commands, two of which may get one phrase | the right tool, recipient, text and arguments; edited phrases run their command, the first of two equal ones; what is off stays silent |
| `language_message` | the same | *violation*: a dictated message is lost to a catalogue phrase |

### Bounds

Clocks are relative and saturate, so no run but `unlock` bounds time (`HORIZON`,
because its clock can go back). Two threads and two sessions are what a race over a
confirmation needs; a third session appears where the limit of two is the subject.
Memories of consumed challenges and session ids hold one entry so that eviction
happens at the second. Two connections of the app are enough for an answer of one to
meet the other; a third makes liveness too large. One device is enough for the
gateway, whose connections may both be its. Two administrators are what an overlap
needs. In `unlock` every lifetime is one tick, and the clock, which can be set back,
has two values. `MAX_BREAKS = 2` allows a second fault while recovering from the
first, and `MAX_STALLS = 6` is longer than the longest timeout of a device; the two
violation runs need one restart and no stall. Three senders and five frames let a
capture be cancelled, the next reuse its stream id, and frames of both be under way.
Four timers for two places let a completed record be pruned while others are
pending. Names and texts contain separators of the fields of the patterns, the words
"de", "dile" and "que" and the colon, so that a field can be split in the wrong
place. `INBOX`, `QUEUE`, `ANSWERS`, `MAX_CLIENTS`, `FAULTS`, `MAX_BREAKS`,
`MAX_STALLS`, `SENDERS`, `FRAMES`, `HORIZON` and `MAX_TIMERS_DRAWN` are bounds of
the model; all other constants are the code's limits at small values. Symmetry is
used only in runs without liveness.

### Fairness

* `Authentication`: a started message finishes, transports notice timeouts (the
  WebSocket's `wait_for`, the serial gateway's polling read), time passes. Peers
  need do nothing.
* `MobileGateway`: the asyncio loop runs every ready handler and the watcher's
  timer. Peers need do nothing; `RevokedIsClosed` and `ClosingEnds` except by name
  the one that never reads. The idle limit of ten minutes is not needed and has no
  fairness.
* `MobileApp`: queued tasks run and each network wait ends, because the client
  arms a timeout for each. The user need do nothing.
* `SerialLink`, `SecureLink`: the device's `loop()`, the gateway's thread and time
  go on; opening the port is retried and succeeds when the system allows it.
  Faults have no fairness.
* `League`: a request's thread takes its next step and time passes. The client
  need never answer as asked, and a thread need never get the lock.

## Proofs

Every safety property that a passing run checks is also a theorem, for every value of
the constants, except four of the language (see below). An inductive invariant
(`IInv`, `GatewayInv`, `UsbInv`) was checked by TLC on the instance of its run before
it was proved; it says what the properties leave out, and each proof that a step
preserves it has one step or lemma per action of `Next`.

**`PipaCoreProofs`**, from `CoreConstants` only (any sets of threads, devices,
sessions and confirmations, any limits, positive lifetimes):

* `TypeCorrect`, `PendingAlwaysAsked`, `AtMostOnePending`, `AtMostOneRun`,
  `PendingHasScreen`, `ScreenInSync`: each is `Spec => []Property`.
* `LiveSessionsAreKept`: only a silent session, or one that its own transport
  closes, leaves the registry.
* `CoreImplementsOneUse`: the core refines `OneUse`.

`IInv` adds: no two threads serve one session (`SessionHasOneConnection`); which
places of a handler have a session and a request (`FramesInv`); an identifier that
is not issued or is still pending has not run (`TokensInv`); pending work belongs
to a session that said hello and has a screen, and a thread past consumption owns
nothing pending (`OwnersInv`); the screen agrees with the session except inside
`_run_tool` (`ScreensInv`); a handler about to run was consumed by its owner and
never ran (`RunningInv`). The heart of the argument is that `consume` deletes the
entry in the critical section that checks its owner, and that `handle` does not
reach a second unsafe tool from the confirm state.

About `TextCommands`, for any vocabulary and any edits, `DisabledStaysSilent`:
no sentence reaches a tool whose commands are all disabled, and nothing is reached
while the file cannot be read. The property is inductive as it stands; what it takes
is that the core asks `get_command_catalog` after either reader, so it does not
matter what the readers make of a sentence (`RouteIsSilent`), that only enabled
commands are listed (`ListedIsEnabled`), and that an edit of a phrase leaves the tool
of a command alone, which holds of all forty entries of the catalogue
(`CatalogShape`, `PresentKeepsTool`).

**`AuthenticationProofs`**, from `AuthConstants`: `SignedBeforeRedeemed`,
`OneSession` (no challenge opens two sessions) and `ChallengesImplementOneUse`.
`IInv` says what a thread between verification and session creation knows: its
challenge is redeemed, opened nothing yet, and no other thread is there with it
(`VerifyingInv`). The bounded memory of consumed challenges does not occur in it:
replay protection rests on a challenge leaving `_pending`, and the memory only
chooses the error that a repeated hello gets. On top of `IInv`, `LimitsAreKept`: the
pending challenges stay within both limits, because `create_challenge` sweeps and
counts in the critical section that adds, and no connection goes on after its last
allowed failure or error.

**`SecureChannelProofs`**, from `ChannelConstants`: `TypeCorrect`,
`RecordsWereSent`, `AtMostOneLivePeer`, and `UpstreamIsAPipe`, `DownstreamIsAPipe`
(both directions refine `Pipe`). `IInv` adds that a client without a peer
exchanged nothing (`FreshClients`), that a connection answers one hello the device
signed and that a client's peer answered that client's hello (`Bound`), and that a
connection sends only after it received (`AnswersOnly`). `AtMostOneLivePeer` does
not use the replay memory: a replayed hello may open a second connection once its
id is evicted, but the device completed the handshake with one ServerHello, so no
record opens there.

**`UnlockProofs`**, from `UnlockConstants` and from `None` being no record:
`OneUnlock`, `UnlockAuthority`, `KeysAreKept`, `TicketsImplementOneUse`. `IInv`
follows one challenge: it gets its only ticket in the step in which it leaves
`_pending`, and only for the signature of a paired key (`TicketsInv`); an unlock has
a redeemed ticket (`UnlocksInv`). Of the registry (`RegistryInv`) it says that a
complete entry is that of a paired key (`PairedInv`), that a pair command whose
subkey was not deleted still has one (`SubkeyInv`), and that a command which met no
other on its id works alone on an entry that is not complete (`AloneInv`):
`KeysAreKept`, that only a revocation or pair commands which overlap change a
complete entry, follows from the last, for any number of administrators. Neither
memory of what was consumed, nor the clock, is needed: setting the clock back
revives nothing. `PendingIsBounded`: the broker keeps to its limit of pending
challenges per device.

**`PhoneProofs`**, about the gateway from `GatewayConstants`: `LimitIsKept` (the
type invariant with the bound on registered connections, which needs the tables to
be finite) and `SessionsArePaired`. About the app from `AppConstants`:
`LeftSessionsStayGone` and `PreviewsAreTrue`. `operationTask` is always the task of
the client in use, so `disconnect()` cancels the task of every client it drops
(`ClientInv`); at most one
request's answer is still taken, of a client that was not left, and the stored
preview is its own (`RequestInv`). Without early requests (`OnTimeInv`), a task that
still connects and was not cancelled is that of the client in use. This last part
is why the word "connected" is excepted by `early` and the rest of the property is
not. `PhoneImplementsItsEnds`: a behaviour of `Phone` is one of each end.

**`UsbLinkProofs`**, from `LinkConstants` (any periods in the order of the code:
retry before the agent's 20 s for a handshake, heartbeat before the device's timeout,
both before the agent's idle limit): `UsbTypeCorrect`, the domains of both protocols,
and `EncryptedLinkStable`: while no line is held up and nothing breaks, a linked
device and agent stay linked. The action property alone says nothing of how long
either end has waited, so the invariant `UsbInv` has two more parts.

* `LinesInv`, which lines may still be under way. Once the device is authenticated,
  every line on the cable is a record under the keys of its latest handshake, and the
  agent has those keys or no session (`SessionInv`); before, at most the newest line
  of a direction belongs to that handshake, and a ServerHello of it is under way only
  when the agent has read everything and its session, if any, is the matching one
  (`HandshakeInv`). A stale hello therefore never reaches an authenticated device or
  its agent.
* `TimingInv`, how old they are: unless some line was held up, what an end has waited
  is no more than the age of the last heartbeat, or what ends the wait is under way
  and the wait is no more than a heartbeat's period. Time does not pass while a line
  waits or a heartbeat is due, so neither timeout is reached.

**`SecureAudioProofs`**, from `AudioConstants`: `WholeStreamsOnly` and
`NothingIsLeftOver`. The chunks of a sender stand together in the sealed frames
(`FramesInv`), and a usable provider holds exactly the frames that the session
opened last, as many as the receiver counts (`ProviderInv`): a frame whose index
fits the count is therefore the next chunk of the same sender, though a stream id
may be used again.

**`LocalToolsProofs`**, from the constants of the five modules (the only new
assumption: there is a destination):

* `LabelsStayUnambiguous`, `OtherEntriesStay`: a copy that is about to replace the
  file is valid and, while current, differs only in the entries that its request
  names (`ProcessInv`).
* `ConfirmedIsSent`, `NothingSentWhileOff`: what was frozen at the question equals
  what an accepted message carries (`ConfirmedInv`), and past its reads of the
  settings sending was on at one of them (`OnInv`).
* `TimersHaveOneOutcome`: a pending timer is in the table (`TimersInv`).
* `ActsOnItsReading`: who is between reading and acting has the lock (`LockInv`),
  so only the client itself can make the reading false (`ReadingInv`).
* `ToolsImplementTheirParts`: a behaviour of `LocalTools` is one of each of the
  five, so these theorems and those of `SecureAudioProofs` speak of the `tools` run.

Only model-checked:

* liveness, which is out of the prover's reach: `EventuallyDecided`,
  `RevokedIsClosed`, `ClosingEnds`, `AbandonedIsClosed`, `ConnectingEnds`,
  `SignedLinkRecovers`, `RequestsEnd`;
* `BuiltInsKeepTheirIntents`, `NoMessageIsMisdelivered`, `ArgumentsFitTheTool` and
  `PhraseRunsItsCommand` of `TextCommands`: each depends on what `fullmatch` computes,
  a recursion over pattern and sentence, so a proof would need induction over data.
  They are not true of every vocabulary either (a name may contain the words that
  separate the fields of a pattern), so their instance is the statement: the words
  of the run.

## Findings

**A dictated message is lost** (`language_message`, `MessagesArePrepared`).
`PipaCore._route_transcript` asks the catalogue first (`core.py:502-504`), and its
phrase "abre WhatsApp para <contacto>" takes the whole of "abre WhatsApp para mama y
dile Hola": the core looks for a contact called "mama y dile Hola", finds none and
answers `tool_failed`. `tools/diagnostics.py:141` and
`tests/test_integrations.py:864` list the sentence as a message "Hola" to that
contact, and ask the built-in parser alone. The same happens to a number.

`firmware/README.md:21` lists "Reconexión tras reinicio del agente y timeout de
heartbeat" under "Implementado y compilado". Neither protocol always reconnects.

**v1: the device can wait for ever** (`usb_signed_restart`, `SignedLinkReconnects`).
An agent that restarts between the device's hello and its `ready` leaves
`awaiting_ready_` set: the firmware repeats its request and discards every challenge
of the new agent (`pipa_protocol.cpp:149-166`). After a heartbeat timeout of the
device alone, the agent answers each request with `already_authenticated`, on which
the device does not act, and counts it as activity (`connection.py:42`), so its idle
limit does not end the session either. `SignedLinkRecovers` shows that these two
states, `WaitsForReady` and `KeepsOldSession`, are the only ones in which the link
can stay down.

**v2: the gateway keeps itself from the port** (`usb_encrypted_restart`,
`EncryptedLinkReconnects`). `SecureSerialGateway._serve_connection` ends without
closing the port (`secure_serial_gateway.py:141`; `SECURE_SESSION_PROTOCOL.md:71`
says "cierra la conexión"), and `_run` cannot open it again while its old handle is
open: on Windows nothing but a restart of the agent does. One restart is enough to
get there, since the device still believes in its session and the new process gives
up on the silent connection; a heartbeat timeout ends the same way.

## Observations

What the models show and no document of the repository contradicts, or what a
property excepts by name:

* Core: a session pruned by another thread can leave its confirmation behind.
  `SessionRegistry.create` drops the ids it pruned (`state.py:80`; compare the
  docstring at 99-100), and `handle` can create a confirmation for a session that
  was pruned after the lookup. It cannot be reached any more, but holds a place
  until it expires.
* Mobile gateway: a handler that starts after `_request_shutdown` collected the
  writers is not closed by it (`secure_tcp_gateway.py:239-253`); with Python 3.12
  `wait_closed` waits for it until its own timeout. A peer that never reads keeps
  its handler in `drain()` or in `wait_closed()`, which have no timeout (163,
  357-359), also after it was revoked.
* App: the catalog and the editor outlive a failed session, so a structured
  command can be sent while the next client is connecting
  (`PipaMobileViewModel.swift:658-686` tests the client, not the state). Its
  failure and the connect task's own then clear each other's client: the label
  can say connected without a client. The properties of `phone` except that case
  by the history variable `early`, and nothing else.
* Audio: after a refused frame the provider keeps what it heard until the bridge
  is closed; cancelling the bridge then does not reset it.
* Unlock: the broker trusts the registry it read at its start until it restarts
  (documented, `SECURITY.md:364`); its one pipe instance reads without a timeout.
  Pair commands that overlap on one id overwrite or delete each other's complete
  entry, although the store means never to overwrite one silently
  (`trusted_unlock_devices.py:239-242`); `NoSilentReplacement` excepts them by name.
* League: a search can answer an error although matchmaking started (the answer of
  the call was lost); a cancel can hit a match found between its read and its
  call; a launch request during a slow start launches again; `league_open` takes
  no lock; the lock can be held for two start timeouts; an unknown queue on the
  HTTP route is refused after the client was launched.
* Timers: a timer whose thread cannot start stays pending until it is cancelled.
* Application list: the later of two overlapping writers undoes the earlier;
  `configure_apps` enables an entry that was disabled; when another writer removes
  a process just saved, the second read of the file raises `StopIteration`.
* Messages: an update that enables sending and fails to store its token leaves the
  mode with the older token; forgetting a token that comes from the environment
  saves the manual mode and then answers an error; a command's save that overlaps
  a change of the mode brings the old mode back. `SentWhileOn` holds in all of them.
* Language: "inicia el matchmaking en league" is read as opening an application, or
  as nothing, although the fallback is meant to leave the built-in integrations
  their sentences (`intents.py:917-920`); `BuiltInsKeepTheirIntents` excepts it by
  name (`LosesItsGame`). A ":" in a dictated text can be taken as the separator:
  what precedes it becomes part of the recipient, and the message is refused because
  there is no such contact. Two commands may be given the same phrase, and the first
  wins. A telephone without its country, or an address with a bad port, is recognised
  and then refused by the tool; two
  fields side by side in an edited phrase are accepted and ambiguous; switching off
  one of several commands of a tool does not silence the tool's built-in phrases; a
  structured `tool_call` is not compared with the catalogue; some alternatives of
  the Discord and WhatsApp patterns can never be reached.

## Not modelled

Rendering, hardware access, message schemas, the spelling of URLs and texts (only the
outcome of their checks is in `Intents`), read-only
diagnostics, command-line tools, installers and vendored code keep no state that a
model would add to. The audio primitives of the firmware and of the app are not
connected to a capture and are left out. The unlock credential provider answers
constants while unlock is disabled at compile time. Cryptography is taken as ideal.
A crash of the agent loses its state, since only the device registry and the
configuration files are stored; restarts are actions of the link modules and of
`Unlock`. See `PROJECT.json` for the reason of each part.

## What is left

The device's confirmation screen composed with the core: an error followed by
`ui_state` confirm (`core.py:331-339`) clears the device's confirmation
(`pipa_protocol.cpp:214-220`, `329-333`) while the core keeps it. It needs the
screen's state in the link modules, which keep only handshakes and heartbeats.
