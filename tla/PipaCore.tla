------------------------------ MODULE PipaCore ------------------------------
(***************************************************************************)
(* The local core: the registry of authenticated sessions (state.py), the  *)
(* manager of pending confirmations (confirmations.py), the tool router    *)
(* (tools.py) and PipaCore.handle (core.py), called concurrently by the    *)
(* transports: the asyncio loop of the WebSocket server, the serial        *)
(* gateway's thread and the loop of the secure TCP gateway.                *)
(*                                                                         *)
(* A thread serves one connection at a time. Registry and manager are each *)
(* guarded by a lock, so one step of the model is one critical section or  *)
(* a run of code that touches only the connection's own session object.    *)
(***************************************************************************)
EXTENDS Integers, FiniteSets

CONSTANTS
    Thread,                   \* transports that call the core
    Device,                   \* trusted devices
    Session,                  \* session_id values (secrets.token_urlsafe)
    Confirmation,             \* confirmation_id values
    None,                     \* Python's None
    MAX_SESSIONS,
    MAX_SESSIONS_PER_DEVICE,
    MAX_SESSION_IDLE,         \* MAX_SESSION_IDLE_SECONDS, in ticks
    TTL,                      \* DEFAULT_CONFIRMATION_TTL, in ticks
    MAX_PENDING,              \* MAX_PENDING_CONFIRMATIONS
    MAX_PENDING_PER_OWNER

\* A confirm message, with the verdict of the clock on its identifier.
Requests == [id : Confirmation, accepted : BOOLEAN, inTime : BOOLEAN]

ASSUME CoreConstants ==
    /\ None \notin Session /\ None \notin Requests
    /\ MAX_SESSIONS \in Nat /\ MAX_SESSIONS_PER_DEVICE \in Nat
    /\ MAX_SESSION_IDLE \in Nat \ {0}
    /\ TTL \in Nat \ {0}
    /\ MAX_PENDING \in Nat /\ MAX_PENDING_PER_OWNER \in Nat

VARIABLES
    registered,     \* SessionRegistry._sessions
    created,        \* identifiers handed out so far
    device,         \* DeviceSession.device_id
    canConfirm,     \* CONFIRMATION_CAPABILITIES.issubset(capabilities)
    helloDone,      \* DeviceSession.capabilities_initialized
    state,          \* DeviceSession.state
    idle,           \* now - DeviceSession.last_seen_at, up to the limit
    pending,        \* ConfirmationManager._pending
    issued,         \* confirmation identifiers handed out so far
    owner,          \* PendingConfirmation.owner_id
    left,           \* PendingConfirmation.expires_at - now, down to zero
    my,             \* session_id of the thread's connection
    pc,             \* where each thread is
    op,             \* the core method it is in
    todo,           \* pruned sessions whose confirmations are still to cancel
    req,            \* the confirm message being resolved, with the verdict of
                    \* the clock that consume reads before it locks
    shown,          \* the ui_state the device was last told (observation)
    acceptedBy,     \* session whose accept consumed a confirmation (history)
    ran             \* number of times its handler was started (history)

registryVars == <<registered, created, device, canConfirm, helloDone, idle>>
managerVars  == <<pending, issued, owner, left>>
threadVars   == <<my, pc, op, todo, req>>
uiVars       == <<state, shown>>
historyVars  == <<acceptedBy, ran>>
vars == <<registryVars, managerVars, threadVars, uiVars, historyVars>>

UiStates == {"idle", "listening", "thinking", "confirm"}
Places == {"rest", "prune", "cancel", "create", "get", "touch", "body",
           "tool", "consume", "exec", "fail", "remove"}
Ops == {"handle", "transcript"}

TypeOK ==
    /\ registered \subseteq created /\ created \subseteq Session
    /\ device \in [Session -> Device \cup {None}]
    /\ canConfirm \in [Session -> BOOLEAN]
    /\ helloDone \in [Session -> BOOLEAN]
    /\ state \in [Session -> UiStates]
    /\ shown \in [Session -> UiStates]
    /\ idle \in [Session -> 0..MAX_SESSION_IDLE]
    /\ pending \subseteq issued /\ issued \subseteq Confirmation
    /\ owner \in [Confirmation -> Session \cup {None}]
    /\ left \in [Confirmation -> 0..TTL]
    /\ my \in [Thread -> Session \cup {None}]
    /\ pc \in [Thread -> Places]
    /\ op \in [Thread -> Ops]
    /\ todo \in [Thread -> SUBSET Session]
    /\ req \in [Thread -> Requests \cup {None}]
    /\ acceptedBy \in [Confirmation -> Session \cup {None}]
    /\ ran \in [Confirmation -> Nat]

Init ==
    /\ registered = {} /\ created = {}
    /\ device = [s \in Session |-> None]
    /\ canConfirm = [s \in Session |-> FALSE]
    /\ helloDone = [s \in Session |-> FALSE]
    /\ state = [s \in Session |-> "idle"]
    /\ shown = [s \in Session |-> "idle"]
    /\ idle = [s \in Session |-> 0]
    /\ pending = {} /\ issued = {}
    /\ owner = [c \in Confirmation |-> None]
    /\ left = [c \in Confirmation |-> 0]
    /\ my = [t \in Thread |-> None]
    /\ pc = [t \in Thread |-> "rest"]
    /\ op = [t \in Thread |-> "handle"]
    /\ todo = [t \in Thread |-> {}]
    /\ req = [t \in Thread |-> None]
    /\ acceptedBy = [c \in Confirmation |-> None]
    /\ ran = [c \in Confirmation |-> 0]

-----------------------------------------------------------------------------
(* Helpers *)

At(t, place) == pc[t] = place

\* A thread moves on inside a method, or returns from it and forgets its frame.
Goto(t, place) ==
    /\ pc' = [pc EXCEPT ![t] = place]
    /\ UNCHANGED <<op, req>>

Return(t) ==
    /\ pc' = [pc EXCEPT ![t] = "rest"]
    /\ op' = [op EXCEPT ![t] = "handle"]
    /\ req' = [req EXCEPT ![t] = None]

\* SessionRegistry._prune: the sessions whose last message is too old.
StaleTooEarly == {s \in registered : idle[s] + 1 >= MAX_SESSION_IDLE}
Stale == {s \in registered : idle[s] >= MAX_SESSION_IDLE}

\* The clock of the model: the code keeps the absolute expires_at and compares it
\* with time.time(); left is their difference, zero from the expiry on.
CountDown(n) == IF n > 0 THEN n - 1 ELSE 0

\* ConfirmationManager._prune: the confirmations that have expired.
Expired == {c \in pending : left[c] = 0}

\* ConfirmationManager.cancel_for_owner: what it deletes.
OwnedByNobody(s) == {c \in pending : owner[c] = None}
OwnedBy(s) == {c \in pending : owner[c] = s}

\* The deletion in ConfirmationManager.consume.
KeepEntry(c) == pending' = pending
DeleteEntry(c) == pending' = pending \ {c}

\* DeviceSession.set_state followed by the ui_message of the same reply.
SetStateSilently(s, ui) ==
    /\ state' = [state EXCEPT ![s] = ui]
    /\ UNCHANGED shown
ShowState(s, ui) ==
    /\ state' = [state EXCEPT ![s] = ui]
    /\ shown' = [shown EXCEPT ![s] = ui]

\* The gates of handle and handle_transcript: the device has said hello and
\* no confirmation is being asked.
ReadyWhileAsking(s) == helloDone[s]
Ready(s) == helloDone[s] /\ state[s] # "confirm"

-----------------------------------------------------------------------------
(* Authentication and pruning *)

\* time.time() moves on, also between two steps of a thread.
Tick ==
    /\ idle' = [s \in Session |->
                  IF s \in registered /\ idle[s] < MAX_SESSION_IDLE
                  THEN idle[s] + 1 ELSE idle[s]]
    /\ left' = [c \in Confirmation |-> CountDown(left[c])]
    /\ UNCHANGED <<registered, created, device, canConfirm, helloDone,
                   pending, issued, owner, threadVars, uiVars, historyVars>>

\* A hello reaches an unauthenticated v1 connection, or a message reaches an
\* authenticated one: both methods begin with _prune_stale_sessions.
Receive(t) ==
    /\ At(t, "rest")
    /\ Goto(t, "prune")
    /\ UNCHANGED <<registryVars, managerVars, my, todo, uiVars, historyVars>>

\* handle_transcript does not prune.
ReceiveTranscript(t) ==
    /\ At(t, "rest") /\ my[t] # None
    /\ pc' = [pc EXCEPT ![t] = "get"]
    /\ op' = [op EXCEPT ![t] = "transcript"]
    /\ UNCHANGED <<registryVars, managerVars, my, todo, req, uiVars,
                   historyVars>>

AfterPrune(t) == IF my[t] = None THEN "create" ELSE "get"

\* SessionRegistry.prune, under the registry's lock.
PruneSessions(t) ==
    /\ At(t, "prune")
    /\ registered' = registered \ Stale
    /\ todo' = [todo EXCEPT ![t] = Stale]
    /\ Goto(t, IF Stale = {} THEN AfterPrune(t) ELSE "cancel")
    /\ UNCHANGED <<created, device, canConfirm, helloDone, idle,
                   managerVars, my, uiVars, historyVars>>

\* The loop of _prune_stale_sessions: one lock of the manager per session.
CancelStale(t) ==
    /\ At(t, "cancel")
    /\ \E s \in todo[t] :
          /\ pending' = pending \ OwnedBy(s)
          /\ todo' = [todo EXCEPT ![t] = @ \ {s}]
          /\ Goto(t, IF todo[t] = {s} THEN AfterPrune(t) ELSE "cancel")
    /\ UNCHANGED <<registryVars, issued, owner, left, my, uiVars,
                   historyVars>>

\* SessionRegistry.create: it prunes, without returning whom it pruned, and
\* then enforces both limits.
HasRoom(d) ==
    LET kept == registered \ Stale IN
    /\ Cardinality(kept) < MAX_SESSIONS
    /\ Cardinality({x \in kept : device[x] = d}) < MAX_SESSIONS_PER_DEVICE

CreateSession(t, d, can, hello) ==
    /\ HasRoom(d)
    /\ \E s \in Session \ created :
          /\ registered' = (registered \ Stale) \cup {s}
          /\ created' = created \cup {s}
          /\ device' = [device EXCEPT ![s] = d]
          /\ canConfirm' = [canConfirm EXCEPT ![s] = can]
          /\ helloDone' = [helloDone EXCEPT ![s] = hello]
          /\ idle' = [idle EXCEPT ![s] = 0]
          /\ my' = [my EXCEPT ![t] = s]
          /\ ShowState(s, "idle")
    /\ Return(t)
    /\ UNCHANGED <<managerVars, todo, historyVars>>

SessionLimit(t, d) ==
    /\ ~HasRoom(d)
    /\ registered' = registered \ Stale
    /\ Return(t)
    /\ UNCHANGED <<created, device, canConfirm, helloDone, idle,
                   managerVars, my, todo, uiVars, historyVars>>

\* PipaCore.authenticate after the prune: the signature is checked (module
\* Verifier), then the session is created with the capabilities of the hello.
Authenticate(t) ==
    /\ At(t, "create")
    /\ \E d \in Device :
          \/ \E can \in BOOLEAN : CreateSession(t, d, can, TRUE)
          \/ SessionLimit(t, d)

AuthenticationFails(t) ==
    /\ At(t, "create")
    /\ Return(t)
    /\ UNCHANGED <<registryVars, managerVars, my, todo, uiVars,
                   historyVars>>

\* SecureCoreConnection.accept_client_hello creates the session directly: no
\* prune of the core before it, capabilities unknown until device_hello.
AcceptClientHello(t) ==
    /\ At(t, "rest") /\ my[t] = None
    /\ \E d \in Device : CreateSession(t, d, FALSE, FALSE) \/ SessionLimit(t, d)

\* PipaCore.close: two critical sections, the confirmations first.
BeginClose(t) ==
    /\ At(t, "rest") /\ my[t] # None
    /\ pending' = pending \ OwnedBy(my[t])
    /\ Goto(t, "remove")
    /\ UNCHANGED <<registryVars, issued, owner, left, my, todo,
                   uiVars, historyVars>>

\* The session object is garbage from here on: its fields are cleared.
RemoveSession(t) ==
    /\ At(t, "remove")
    /\ registered' = registered \ {my[t]}
    /\ my' = [my EXCEPT ![t] = None]
    /\ device' = [device EXCEPT ![my[t]] = None]
    /\ idle' = [idle EXCEPT ![my[t]] = 0]
    /\ canConfirm' = [canConfirm EXCEPT ![my[t]] = FALSE]
    /\ helloDone' = [helloDone EXCEPT ![my[t]] = FALSE]
    /\ ShowState(my[t], "idle")
    /\ Return(t)
    /\ UNCHANGED <<created, managerVars, todo, historyVars>>

-----------------------------------------------------------------------------
(* PipaCore.handle *)

GetSession(t) ==
    /\ At(t, "get")
    /\ \/ my[t] \in registered /\ Goto(t, "touch")
       \/ my[t] \notin registered /\ Return(t)
    /\ UNCHANGED <<registryVars, managerVars, my, todo, uiVars,
                   historyVars>>

Touch(t) ==
    /\ At(t, "touch")
    /\ idle' = [idle EXCEPT ![my[t]] = 0]
    /\ Goto(t, "body")
    /\ UNCHANGED <<registered, created, device, canConfirm, helloDone,
                   managerVars, my, todo, uiVars, historyVars>>

Handling(t) == At(t, "body") /\ op[t] = "handle"

\* The message types that only answer, and every refusal of a gate: ping,
\* device_status, gesture, catalog_request, device_hello when not expected,
\* device_hello_required, confirmation_required, unsupported_message.
Acknowledge(t) ==
    /\ At(t, "body")
    /\ Return(t)
    /\ UNCHANGED <<registryVars, managerVars, my, todo, uiVars,
                   historyVars>>

DeviceHello(t) ==
    /\ Handling(t) /\ ~helloDone[my[t]]
    /\ helloDone' = [helloDone EXCEPT ![my[t]] = TRUE]
    /\ \E can \in BOOLEAN : canConfirm' = [canConfirm EXCEPT ![my[t]] = can]
    /\ Return(t)
    /\ UNCHANGED <<registered, created, device, idle, managerVars,
                   my, todo, uiVars, historyVars>>

\* wake and hold_start listen; hold_end and audio_end, an unrecognized text
\* and a digest that does not match answer an error and go idle.
Listen(t) ==
    /\ Handling(t) /\ Ready(my[t])
    /\ ShowState(my[t], "listening")
    /\ Return(t)
    /\ UNCHANGED <<registryVars, managerVars, my, todo, historyVars>>

AnswerIdle(t) ==
    /\ At(t, "body") /\ Ready(my[t])
    /\ ShowState(my[t], "idle")
    /\ Return(t)
    /\ UNCHANGED <<registryVars, managerVars, my, todo, historyVars>>

Abort(t) ==
    /\ Handling(t)
    /\ pending' = pending \ OwnedBy(my[t])
    /\ ShowState(my[t], "idle")
    /\ Return(t)
    /\ UNCHANGED <<registryVars, issued, owner, left, my, todo,
                   historyVars>>

-----------------------------------------------------------------------------
(* _run_tool: text_input, tool_call and a transcript *)

StartTool(t) ==
    /\ At(t, "body") /\ Ready(my[t])
    /\ state' = [state EXCEPT ![my[t]] = "thinking"]
    /\ Goto(t, "tool")
    /\ UNCHANGED <<registryVars, managerVars, my, todo, shown,
                   historyVars>>

\* A safe tool and the memory tools complete or fail; an unknown or invalid
\* one, and an unsafe one without screen and touch, are refused.
FinishTool(t) ==
    /\ At(t, "tool")
    /\ ShowState(my[t], "idle")
    /\ Return(t)
    /\ UNCHANGED <<registryVars, managerVars, my, todo, historyVars>>

\* ConfirmationManager.create for an unsafe tool: prune, limits, insert.
HasPendingRoom(s) ==
    LET kept == pending \ Expired IN
    /\ Cardinality(kept) < MAX_PENDING
    /\ Cardinality({c \in kept : owner[c] = s}) < MAX_PENDING_PER_OWNER

\* The capability check of _run_tool before it asks the router.
HasScreen(s) == canConfirm[s]

NeedsConfirmation(t) ==
    /\ At(t, "tool") /\ HasScreen(my[t]) /\ HasPendingRoom(my[t])
    /\ \E c \in Confirmation \ issued :
          /\ pending' = (pending \ Expired) \cup {c}
          /\ issued' = issued \cup {c}
          /\ owner' = [owner EXCEPT ![c] = my[t]]
          /\ left' = [left EXCEPT ![c] = TTL]
    /\ ShowState(my[t], "confirm")
    /\ Return(t)
    /\ UNCHANGED <<registryVars, my, todo, historyVars>>

TooManyPending(t) ==
    /\ At(t, "tool") /\ HasScreen(my[t]) /\ ~HasPendingRoom(my[t])
    /\ pending' = pending \ Expired
    /\ ShowState(my[t], "idle")
    /\ Return(t)
    /\ UNCHANGED <<registryVars, issued, owner, left, my, todo,
                   historyVars>>

-----------------------------------------------------------------------------
(* confirm: ToolRouter.resolve_confirmation *)

\* The message names any identifier; consume reads the clock before it locks.
Confirm(t) ==
    /\ Handling(t) /\ helloDone[my[t]]
    /\ \E c \in Confirmation, yes \in BOOLEAN :
          req' = [req EXCEPT ![t] =
                    [id |-> c, accepted |-> yes, inTime |-> left[c] > 0]]
    /\ pc' = [pc EXCEPT ![t] = "consume"]
    /\ op' = op
    /\ UNCHANGED <<registryVars, managerVars, my, todo, uiVars,
                   historyVars>>

\* The conditions of ConfirmationManager.consume.
ConsumableByAnyone(r, s) == r.id \in pending /\ r.inTime
Consumable(r, s) ==
    /\ r.id \in pending
    /\ r.inTime
    /\ owner[r.id] = s

ConsumeAccepted(t) ==
    /\ At(t, "consume")
    /\ LET c == req[t].id IN
          /\ req[t].accepted /\ Consumable(req[t], my[t])
          /\ DeleteEntry(c)
          /\ acceptedBy' = [acceptedBy EXCEPT ![c] = my[t]]
    /\ Goto(t, "exec")
    /\ UNCHANGED <<registryVars, issued, owner, left, my, todo,
                   uiVars, ran>>

ConsumeRejected(t) ==
    /\ At(t, "consume")
    /\ LET c == req[t].id IN
          /\ ~req[t].accepted /\ Consumable(req[t], my[t])
          /\ DeleteEntry(c)
    /\ ShowState(my[t], "idle")
    /\ Return(t)
    /\ UNCHANGED <<registryVars, issued, owner, left, my, todo,
                   historyVars>>

ConsumeFails(t) ==
    /\ At(t, "consume")
    /\ ~Consumable(req[t], my[t])
    /\ Goto(t, "fail")
    /\ UNCHANGED <<registryVars, managerVars, my, todo, uiVars,
                   historyVars>>

\* _execute: the handler runs and returns; or it raises, having acted or not;
\* or the arguments no longer validate and it is never called.
Execute(t) ==
    /\ At(t, "exec")
    /\ ran' = [ran EXCEPT ![req[t].id] = @ + 1]
    /\ ShowState(my[t], "idle")
    /\ Return(t)
    /\ UNCHANGED <<registryVars, managerVars, my, todo, acceptedBy>>

ExecuteRaises(t) ==
    /\ At(t, "exec")
    /\ \/ ran' = [ran EXCEPT ![req[t].id] = @ + 1]
       \/ ran' = ran
    /\ Goto(t, "fail")
    /\ UNCHANGED <<registryVars, managerVars, my, todo, uiVars,
                   acceptedBy>>

\* Both except clauses: cancel what the session still owns and go idle.
ConfirmationFailed(t) ==
    /\ At(t, "fail")
    /\ pending' = pending \ OwnedBy(my[t])
    /\ ShowState(my[t], "idle")
    /\ Return(t)
    /\ UNCHANGED <<registryVars, issued, owner, left, my, todo,
                   historyVars>>

-----------------------------------------------------------------------------
Connection(t) ==
    \/ Receive(t) \/ ReceiveTranscript(t)
    \/ AcceptClientHello(t)
    \/ PruneSessions(t) \/ CancelStale(t)
    \/ Authenticate(t) \/ AuthenticationFails(t)
    \/ BeginClose(t) \/ RemoveSession(t)

Handle(t) ==
    \/ GetSession(t) \/ Touch(t)
    \/ Acknowledge(t) \/ DeviceHello(t)
    \/ Listen(t) \/ AnswerIdle(t) \/ Abort(t)
    \/ StartTool(t) \/ FinishTool(t) \/ NeedsConfirmation(t) \/ TooManyPending(t)
    \/ Confirm(t) \/ ConsumeAccepted(t) \/ ConsumeRejected(t) \/ ConsumeFails(t)
    \/ Execute(t) \/ ExecuteRaises(t) \/ ConfirmationFailed(t)

Next == Tick \/ \E t \in Thread : Connection(t) \/ Handle(t)

Spec == Init /\ [][Next]_vars

-----------------------------------------------------------------------------
(* Properties *)

\* A confirmation still pending belongs to a session that is showing the
\* confirmation screen, or whose failed answer is about to cancel it: the gates
\* of handle leave no way to start other work over a pending action. (Stated
\* for the session object, registered or not.)
PendingIsAsked ==
    \A c \in pending :
        \/ state[owner[c]] = "confirm"
        \/ \E t \in Thread : my[t] = owner[c] /\ At(t, "fail")

\* A session never has two actions waiting: MAX_PENDING_PER_OWNER = 4 is a
\* limit that the state machine of handle never lets a device reach.
OnePendingPerSession ==
    \A c, e \in pending : owner[c] = owner[e] => c = e

\* Whatever the threads do, the handler of a confirmed action starts at most
\* once, and only after its own session accepted it.
RunsAtMostOnce ==
    \A c \in Confirmation :
        /\ ran[c] <= 1
        /\ ran[c] = 1 => acceptedBy[c] = owner[c] /\ c \notin pending

\* Unsafe work is only ever pending for a device that declared a screen and a
\* touch panel; capabilities cannot change under a pending confirmation.
ConfirmNeedsScreen == \A c \in pending : canConfirm[owner[c]]

\* A method that returned left the device told of the session's state, and
\* never in "thinking": every path of handle that changes the state ends in a
\* ui_message with a state the user can leave.
UiInSync ==
    \A t \in Thread :
        At(t, "rest") /\ my[t] # None =>
            /\ shown[my[t]] = state[my[t]]
            /\ state[my[t]] # "thinking"

\* No two connections ever speak for the same session.
SessionHasOneConnection ==
    \A t, u \in Thread : my[t] = my[u] /\ my[t] # None => t = u

\* A session leaves the registry only when its own connection closes it or when
\* it has been silent for MAX_SESSION_IDLE_SECONDS: neither the limits nor the
\* prune that another connection triggers evict a live device.
OnlyIdleSessionsAreDropped ==
    [][\A s \in registered \ registered' :
          \/ idle[s] = MAX_SESSION_IDLE
          \/ \E t \in Thread : my[t] = s /\ At(t, "remove")]_vars

\* A confirmation is a one-use token held by its session: an expired, rejected,
\* aborted or cancelled one never runs, and a retried one never runs twice.
Stage(c) ==
    IF c \notin issued THEN "fresh"
    ELSE IF c \in pending THEN "live"
    ELSE IF acceptedBy[c] = None THEN "void"
    ELSE IF ran[c] = 0 THEN "spent"
    ELSE "used"

Tokens == INSTANCE OneUse WITH
    Token <- Confirmation, Holder <- Session, NoHolder <- None,
    stage <- [c \in Confirmation |-> Stage(c)],
    holder <- owner, redeemer <- acceptedBy

ConfirmationIsOneUse == Tokens!TokenSpec

-----------------------------------------------------------------------------
(* The inductive invariant *)

\* The places of a thread that serves a session, and those of one that does not.
InSession == {"get", "touch", "body", "tool", "consume", "exec", "fail", "remove"}

\* Frames: which places have a session, a request and a live identifier.
FramesInv ==
    \A t \in Thread :
        /\ pc[t] \in InSession => my[t] # None
        /\ At(t, "create") => my[t] = None
        /\ my[t] # None => my[t] \in created
        /\ pc[t] \in {"consume", "exec"} => req[t] # None

\* What is known of a confirmation that is not issued yet or still pending.
TokensInv ==
    /\ \A c \in Confirmation \ issued : ran[c] = 0 /\ acceptedBy[c] = None
    /\ \A c \in pending : ran[c] = 0 /\ acceptedBy[c] = None
    /\ \A c \in issued : owner[c] \in created

\* Pending work is owned by a ready, capable session; a thread past the point
\* where that session's work was consumed or cancelled owns nothing pending.
OwnersInv ==
    /\ \A c \in pending : helloDone[owner[c]] /\ canConfirm[owner[c]]
    /\ \A t \in Thread :
          pc[t] \in {"exec", "remove"} => OwnedBy(my[t]) = {}

\* Inside _run_tool the session thinks; elsewhere the device's screen is right.
ScreensInv ==
    \A t \in Thread :
        IF At(t, "tool")
        THEN state[my[t]] = "thinking" /\ helloDone[my[t]]
        ELSE my[t] # None => shown[my[t]] = state[my[t]] /\ state[my[t]] # "thinking"

\* A handler about to run: consumed by its owner, never run before.
RunningInv ==
    \A t \in Thread :
        At(t, "exec") =>
            /\ req[t].id \in issued \ pending
            /\ acceptedBy[req[t].id] = my[t] /\ owner[req[t].id] = my[t]
            /\ ran[req[t].id] = 0

IInv ==
    /\ TypeOK
    /\ SessionHasOneConnection
    /\ FramesInv
    /\ TokensInv
    /\ OwnersInv
    /\ PendingIsAsked
    /\ OnePendingPerSession
    /\ ScreensInv
    /\ RunningInv
    /\ RunsAtMostOnce
=============================================================================
