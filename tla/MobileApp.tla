------------------------------ MODULE MobileApp ------------------------------
(***************************************************************************)
(* The iPhone app: PipaMobileViewModel on the main actor and one           *)
(* PipaMobileTCPClient actor for each connection it makes.                 *)
(*                                                                         *)
(* An action is what one actor does between two awaits. Awaits of the      *)
(* network end with an answer or with the client's own timeouts. Tasks     *)
(* that are queued for a client run in the order in which they were        *)
(* created. The agent may answer anything that decrypts; messages are      *)
(* told apart by what apply makes of them.                                 *)
(***************************************************************************)
EXTENDS Naturals

CONSTANTS
    MAX_CLIENTS,    \* bound: client objects, one for each connect()
    Text,           \* commands the user types
    Structured,     \* catalog commands with arguments, bound by a digest
    Confirm,        \* the request that resolves a confirmation
    None

Client == 1..MAX_CLIENTS
Command == Text \cup Structured

ASSUME AppConstants ==
    /\ MAX_CLIENTS \in Nat
    /\ None \notin Client \cup Command \cup {Confirm}
    /\ Confirm \notin Command
    /\ Text \cap Structured = {}

VARIABLES
    client,             \* of the view model
    uiState,            \* connectionState
    connectInProgress,
    requestInProgress,
    operationTask,      \* the client whose connect task it is
    catalog,            \* the client whose commands are shown
    editable,           \* the editor may be open: it stays when the catalog goes
    pending,            \* pendingConfirmation
    preview,            \* pendingLocalPreview
    digest,             \* pendingLocalRequestDigest
    connecting,         \* place of a client's connect task
    cancelled,          \* connect tasks that were cancelled
    request,            \* place of the request task on a client
    sent,               \* ... and what it asks for
    stale,              \* requests of an earlier sessionGeneration
    closeTask,          \* clients with a task that awaits disconnect()
    open,               \* clients with a connection
    left,               \* clients that disconnect() dropped (history)
    early               \* a request used a client before it was connected (history)

screenVars == <<uiState, catalog, editable, pending, preview, digest>>
flagVars   == <<client, connectInProgress, requestInProgress, operationTask>>
taskVars   == <<connecting, cancelled, request, sent, stale, closeTask>>
vars == <<screenVars, flagVars, taskVars, open, left, early>>

\* A confirmation on the screen: the command it answers, on which client, and
\* the command whose text is shown with it.
Pending == [of : Command, by : Client, shown : Command \cup {None}]

TypeOK ==
    /\ client \in Client \cup {None} /\ operationTask \in Client \cup {None}
    /\ catalog \in Client \cup {None}
    /\ uiState \in {"disconnected", "connecting", "connected", "awaiting"}
    /\ connectInProgress \in BOOLEAN /\ requestInProgress \in BOOLEAN
    /\ pending \in Pending \cup {None}
    /\ preview \in Command \cup {None} /\ digest \in Structured \cup {None}
    /\ connecting \in [Client -> {"none", "queued", "handshake", "announce",
                                  "connected", "catalog", "got", "failed",
                                  "caught", "leaving", "done"}]
    /\ request \in [Client -> {"none", "queued", "sent", "answered", "failed"}]
    /\ sent \in [Client -> Command \cup {Confirm, None}]
    /\ cancelled \subseteq Client /\ stale \subseteq Client
    /\ closeTask \subseteq Client /\ open \subseteq Client /\ left \subseteq Client
    /\ early \in BOOLEAN /\ editable \in BOOLEAN

Init ==
    /\ client = None /\ operationTask = None /\ catalog = None
    /\ uiState = "disconnected"
    /\ connectInProgress = FALSE /\ requestInProgress = FALSE
    /\ pending = None /\ preview = None /\ digest = None
    /\ connecting = [k \in Client |-> "none"]
    /\ request = [k \in Client |-> "none"]
    /\ sent = [k \in Client |-> None]
    /\ cancelled = {} /\ stale = {} /\ closeTask = {} /\ open = {} /\ left = {}
    /\ early = FALSE /\ editable = FALSE

IsConnected == uiState \in {"connected", "awaiting"}

-----------------------------------------------------------------------------
(* The user and the screen: steps of the main actor *)

ClearCommandDraft == pending' = None /\ preview' = None /\ digest' = None

\* fail(): the label changes, also when there is a session.
Fail(state) == IF pending = None THEN "disconnected" ELSE state

Connect(k) ==
    /\ uiState = "disconnected" /\ client = None /\ ~connectInProgress
    /\ connecting[k] = "none" /\ \A j \in 1..(k - 1) : connecting[j] # "none"
    /\ client' = k /\ operationTask' = k
    /\ connectInProgress' = TRUE
    /\ uiState' = "connecting"
    /\ connecting' = [connecting EXCEPT ![k] = "queued"]
    /\ UNCHANGED <<requestInProgress, catalog, editable, pending, preview, digest, cancelled,
                   request, sent, stale, closeTask, open, left, early>>

\* connect() without an identity or a valid address.
ConnectFails ==
    /\ uiState = "disconnected" /\ client = None /\ ~connectInProgress
    /\ uiState' = Fail("connecting")
    /\ UNCHANGED <<catalog, editable, pending, preview, digest, flagVars, taskVars, open, left, early>>

\* prepareIdentity fails, or fields of a command are not valid.
FailLocally ==
    /\ uiState' = Fail(uiState)
    /\ UNCHANGED <<catalog, editable, pending, preview, digest, flagVars, taskVars, open, left, early>>

\* sessionGeneration += 1 and requestTask?.cancel().
NextGeneration == stale \cup {k \in Client : request[k] # "none"}

\* Task { await activeClient?.disconnect() }
NoCloseTask(k) == closeTask
CloseTask(k) == closeTask \cup ({k} \ {None})

Disconnect ==
    /\ stale' = NextGeneration
    /\ cancelled' = cancelled \cup ({operationTask} \ {None})
    /\ operationTask' = None
    /\ connectInProgress' = FALSE /\ requestInProgress' = FALSE
    /\ closeTask' = CloseTask(client)
    /\ left' = left \cup ({client} \ {None})
    /\ client' = None
    /\ catalog' = None
    /\ ClearCommandDraft
    /\ uiState' = "disconnected"
    /\ UNCHANGED <<editable, connecting, request, sent, open, early>>

\* The button, or the app leaves the foreground.
UserDisconnects == Disconnect

ForgetConnectionSettings ==
    IF IsConnected
    THEN Disconnect
    ELSE /\ ClearCommandDraft
         /\ UNCHANGED <<uiState, catalog, editable, flagVars, taskVars, open, left, early>>

StartRequest(m) ==
    /\ requestInProgress' = TRUE
    /\ request' = [request EXCEPT ![client] = "queued"]
    /\ sent' = [sent EXCEPT ![client] = m]
    /\ early' = (early \/ connecting[client] # "done")
    /\ UNCHANGED <<uiState, catalog, editable, client, connectInProgress, operationTask,
                   connecting, cancelled, stale, closeTask, open, left>>

MaySend == ~requestInProgress /\ pending = None /\ client # None

SendTextCommand(m) ==
    /\ MaySend /\ IsConnected
    /\ preview' = m
    /\ UNCHANGED <<digest, pending>>
    /\ StartRequest(m)

\* From the catalog or from the editor, which both outlive a session.
SendStructuredCommand(m) ==
    /\ MaySend /\ editable
    /\ preview' = m /\ digest' = m
    /\ UNCHANGED pending
    /\ StartRequest(m)

MayResolve == ~requestInProgress /\ pending # None /\ client # None

ResolveConfirmation ==
    /\ MayResolve
    /\ ClearCommandDraft
    /\ StartRequest(Confirm)

\* A stale approval is not sent.
ResolveExpired == MayResolve /\ Disconnect

User ==
    \/ \E k \in Client : Connect(k)
    \/ ConnectFails \/ FailLocally
    \/ UserDisconnects \/ ForgetConnectionSettings
    \/ \E m \in Text : SendTextCommand(m)
    \/ \E m \in Structured : SendStructuredCommand(m)
    \/ ResolveConfirmation \/ ResolveExpired

-----------------------------------------------------------------------------
(* The task of connect() *)

ConnectTaskAt(k, place) == connecting' = [connecting EXCEPT ![k] = place]

\* disconnect() of the client.
CloseConnection(k) == open' = open \ {k}

OnActor == UNCHANGED <<screenVars, flagVars, cancelled, request, sent, stale,
                       closeTask, left, early>>

BeginConnect(k) ==
    /\ connecting[k] = "queued"
    /\ open' = open \cup {k}
    /\ ConnectTaskAt(k, "handshake")
    /\ OnActor

\* A wait of the task that succeeds needs the connection it started with.
Waiting(k, place) == connecting[k] = place /\ k \in open

HandshakeDone(k) ==
    /\ Waiting(k, "handshake")
    /\ ConnectTaskAt(k, "announce")
    /\ UNCHANGED open /\ OnActor

Announced(k) ==
    /\ Waiting(k, "announce")
    /\ ConnectTaskAt(k, "connected")
    /\ UNCHANGED open /\ OnActor

CatalogArrives(k) ==
    /\ Waiting(k, "catalog")
    /\ ConnectTaskAt(k, "got")
    /\ UNCHANGED open /\ OnActor

\* A catalog of the wrong form ends the task, not yet the connection.
CatalogIsInvalid(k) ==
    /\ Waiting(k, "catalog")
    /\ ConnectTaskAt(k, "failed")
    /\ UNCHANGED open /\ OnActor

\* Refused, cancelled, a timeout, a bad hello or record.
WaitFails(k) ==
    /\ connecting[k] \in {"handshake", "announce", "catalog"}
    /\ ConnectTaskAt(k, "failed")
    /\ CloseConnection(k)
    /\ OnActor

InFlight(k) == connecting[k] \in {"announce", "catalog"} \/ request[k] = "sent"

\* Task.isCancelled, in the task of client k.
AlwaysCancelled(k) == TRUE
IsCancelled(k) == k \in cancelled

\* Back on the main actor: the task asks for the catalog. send() refuses while
\* another request is in flight or without a connection.
ConnectReturns(k) ==
    /\ connecting[k] = "connected"
    /\ ConnectTaskAt(k, IF IsCancelled(k) THEN "leaving"
                        ELSE IF InFlight(k) \/ k \notin open THEN "failed"
                        ELSE "catalog")
    /\ UNCHANGED open
    /\ OnActor

CatalogReturns(k) ==
    /\ connecting[k] = "got"
    /\ IF IsCancelled(k)
       THEN /\ ConnectTaskAt(k, "leaving")
            /\ UNCHANGED <<catalog, editable, connectInProgress, uiState>>
       ELSE /\ ConnectTaskAt(k, "done")
            /\ catalog' = k /\ editable' = TRUE
            /\ connectInProgress' = FALSE
            /\ uiState' = "connected"
    /\ UNCHANGED <<pending, preview, digest, client, requestInProgress, operationTask,
                   cancelled, request, sent, stale, closeTask, open, left, early>>

CloseAfterFailure(k) ==
    /\ connecting[k] = "failed"
    /\ ConnectTaskAt(k, "caught")
    /\ CloseConnection(k)
    /\ OnActor

\* The rest of the catch: client = nil, whichever client that is by now.
Caught(k) ==
    /\ connecting[k] = "caught"
    /\ ConnectTaskAt(k, "done")
    /\ connectInProgress' = FALSE
    /\ IF IsCancelled(k)
       THEN UNCHANGED <<client, uiState>>
       ELSE client' = None /\ uiState' = "disconnected"
    /\ UNCHANGED <<catalog, editable, pending, preview, digest, requestInProgress, operationTask,
                   cancelled, request, sent, stale, closeTask, open, left, early>>

\* A cancelled task closes its client and leaves.
Leave(k) ==
    /\ connecting[k] = "leaving"
    /\ ConnectTaskAt(k, "done")
    /\ CloseConnection(k)
    /\ connectInProgress' = FALSE
    /\ UNCHANGED <<screenVars, client, requestInProgress, operationTask, cancelled,
                   request, sent, stale, closeTask, left, early>>

ConnectTask(k) ==
    \/ BeginConnect(k) \/ HandshakeDone(k) \/ Announced(k)
    \/ CatalogArrives(k) \/ CatalogIsInvalid(k) \/ WaitFails(k)
    \/ ConnectReturns(k) \/ CatalogReturns(k)
    \/ CloseAfterFailure(k) \/ Caught(k) \/ Leave(k)

-----------------------------------------------------------------------------
(* The task of a request *)

RequestTaskAt(k, place) == request' = [request EXCEPT ![k] = place]

InSend == UNCHANGED <<screenVars, flagVars, connecting, cancelled, sent, stale,
                      closeTask, left, early>>

\* send(): refused while another one is in flight; without a record layer the
\* client is closed.
HasRecordLayer(k) == k \in open /\ connecting[k] # "handshake"

Send(k) ==
    /\ request[k] = "queued" /\ connecting[k] # "queued"
    /\ IF InFlight(k)
       THEN RequestTaskAt(k, "failed") /\ UNCHANGED open
       ELSE IF HasRecordLayer(k)
            THEN RequestTaskAt(k, "sent") /\ UNCHANGED open
            ELSE RequestTaskAt(k, "failed") /\ CloseConnection(k)
    /\ InSend

Receive(k) ==
    /\ request[k] = "sent" /\ k \in open
    /\ RequestTaskAt(k, "answered")
    /\ UNCHANGED open
    /\ InSend

SendFails(k) ==
    /\ request[k] = "sent"
    /\ RequestTaskAt(k, "failed")
    /\ CloseConnection(k)
    /\ InSend

\* apply: a command is answered with a result or with a confirmation, of the
\* command's digest if it has one; a confirmation is refused when another digest
\* is waiting for its own.
MayAsk(k) == sent[k] # Confirm /\ digest \in {None, sent[k]}

Asking(k) == [of |-> sent[k], by |-> k, shown |-> preview]

Ask(k) ==
    /\ MayAsk(k)
    /\ pending' = Asking(k)
    /\ uiState' = "awaiting"
    /\ preview' = None /\ digest' = None

ShowResult ==
    /\ UNCHANGED pending
    /\ uiState' = IF pending = None THEN "connected" ELSE uiState
    /\ preview' = None /\ digest' = None

NeverStale(k) == FALSE
Stale(k) == k \in stale

RequestDone(k) ==
    /\ RequestTaskAt(k, "none")
    /\ sent' = [sent EXCEPT ![k] = None]
    /\ stale' = stale \ {k}

\* What a task of an earlier generation returns is dropped.
ReturnStale(k) ==
    /\ request[k] \in {"answered", "failed"} /\ Stale(k)
    /\ RequestDone(k)
    /\ UNCHANGED <<screenVars, flagVars, connecting, cancelled, closeTask, open, left, early>>

Apply(k) ==
    /\ request[k] = "answered" /\ ~Stale(k)
    /\ Ask(k) \/ ShowResult
    /\ requestInProgress' = FALSE
    /\ RequestDone(k)
    /\ UNCHANGED <<catalog, editable, client, connectInProgress, operationTask, connecting,
                   cancelled, closeTask, open, left, early>>

\* closeAfterOperationFailure(k), when the view model has a client, be it k or not.
CloseAfterOperationFailure(k) ==
    /\ client # None
    /\ client' = None
    /\ ClearCommandDraft
    /\ requestInProgress' = FALSE
    /\ uiState' = "disconnected"
    /\ closeTask' = CloseTask(k)

\* The request failed, or apply returned false; without a client nothing else
\* happens then, but the flag is reset only after a failure, and a confirmation
\* whose ui_state is the part that is refused stays.
RequestFails(k) ==
    /\ ~Stale(k)
    /\ \/ /\ request[k] \in {"answered", "failed"}
          /\ CloseAfterOperationFailure(k)
       \/ /\ request[k] = "failed" /\ client = None
          /\ requestInProgress' = FALSE
          /\ UNCHANGED <<client, closeTask, uiState, pending, preview, digest>>
       \/ /\ request[k] = "answered" /\ client = None
          /\ Ask(k) \/ UNCHANGED <<uiState, pending, preview, digest>>
          /\ UNCHANGED <<client, closeTask, requestInProgress>>
    /\ RequestDone(k)
    /\ UNCHANGED <<catalog, editable, connectInProgress, operationTask, connecting, cancelled,
                   open, left, early>>

RequestTask(k) ==
    \/ Send(k) \/ Receive(k) \/ SendFails(k)
    \/ ReturnStale(k) \/ Apply(k) \/ RequestFails(k)

RunCloseTask(k) ==
    /\ k \in closeTask /\ connecting[k] # "queued"
    /\ closeTask' = closeTask \ {k}
    /\ CloseConnection(k)
    /\ UNCHANGED <<screenVars, flagVars, connecting, cancelled, request, sent,
                   stale, left, early>>

-----------------------------------------------------------------------------
Next == User \/ \E k \in Client : ConnectTask(k) \/ RequestTask(k) \/ RunCloseTask(k)

\* Tasks run: both actors go on, and every wait has a timeout. The user need
\* not do anything.
Fairness ==
    \A k \in Client :
        WF_vars(ConnectTask(k)) /\ WF_vars(RequestTask(k)) /\ WF_vars(RunCloseTask(k))

Spec == Init /\ [][Next]_vars /\ Fairness

-----------------------------------------------------------------------------
(* Properties *)

\* README of the app: a session that was left does not appear as connected
\* again. Nothing an old client still delivers reaches the screen, and the
\* screen says connected only of a client that finished connecting, unless a
\* command was sent while it connected.
OldSessionStaysGone ==
    /\ catalog \notin left
    /\ pending # None => pending.by \notin left
    /\ IsConnected /\ ~early => client # None /\ connecting[client] = "done"

\* The text that the approval screen shows is that of the command the agent
\* asks about, never of a command sent before or after it.
PreviewIsTrue == pending # None => pending.shown \in {None, pending.of}

\* A client that the view model let go of closes its connection, whichever task
\* still works on it.
AbandonedIsClosed ==
    \A k \in Client : k \in open /\ client # k ~> k \notin open \/ early

\* Connecting ends.
ConnectingEnds == uiState = "connecting" ~> uiState # "connecting" \/ early

-----------------------------------------------------------------------------
(* The inductive invariant *)

\* The request of client k is one whose answer the view model still takes.
Current(k) == request[k] # "none" /\ k \notin stale

\* The connect task in operationTask is that of the client in use, so that
\* disconnect() cancels the task of every client it drops.
ClientInv ==
    /\ client # None => /\ operationTask = client /\ client \notin left
                        /\ connecting[client] # "none"
    /\ left \subseteq cancelled
    /\ \A k \in left : connecting[k] # "none"

\* One answer at most is still taken, of a client that was not left, and the
\* preview that is kept belongs to it.
RequestInv ==
    \A k \in Client : Current(k) =>
        /\ requestInProgress /\ k \notin left
        /\ \A j \in Client : Current(j) => j = k
        /\ sent[k] # None
        /\ sent[k] # Confirm => preview \in {None, sent[k]}

\* Unless a request was sent early, what still connects and was not cancelled is
\* the client in use, and a request whose answer is taken is on a client that is
\* connected.
OnTimeInv ==
    ~early => \A k \in Client :
        /\ Current(k) => k = client /\ connecting[k] = "done"
        /\ connecting[k] \notin {"none", "done"} /\ k \notin cancelled => k = client

IInv ==
    /\ TypeOK
    /\ ClientInv
    /\ RequestInv
    /\ OnTimeInv
    /\ OldSessionStaysGone
    /\ PreviewIsTrue
=============================================================================
