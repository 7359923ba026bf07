--------------------------- MODULE PipaCoreProofs ---------------------------
(***************************************************************************)
(* Proofs about PipaCore for any number of transports, devices, sessions   *)
(* and confirmations, and any limits and timeouts, and about the sentences *)
(* it routes (TextCommands) for any vocabulary and any edits of the panel. *)
(***************************************************************************)
EXTENDS PipaCore, TextCommands, TLAPS

\* A countdown of a confirmation's lifetime stays within it.
LEMMA CountDownType ==
    ASSUME NEW n \in 0..TTL
    PROVE  CountDown(n) \in 0..TTL
  BY CoreConstants DEF CountDown

\* Updating one entry keeps a function in its set.
LEMMA Update ==
    ASSUME NEW S, NEW R, NEW f \in [S -> R], NEW x, NEW v \in R
    PROVE  [f EXCEPT ![x] = v] \in [S -> R]
  OBVIOUS

\* Type correctness of the core: every field of sessions, confirmations and
\* threads stays in its domain, and only identifiers handed out are in use.
LEMMA TypeInit == Init => TypeOK
  BY CoreConstants DEF Init, TypeOK, UiStates, Places, Ops

LEMMA TypeStep == TypeOK /\ [Next]_vars => TypeOK'
  <1> SUFFICES ASSUME TypeOK, [Next]_vars
               PROVE  TypeOK'
    OBVIOUS
  <1> USE CoreConstants DEF TypeOK, registryVars, managerVars, threadVars,
          uiVars, historyVars, At, Goto, Return, ShowState
  <1>1. CASE Tick
    BY <1>1, CountDownType DEF Tick
  <1>2. ASSUME NEW t \in Thread, Connection(t)
        PROVE  TypeOK'
    <2>1. CASE Receive(t)
      BY <2>1 DEF Receive, Places
    <2>2. CASE ReceiveTranscript(t)
      BY <2>2 DEF ReceiveTranscript, Places, Ops
    <2>3. ASSUME NEW d \in Device, NEW can \in BOOLEAN, NEW hello \in BOOLEAN,
                 CreateSession(t, d, can, hello)
          PROVE  TypeOK'
      BY <2>3 DEF CreateSession, Places, Ops, UiStates
    <2>4. ASSUME NEW d \in Device, SessionLimit(t, d)
          PROVE  TypeOK'
      BY <2>4 DEF SessionLimit, Places, Ops
    <2>5. CASE AcceptClientHello(t)
      <3> HIDE DEF TypeOK
      <3>1. PICK d \in Device : CreateSession(t, d, FALSE, FALSE) \/ SessionLimit(t, d)
        BY <2>5 DEF AcceptClientHello
      <3>2. QED
        BY <2>3, <2>4, <3>1
    <2>6. CASE PruneSessions(t)
      BY <2>6 DEF PruneSessions, Places, Stale, AfterPrune
    <2>7. CASE CancelStale(t)
      BY <2>7 DEF CancelStale, Places, OwnedBy, AfterPrune
    <2>8. CASE Authenticate(t)
      <3> HIDE DEF TypeOK
      <3>1. PICK d \in Device : \/ \E can \in BOOLEAN : CreateSession(t, d, can, TRUE)
                                 \/ SessionLimit(t, d)
        BY <2>8 DEF Authenticate
      <3>2. QED
        BY <2>3, <2>4, <3>1
    <2>9. CASE AuthenticationFails(t)
      BY <2>9 DEF AuthenticationFails, Places, Ops
    <2>10. CASE BeginClose(t)
      BY <2>10 DEF BeginClose, Places, OwnedBy
    <2>11. CASE RemoveSession(t)
      <3>1. idle' \in [Session -> 0..MAX_SESSION_IDLE]
        <4>1. 0 \in 0..MAX_SESSION_IDLE
          OBVIOUS
        <4>2. QED
          BY <2>11, <4>1, Update DEF RemoveSession
      <3>2. canConfirm' \in [Session -> BOOLEAN] /\ helloDone' \in [Session -> BOOLEAN]
        BY <2>11 DEF RemoveSession
      <3>3. QED
        BY <2>11, <3>1, <3>2 DEF RemoveSession, Places, Ops, UiStates
    <2>12. QED
      BY <1>2, <2>1, <2>2, <2>5, <2>6, <2>7, <2>8, <2>9, <2>10, <2>11
         DEF Connection
  <1>3. ASSUME NEW t \in Thread, Handle(t)
        PROVE  TypeOK'
    <2>1. CASE GetSession(t)
      BY <2>1 DEF GetSession, Places, Ops
    <2>15. CASE Touch(t)
      <3>1. idle' \in [Session -> 0..MAX_SESSION_IDLE]
        <4>1. 0 \in 0..MAX_SESSION_IDLE
          OBVIOUS
        <4>2. QED
          BY <2>15, <4>1, Update DEF Touch
      <3>2. QED
        BY <2>15, <3>1 DEF Touch, Places
    <2>2. CASE Acknowledge(t)
      BY <2>2 DEF Acknowledge, Places, Ops
    <2>16. CASE DeviceHello(t)
      <3>1. helloDone' \in [Session -> BOOLEAN]
        BY <2>16, Update, Zenon DEF DeviceHello
      <3>2. PICK can \in BOOLEAN : canConfirm' = [canConfirm EXCEPT ![my[t]] = can]
        BY <2>16, Zenon DEF DeviceHello
      <3>3. canConfirm' \in [Session -> BOOLEAN]
        BY <3>2, Update, Zenon
      <3>4. QED
        BY <2>16, <3>1, <3>3 DEF DeviceHello, Handling, Places, Ops
    <2>3. CASE Listen(t)
      BY <2>3 DEF Listen, Places, Ops, UiStates
    <2>18. CASE AnswerIdle(t)
      BY <2>18 DEF AnswerIdle, Places, Ops, UiStates
    <2>4. CASE Abort(t)
      BY <2>4 DEF Abort, Handling, OwnedBy, Places, Ops, UiStates
    <2>5. CASE StartTool(t)
      BY <2>5 DEF StartTool, Places, UiStates
    <2>17. CASE FinishTool(t)
      BY <2>17 DEF FinishTool, Places, Ops, UiStates
    <2>6. CASE NeedsConfirmation(t)
      <3>1. left' \in [Confirmation -> 0..TTL]
        BY <2>6 DEF NeedsConfirmation
      <3>2. owner' \in [Confirmation -> Session \cup {None}]
        BY <2>6 DEF NeedsConfirmation
      <3>3. pending' \subseteq issued' /\ issued' \subseteq Confirmation
        BY <2>6 DEF NeedsConfirmation, Expired
      <3>4. QED
        BY <2>6, <3>1, <3>2, <3>3 DEF NeedsConfirmation, Places, Ops, UiStates
    <2>7. CASE TooManyPending(t)
      BY <2>7 DEF TooManyPending, Expired, Places, Ops, UiStates
    <2>8. CASE Confirm(t)
      <3>1. PICK c \in Confirmation, yes \in BOOLEAN :
              req' = [req EXCEPT ![t] =
                        [id |-> c, accepted |-> yes, inTime |-> left[c] > 0]]
        BY <2>8 DEF Confirm
      <3>2. [id |-> c, accepted |-> yes, inTime |-> left[c] > 0] \in Requests
        BY DEF Requests
      <3>3. req' \in [Thread -> Requests \cup {None}]
        BY <3>1, <3>2
      <3>4. QED
        BY <2>8, <3>3 DEF Confirm, Handling, Places
    <2>9. CASE ConsumeAccepted(t)
      BY <2>9 DEF ConsumeAccepted, DeleteEntry, Places
    <2>10. CASE ConsumeRejected(t)
      BY <2>10 DEF ConsumeRejected, DeleteEntry, Places, Ops, UiStates
    <2>11. CASE ConsumeFails(t)
      BY <2>11 DEF ConsumeFails, Places
    <2>12. CASE Execute(t) \/ ExecuteRaises(t)
      BY <2>12 DEF Execute, ExecuteRaises, Places, Ops, UiStates
    <2>13. CASE ConfirmationFailed(t)
      BY <2>13 DEF ConfirmationFailed, OwnedBy, Places, Ops, UiStates
    <2>14. QED
      BY <1>3, <2>1, <2>2, <2>3, <2>4, <2>5, <2>6, <2>7, <2>8, <2>9, <2>10,
         <2>11, <2>12, <2>13, <2>15, <2>16, <2>17, <2>18 DEF Handle
  <1>4. CASE UNCHANGED vars
    BY <1>4 DEF vars
  <1>5. QED
    BY <1>1, <1>2, <1>3, <1>4 DEF Next

\* Every field of sessions, confirmations and threads stays in its domain, and
\* only identifiers that were handed out are registered or pending.
THEOREM TypeCorrect == Spec => []TypeOK
  BY TypeInit, TypeStep, PTL DEF Spec

-----------------------------------------------------------------------------
(* The inductive invariant *)

LEMMA InvInit == Init => IInv
  <1> SUFFICES ASSUME Init
               PROVE  IInv
    OBVIOUS
  <1>1. TypeOK
    BY TypeInit
  <1>2. QED
    BY <1>1 DEF Init, IInv, SessionHasOneConnection, FramesInv, TokensInv,
       OwnersInv, PendingIsAsked, OnePendingPerSession, ScreensInv, RunningInv,
       RunsAtMostOnce, InSession, At

\* The conjuncts of IInv besides TypeOK, which has its own proof.
Rest ==
    /\ SessionHasOneConnection /\ FramesInv /\ TokensInv /\ OwnersInv
    /\ PendingIsAsked /\ OnePendingPerSession /\ ScreensInv /\ RunningInv
    /\ RunsAtMostOnce

LEMMA InvStep == IInv /\ [Next]_vars => IInv'
  <1> SUFFICES ASSUME IInv, [Next]_vars
               PROVE  Rest'
    BY TypeStep DEF IInv, Rest
  <1> USE CoreConstants DEF IInv, Rest, TypeOK, SessionHasOneConnection,
          FramesInv, TokensInv, OwnersInv, PendingIsAsked, OnePendingPerSession,
          ScreensInv, RunningInv, RunsAtMostOnce, OwnedBy, InSession, Requests,
          At, Goto, Return, registryVars, managerVars, threadVars, uiVars,
          historyVars
  <1>1. CASE Tick
    BY <1>1 DEF Tick
  <1>2. ASSUME NEW t \in Thread, Connection(t)
        PROVE  Rest'
    <2>1. ASSUME NEW d \in Device, NEW can \in BOOLEAN, NEW hello \in BOOLEAN,
                 pc[t] \in {"rest", "create"}, my[t] = None,
                 CreateSession(t, d, can, hello)
          PROVE  Rest'
      <3>1. PICK s \in Session \ created :
              /\ created' = created \cup {s}
              /\ canConfirm' = [canConfirm EXCEPT ![s] = can]
              /\ helloDone' = [helloDone EXCEPT ![s] = hello]
              /\ my' = [my EXCEPT ![t] = s]
              /\ ShowState(s, "idle")
        BY <2>1 DEF CreateSession
      <3>3. UNCHANGED <<managerVars, historyVars>> /\ Return(t)
        BY <2>1 DEF CreateSession
      <3>4. SessionHasOneConnection' /\ FramesInv'
        BY <2>1, <3>1, <3>3
      <3>5. TokensInv' /\ OnePendingPerSession' /\ RunningInv' /\ RunsAtMostOnce'
        BY <2>1, <3>1, <3>3
      <3>6. \A c \in pending : owner[c] \in created
        OBVIOUS
      <3>7. OwnersInv' /\ PendingIsAsked'
        BY <2>1, <3>1, <3>3, <3>6 DEF ShowState
      <3>8. ScreensInv'
        BY <2>1, <3>1, <3>3 DEF ShowState
      <3>9. QED
        BY <3>4, <3>5, <3>7, <3>8
    <2>2. ASSUME NEW d \in Device, pc[t] \in {"rest", "create"}, SessionLimit(t, d)
          PROVE  Rest'
      <3>1. UNCHANGED <<created, canConfirm, helloDone, managerVars, my, uiVars,
                        historyVars>>
            /\ Return(t)
        BY <2>2 DEF SessionLimit
      <3>2. PendingIsAsked'
        BY <2>2, <3>1
      <3>3. ScreensInv'
        BY <2>2, <3>1
      <3>4. QED
        BY <2>2, <3>1, <3>2, <3>3
    <2>3. CASE Authenticate(t)
      <3>0. my[t] = None /\ pc[t] \in {"rest", "create"}
        BY <2>3 DEF Authenticate, AcceptClientHello
      <3> HIDE DEF Rest, IInv
      <3>1. PICK d \in Device : \/ \E can \in BOOLEAN : CreateSession(t, d, can, TRUE)
                                 \/ SessionLimit(t, d)
        BY <2>3 DEF Authenticate
      <3>2. QED
        BY <2>1, <2>2, <3>0, <3>1
    <2>4. CASE AcceptClientHello(t)
      <3>0. my[t] = None /\ pc[t] \in {"rest", "create"}
        BY <2>4 DEF Authenticate, AcceptClientHello
      <3> HIDE DEF Rest, IInv
      <3>1. PICK d \in Device : CreateSession(t, d, FALSE, FALSE) \/ SessionLimit(t, d)
        BY <2>4 DEF AcceptClientHello
      <3>2. QED
        BY <2>1, <2>2, <3>0, <3>1
    <2>5. CASE Receive(t)
      BY <2>5 DEF Receive
    <2>6. CASE ReceiveTranscript(t)
      BY <2>6 DEF ReceiveTranscript
    <2>7. CASE PruneSessions(t)
      BY <2>7 DEF PruneSessions, AfterPrune
    <2>8. CASE CancelStale(t)
      BY <2>8 DEF CancelStale, AfterPrune
    <2>9. CASE AuthenticationFails(t)
      BY <2>9 DEF AuthenticationFails
    <2>10. CASE BeginClose(t)
      BY <2>10 DEF BeginClose
    <2>11. CASE RemoveSession(t)
      BY <2>11 DEF RemoveSession, ShowState
    <2>12. QED
      <3> HIDE DEF Rest
      <3>1. QED
        BY <1>2, <2>3, <2>4, <2>5, <2>6, <2>7, <2>8, <2>9, <2>10, <2>11
           DEF Connection
  <1>3. ASSUME NEW t \in Thread, Handle(t)
        PROVE  Rest'
    <2>1. CASE GetSession(t)
      BY <2>1 DEF GetSession
    <2>2. CASE Touch(t)
      BY <2>2 DEF Touch
    <2>3. CASE Acknowledge(t)
      BY <2>3 DEF Acknowledge
    <2>4. CASE DeviceHello(t)
      BY <2>4 DEF DeviceHello, Handling
    <2>5. CASE Listen(t)
      <3>1. OwnedBy(my[t]) = {}
        BY <2>5 DEF Listen, Handling, Ready
      <3>2. PendingIsAsked' /\ OwnersInv'
        <4>1. PendingIsAsked'
          BY <2>5, <3>1 DEF Listen, Handling, ShowState
        <4>2. OwnersInv'
          BY <2>5 DEF Listen, Handling, ShowState
        <4> QED
          BY <4>1, <4>2
      <3>3. ScreensInv'
        BY <2>5 DEF Listen, Handling, ShowState
      <3>4. QED
        BY <2>5, <3>2, <3>3 DEF Listen, Handling
    <2>6. CASE AnswerIdle(t)
      BY <2>6 DEF AnswerIdle, Ready, ShowState
    <2>7. CASE Abort(t)
      BY <2>7 DEF Abort, Handling, ShowState
    <2>8. CASE StartTool(t)
      BY <2>8 DEF StartTool, Ready
    <2>9. CASE FinishTool(t)
      BY <2>9 DEF FinishTool, ShowState
    <2>10. CASE NeedsConfirmation(t)
      BY <2>10 DEF NeedsConfirmation, HasScreen, Expired, ShowState
    <2>11. CASE TooManyPending(t)
      BY <2>11 DEF TooManyPending, HasScreen, Expired, ShowState
    <2>12. CASE Confirm(t)
      <3>1. PICK c \in Confirmation, yes \in BOOLEAN :
              req' = [req EXCEPT ![t] =
                        [id |-> c, accepted |-> yes, inTime |-> left[c] > 0]]
        BY <2>12 DEF Confirm
      <3>2. req'[t] # None
        <4>1. [id |-> c, accepted |-> yes, inTime |-> left[c] > 0] \in Requests
          OBVIOUS
        <4>2. QED
          BY <3>1, <4>1
      <3>3. \A u \in Thread : u # t => req'[u] = req[u]
        BY <3>1
      <3>4. FramesInv'
        BY <2>12, <3>2, <3>3 DEF Confirm, Handling
      <3>5. RunningInv'
        BY <2>12, <3>3 DEF Confirm, Handling
      <3>6. ScreensInv'
        BY <2>12 DEF Confirm, Handling
      <3>7. PendingIsAsked'
        BY <2>12 DEF Confirm, Handling
      <3>8. QED
        BY <2>12, <3>4, <3>5, <3>6, <3>7 DEF Confirm, Handling
    <2>13. CASE ConsumeAccepted(t)
      <3> DEFINE c == req[t].id
      <3>1. /\ c \in pending /\ owner[c] = my[t] /\ pending' = pending \ {c}
            /\ acceptedBy' = [acceptedBy EXCEPT ![c] = my[t]]
            /\ UNCHANGED <<registryVars, issued, owner, my, req, uiVars, ran>>
            /\ pc' = [pc EXCEPT ![t] = "exec"] /\ pc[t] = "consume"
        BY <2>13 DEF ConsumeAccepted, Consumable, DeleteEntry
      <3>2. c \in Confirmation /\ my[t] \in Session
        BY <3>1
      <3> HIDE DEF c
      <3>3. TokensInv' /\ RunsAtMostOnce' /\ OnePendingPerSession'
        BY <3>1, <3>2
      <3>4. {e \in pending \ {c} : owner[e] = my[t]} = {}
        BY <3>1
      <3>5. OwnersInv'
        BY <3>1, <3>2, <3>4
      <3>6. PendingIsAsked'
        BY <3>1, <3>2
      <3>7. RunningInv'
        BY <3>1, <3>2 DEF c
      <3>8. QED
        BY <3>1, <3>3, <3>5, <3>6, <3>7
    <2>14. CASE ConsumeRejected(t)
      BY <2>14 DEF ConsumeRejected, Consumable, DeleteEntry, ShowState
    <2>15. CASE ConsumeFails(t)
      BY <2>15 DEF ConsumeFails
    <2>16. CASE Execute(t)
      <3> DEFINE c == req[t].id
      <3>1. /\ c \in issued \ pending /\ acceptedBy[c] = my[t] /\ owner[c] = my[t]
            /\ ran[c] = 0 /\ OwnedBy(my[t]) = {} /\ ran' = [ran EXCEPT ![c] = @ + 1]
            /\ UNCHANGED <<registryVars, managerVars, my, acceptedBy>>
            /\ Return(t) /\ pc[t] = "exec" /\ ShowState(my[t], "idle")
        BY <2>16 DEF Execute
      <3> HIDE DEF c
      <3>2. TokensInv' /\ RunsAtMostOnce' /\ OnePendingPerSession'
        BY <3>1
      <3>3. OwnersInv' /\ PendingIsAsked'
        BY <3>1 DEF ShowState
      <3>4. \A u \in Thread : u # t /\ At(u, "exec") => req[u].id # c
        BY <3>1
      <3>5. RunningInv'
        BY <3>1, <3>4
      <3>6. ScreensInv'
        BY <3>1 DEF ShowState
      <3>7. QED
        BY <3>1, <3>2, <3>3, <3>5, <3>6
    <2>17. CASE ExecuteRaises(t)
      BY <2>17 DEF ExecuteRaises
    <2>18. CASE ConfirmationFailed(t)
      BY <2>18 DEF ConfirmationFailed, ShowState
    <2>19. QED
      <3> HIDE DEF Rest
      <3>1. QED
        BY <1>3, <2>1, <2>2, <2>3, <2>4, <2>5, <2>6, <2>7, <2>8, <2>9,
           <2>10, <2>11, <2>12, <2>13, <2>14, <2>15, <2>16, <2>17, <2>18
           DEF Handle
  <1>4. CASE UNCHANGED vars
    BY <1>4 DEF vars
  <1>5. QED
    <2> HIDE DEF Rest
    <2>1. QED
      BY <1>1, <1>2, <1>3, <1>4 DEF Next

\* Every reachable state of the core satisfies the inductive invariant.
THEOREM CoreInvariant == Spec => []IInv
  BY InvInit, InvStep, PTL DEF Spec

\* Unsafe work is only pending behind the confirmation screen of its owner, for
\* any number of transports and any timing of prunes, aborts and closes.
THEOREM PendingAlwaysAsked == Spec => []PendingIsAsked
  <1>1. IInv => PendingIsAsked
    BY DEF IInv
  <1>2. QED
    BY <1>1, CoreInvariant, PTL

\* A session never has two unsafe actions waiting.
THEOREM AtMostOnePending == Spec => []OnePendingPerSession
  <1>1. IInv => OnePendingPerSession
    BY DEF IInv
  <1>2. QED
    BY <1>1, CoreInvariant, PTL

\* The handler of a confirmed action starts at most once, accepted by its owner.
THEOREM AtMostOneRun == Spec => []RunsAtMostOnce
  <1>1. IInv => RunsAtMostOnce
    BY DEF IInv
  <1>2. QED
    BY <1>1, CoreInvariant, PTL

\* Unsafe work is pending only for devices with a screen and a touch panel.
THEOREM PendingHasScreen == Spec => []ConfirmNeedsScreen
  <1>1. IInv => ConfirmNeedsScreen
    BY DEF IInv, OwnersInv, ConfirmNeedsScreen
  <1>2. QED
    BY <1>1, CoreInvariant, PTL

\* Between two messages the device knows the state of its session, and it is
\* never "thinking".
THEOREM ScreenInSync == Spec => []UiInSync
  <1>1. IInv => UiInSync
    BY DEF IInv, ScreensInv, UiInSync, At
  <1>2. QED
    BY <1>1, CoreInvariant, PTL

-----------------------------------------------------------------------------
(* Who leaves the registry *)

\* What a session must have met to leave the registry in this step.
MayLeave(s) ==
    \/ idle[s] = MAX_SESSION_IDLE
    \/ \E t \in Thread : my[t] = s /\ At(t, "remove")

\* Only the prunes and RemoveSession take sessions out of the registry.
LEMMA DropStep == TypeOK /\ [Next]_vars => \A s \in registered \ registered' : MayLeave(s)
  <1> SUFFICES ASSUME TypeOK, [Next]_vars, NEW s \in registered \ registered'
               PROVE  MayLeave(s)
    OBVIOUS
  <1>1. s \in Stale => MayLeave(s)
    BY CoreConstants DEF TypeOK, Stale, MayLeave
  <1>2. ASSUME NEW t \in Thread, Connection(t)
        PROVE  MayLeave(s)
    <2>1. CASE PruneSessions(t)
      BY <2>1, <1>1 DEF PruneSessions
    <2>2. ASSUME NEW d \in Device, NEW can, NEW hello,
                 CreateSession(t, d, can, hello) \/ SessionLimit(t, d)
          PROVE  MayLeave(s)
      BY <2>2, <1>1 DEF CreateSession, SessionLimit
    <2>3. CASE AcceptClientHello(t) \/ Authenticate(t)
      BY <2>2, <2>3 DEF AcceptClientHello, Authenticate
    <2>4. CASE RemoveSession(t)
      BY <2>4 DEF RemoveSession, MayLeave
    <2>5. CASE \/ Receive(t) \/ ReceiveTranscript(t) \/ CancelStale(t)
               \/ AuthenticationFails(t) \/ BeginClose(t)
      BY <2>5 DEF Receive, ReceiveTranscript, CancelStale, AuthenticationFails,
         BeginClose, registryVars
    <2>6. QED
      BY <1>2, <2>1, <2>3, <2>4, <2>5 DEF Connection
  <1>3. ASSUME NEW t \in Thread, Handle(t)
        PROVE  registered' = registered
    BY <1>3 DEF Handle, GetSession, Touch, Acknowledge, DeviceHello, Listen,
       AnswerIdle, Abort, StartTool, FinishTool, NeedsConfirmation,
       TooManyPending, Confirm, ConsumeAccepted, ConsumeRejected, ConsumeFails,
       Execute, ExecuteRaises, ConfirmationFailed, registryVars
  <1>4. CASE Tick \/ UNCHANGED vars
    BY <1>4 DEF Tick, vars, registryVars
  <1>5. QED
    BY <1>2, <1>3, <1>4 DEF Next

\* A session leaves the registry only by its own connection's close or after
\* MAX_SESSION_IDLE of silence: full tables and other connections' prunes evict
\* no live device, whatever the limits.
THEOREM LiveSessionsAreKept == Spec => OnlyIdleSessionsAreDropped
  BY DropStep, TypeCorrect, PTL DEF Spec, OnlyIdleSessionsAreDropped, MayLeave

-----------------------------------------------------------------------------
(* Every confirmation is a one-use token *)

\* Steps that do not touch the manager or the histories are stutters.
LEMMA StutterStep ==
    ASSUME UNCHANGED <<pending, issued, owner, acceptedBy, ran>>
    PROVE  UNCHANGED Tokens!tokenVars
  BY DEF Tokens!tokenVars, Stage

\* Deleting pending confirmations voids them.
LEMMA VoidStep ==
    ASSUME IInv, NEW K \in SUBSET pending, pending' = pending \ K,
           UNCHANGED <<issued, owner, acceptedBy, ran>>
    PROVE  Tokens!TokenNext
  <1>1. K \in SUBSET Confirmation
    BY DEF IInv, TypeOK
  <1>2. \A c \in K : Stage(c) = "live"
    BY DEF IInv, TypeOK, Stage
  <1>3. \A c \in Confirmation : Stage(c)' = IF c \in K THEN "void" ELSE Stage(c)
    BY DEF IInv, TypeOK, TokensInv, Stage
  <1>4. Tokens!Void(K)
    BY <1>1, <1>2, <1>3 DEF Tokens!Void
  <1>5. QED
    BY <1>1, <1>4 DEF Tokens!TokenNext

\* Creating a confirmation sweeps the expired ones and issues a fresh token.
LEMMA IssueStep ==
    ASSUME IInv, NEW t \in Thread, NeedsConfirmation(t)
    PROVE  Tokens!TokenNext
  <1>1. PICK c \in Confirmation \ issued :
          /\ pending' = (pending \ Expired) \cup {c}
          /\ issued' = issued \cup {c}
          /\ owner' = [owner EXCEPT ![c] = my[t]]
    BY DEF NeedsConfirmation
  <1>2. UNCHANGED <<acceptedBy, ran>> /\ my[t] \in Session
    BY DEF NeedsConfirmation, historyVars, IInv, TypeOK, FramesInv, InSession, At
  <1>3. Expired \subseteq pending /\ pending \subseteq issued
        /\ issued \subseteq Confirmation
    BY DEF Expired, IInv, TypeOK
  <1>4. \A e \in Expired : Stage(e) = "live"
    BY <1>3 DEF Stage
  <1>5. Stage(c) = "fresh"
    BY DEF Stage
  <1>6. \A e \in Confirmation :
          Stage(e)' = CASE e \in Expired -> "void"
                        [] e = c         -> "live"
                        [] OTHER         -> Stage(e)
    BY <1>1, <1>2, <1>3 DEF IInv, TokensInv, Stage
  <1>7. Tokens!SweepAndIssue(Expired, c, my[t])
    BY <1>1, <1>2, <1>3, <1>4, <1>5, <1>6 DEF Tokens!SweepAndIssue
  <1>8. QED
    BY <1>2, <1>3, <1>7 DEF Tokens!TokenNext

\* Consuming an accepted confirmation redeems it, for its owner.
LEMMA RedeemStep ==
    ASSUME IInv, NEW t \in Thread, ConsumeAccepted(t)
    PROVE  Tokens!TokenNext
  <1> DEFINE c == req[t].id
  <1>1. /\ c \in pending /\ owner[c] = my[t] /\ pending' = pending \ {c}
        /\ acceptedBy' = [acceptedBy EXCEPT ![c] = my[t]]
        /\ UNCHANGED <<issued, owner, ran>> /\ my[t] # None
    BY DEF ConsumeAccepted, Consumable, DeleteEntry, IInv, FramesInv, InSession, At
  <1>2. pending \subseteq issued /\ c \in Confirmation
        /\ acceptedBy \in [Confirmation -> Session \cup {None}]
    BY <1>1 DEF IInv, TypeOK
  <1> HIDE DEF c
  <1>3. Stage(c) = "live"
    BY <1>1, <1>2 DEF Stage
  <1>4. \A e \in Confirmation : Stage(e)' = IF e = c THEN "spent" ELSE Stage(e)
    BY <1>1, <1>2 DEF IInv, TypeOK, TokensInv, Stage
  <1>5. Tokens!SweepAndRedeem({}, c)
    BY <1>1, <1>2, <1>3, <1>4 DEF Tokens!SweepAndRedeem
  <1>6. QED
    BY <1>2, <1>5 DEF Tokens!TokenNext

\* Starting the handler uses the redeemed token.
LEMMA UseStep ==
    ASSUME IInv, NEW t \in Thread, At(t, "exec"),
           ran' = [ran EXCEPT ![req[t].id] = @ + 1],
           UNCHANGED <<pending, issued, owner, acceptedBy>>
    PROVE  Tokens!TokenNext
  <1> DEFINE c == req[t].id
  <1>1. c \in issued \ pending /\ acceptedBy[c] # None /\ ran[c] = 0
    BY DEF IInv, RunningInv, FramesInv, InSession, At
  <1>2. issued \subseteq Confirmation /\ ran \in [Confirmation -> Nat]
    BY DEF IInv, TypeOK
  <1>3. ran' = [ran EXCEPT ![c] = 1]
    BY <1>1, <1>2
  <1> HIDE DEF c
  <1>4. Stage(c) = "spent"
    BY <1>1 DEF Stage
  <1>5. \A e \in Confirmation : Stage(e)' = IF e = c THEN "used" ELSE Stage(e)
    BY <1>1, <1>2, <1>3 DEF Stage
  <1>6. Tokens!Use(c)
    BY <1>1, <1>2, <1>4, <1>5 DEF Tokens!Use
  <1>7. QED
    BY <1>1, <1>2, <1>6 DEF Tokens!TokenNext

LEMMA RefinementStep ==
    IInv /\ [Next]_vars => [Tokens!TokenNext]_(Tokens!tokenVars)
  <1> SUFFICES ASSUME IInv, [Next]_vars
               PROVE  Tokens!TokenNext \/ UNCHANGED Tokens!tokenVars
    OBVIOUS
  <1> USE DEF registryVars, managerVars, threadVars, uiVars, historyVars
  <1>1. CASE Tick
    BY <1>1, StutterStep DEF Tick
  <1>2. ASSUME NEW t \in Thread, Connection(t)
        PROVE  Tokens!TokenNext \/ UNCHANGED Tokens!tokenVars
    <2>1. CASE CancelStale(t) \/ BeginClose(t)
      <3>1. PICK s : pending' = pending \ OwnedBy(s)
        BY <2>1 DEF CancelStale, BeginClose
      <3>2. QED
        BY <2>1, <3>1, VoidStep DEF CancelStale, BeginClose, OwnedBy
    <2>2. CASE ~(CancelStale(t) \/ BeginClose(t))
      BY <1>2, <2>2, StutterStep DEF Connection, Receive, ReceiveTranscript,
         AcceptClientHello, PruneSessions, Authenticate, AuthenticationFails,
         CreateSession, SessionLimit, RemoveSession
    <2>3. QED
      BY <2>1, <2>2
  <1>3. ASSUME NEW t \in Thread, Handle(t)
        PROVE  Tokens!TokenNext \/ UNCHANGED Tokens!tokenVars
    <2>1. CASE Abort(t) \/ ConfirmationFailed(t)
      BY <2>1, VoidStep DEF Abort, ConfirmationFailed, OwnedBy
    <2>2. CASE TooManyPending(t)
      BY <2>2, VoidStep DEF TooManyPending, Expired
    <2>3. CASE ConsumeRejected(t)
      <3>1. req[t].id \in pending /\ pending' = pending \ {req[t].id}
        BY <2>3 DEF ConsumeRejected, Consumable, DeleteEntry
      <3>2. QED
        BY <2>3, <3>1, VoidStep DEF ConsumeRejected
    <2>4. CASE NeedsConfirmation(t)
      BY <2>4, IssueStep
    <2>5. CASE ConsumeAccepted(t)
      BY <2>5, RedeemStep
    <2>6. CASE Execute(t) \/ ExecuteRaises(t)
      BY <2>6, UseStep, StutterStep DEF Execute, ExecuteRaises
    <2>7. CASE GetSession(t) \/ Touch(t) \/ Acknowledge(t) \/ DeviceHello(t)
               \/ Listen(t) \/ AnswerIdle(t) \/ StartTool(t) \/ FinishTool(t)
               \/ Confirm(t) \/ ConsumeFails(t)
      BY <2>7, StutterStep DEF GetSession, Touch, Acknowledge, DeviceHello,
         Listen, AnswerIdle, StartTool, FinishTool, Confirm, ConsumeFails
    <2>8. QED
      BY <1>3, <2>1, <2>2, <2>3, <2>4, <2>5, <2>6, <2>7 DEF Handle
  <1>4. CASE UNCHANGED vars
    BY <1>4, StutterStep DEF vars
  <1>5. QED
    BY <1>1, <1>2, <1>3, <1>4 DEF Next

\* The core implements the one-use token: whatever the interleaving, a
\* confirmation is redeemed only by the session it was issued to, used at most
\* once, and never after it expired, was rejected or was cancelled.
THEOREM CoreImplementsOneUse == Spec => ConfirmationIsOneUse
  <1>1. Init => Tokens!TokenInit
    BY DEF Init, Tokens!TokenInit, Stage
  <1>2. QED
    BY <1>1, RefinementStep, CoreInvariant, PTL
       DEF Spec, ConfirmationIsOneUse, Tokens!TokenSpec

-----------------------------------------------------------------------------
(* Sentences: _route_transcript and the catalogue of commands, for any       *)
(* names, messages and edits of the panel                                    *)

CommandFields == {"id", "tool", "phrase", "parameters", "given"}
Listed(commands) == {commands[i] : i \in DOMAIN commands}

\* Every entry of the catalogue is a record of the same fields.
LEMMA CommandShape ==
  /\ \A id, tool, phrase, parameters :
       DOMAIN Command(id, tool, phrase, parameters) = CommandFields
  /\ \A id, action, phrase : DOMAIN MediaCommand(id, action, phrase) = CommandFields
  <1>1. \A id, tool, phrase, parameters :
          DOMAIN Command(id, tool, phrase, parameters) = CommandFields
    BY DEF Command, CommandFields
  <1>2. \A id, action, phrase : DOMAIN MediaCommand(id, action, phrase) = CommandFields
    BY <1>1 DEF MediaCommand
  <1> QED
    BY <1>1, <1>2

\* What holds of the entries of two lists holds of the list of both.
LEMMA JoinedShape ==
    ASSUME NEW S, NEW T, NEW s \in Seq(S), NEW t \in Seq(T)
    PROVE  s \o t \in Seq(S \cup T)
  <1>1. s \in Seq(S \cup T) /\ t \in Seq(S \cup T)
    OBVIOUS
  <1> QED
    BY <1>1

\* ... and therefore of the whole catalogue.
LEMMA CatalogShape == \A i \in DOMAIN COMMANDS : DOMAIN COMMANDS[i] = CommandFields
  <1> DEFINE D == Listed(DailyCommands)
             L == Listed(DiscordAndLeagueCommands)
             M == Listed(MachineCommands)
  <1>1. DailyCommands \in Seq(D)
    BY DEF Listed, DailyCommands
  <1>2. DiscordAndLeagueCommands \in Seq(L)
    BY DEF Listed, DiscordAndLeagueCommands
  <1>3. MachineCommands \in Seq(M)
    BY DEF Listed, MachineCommands
  <1>4. \A i \in DOMAIN DailyCommands : DOMAIN DailyCommands[i] = CommandFields
    BY CommandShape DEF DailyCommands
  <1>5. \A i \in DOMAIN DiscordAndLeagueCommands :
          DOMAIN DiscordAndLeagueCommands[i] = CommandFields
    BY CommandShape DEF DiscordAndLeagueCommands
  <1>6. \A i \in DOMAIN MachineCommands : DOMAIN MachineCommands[i] = CommandFields
    BY CommandShape DEF MachineCommands
  <1>7. \A c \in (D \cup L) \cup M : DOMAIN c = CommandFields
    BY <1>4, <1>5, <1>6 DEF Listed
  <1> HIDE DEF D, L, M
  <1>8. COMMANDS \in Seq((D \cup L) \cup M)
    BY <1>1, <1>2, <1>3, JoinedShape DEF COMMANDS
  <1> QED
    BY <1>7, <1>8

\* The phrase is the only part of a command that the panel changes.
LEMMA PresentKeepsTool ==
    ASSUME NEW i \in DOMAIN COMMANDS
    PROVE  Present(COMMANDS[i]).tool = COMMANDS[i].tool
  <1>1. "tool" \in DOMAIN COMMANDS[i]
    BY CatalogShape DEF CommandFields
  <1>2. \A phrase : [COMMANDS[i] EXCEPT !.phrase = phrase].tool = COMMANDS[i].tool
    BY <1>1
  <1> QED
    BY <1>2 DEF Present

\* What the catalogue lists is a command that is enabled, read from a file in
\* order.
LEMMA ListedIsEnabled ==
    ASSUME NEW i \in DOMAIN Commands
    PROVE  /\ ~damaged
           /\ i \in DOMAIN COMMANDS /\ Enabled(COMMANDS[i].id)
           /\ Commands[i].tool = COMMANDS[i].tool
  <1>1. ~CatalogFails
    BY DEF Commands
  <1>2. Commands = get_command_catalog
    BY <1>1 DEF Commands
  <1>3. i \in DOMAIN COMMANDS /\ Enabled(COMMANDS[i].id)
    BY <1>2 DEF get_command_catalog
  <1>4. Commands[i] = Present(COMMANDS[i])
    BY <1>2, <1>3 DEF get_command_catalog
  <1> QED
    BY <1>1, <1>3, <1>4, PresentKeepsTool DEF CatalogFails

\* An answer names a tool only if a command of that tool is listed.
LEMMA RouteIsSilent ==
    ASSUME route_transcript
    PROVE  DisabledIsSilent'
  <1> DEFINE intent == OnlyEnabled(Read(turn.words, Commands), Commands)
  <1>1. /\ turn'.intent = intent
        /\ UNCHANGED <<prefs, damaged>>
    BY DEF route_transcript
  <1> SUFFICES ASSUME intent # NoIntent
               PROVE  ~damaged /\ \E i \in DOMAIN COMMANDS :
                        COMMANDS[i].tool = intent.tool /\ Enabled(COMMANDS[i].id)
    BY <1>1 DEF DisabledIsSilent, Enabled
  <1>2. PICK i \in DOMAIN Commands : Commands[i].tool = intent.tool
    BY DEF OnlyEnabled
  <1> QED
    BY <1>2, ListedIsEnabled

\* While nothing is said, or a sentence is only said, there is no answer.
LEMMA NotRoutedIsSilent ==
    ASSUME turn'.phase # "routed"
    PROVE  DisabledIsSilent'
  BY DEF DisabledIsSilent, Routed

\* No sentence reaches a tool whose commands are all disabled, and nothing is
\* reached while the panel's file cannot be read, whatever was edited, spoilt or
\* deleted before (get_command_catalog, _route_transcript).
THEOREM DisabledStaysSilent == TextSpec => []DisabledIsSilent
  <1>1. TextInit => DisabledIsSilent
    BY DEF TextInit, DisabledIsSilent, Routed, Idle
  <1>2. DisabledIsSilent /\ [TextNext]_textVars => DisabledIsSilent'
    <2> SUFFICES ASSUME DisabledIsSilent, [TextNext]_textVars
                 PROVE  DisabledIsSilent'
      OBVIOUS
    <2>1. Idle.phase # "routed"
      BY DEF Idle
    <2>2. ASSUME NEW id, NEW enabled, NEW phrase,
                 \/ update_command_control(id, enabled, phrase)
                 \/ reset_command_control(id) \/ EditByHand(id, phrase)
          PROVE  DisabledIsSilent'
      BY <2>1, <2>2, NotRoutedIsSilent
         DEF update_command_control, reset_command_control, EditByHand
    <2>3. CASE Spoil \/ Delete \/ Answered
      BY <2>1, <2>3, NotRoutedIsSilent DEF Spoil, Delete, Answered
    <2>4. CASE catalog_response
      <3>1. turn'.phase = "catalog"
        BY <2>4 DEF catalog_response
      <3> QED
        BY <3>1, NotRoutedIsSilent
    <2>5. ASSUME NEW words, NEW form, NEW command, NEW wanted,
                 Say(words, form, command, wanted)
          PROVE  DisabledIsSilent'
      <3>1. turn'.phase = "said"
        BY <2>5 DEF Say
      <3> QED
        BY <3>1, NotRoutedIsSilent
    <2>6. CASE \E i \in DOMAIN Rules : SayForm(i)
      BY <2>5, <2>6 DEF SayForm
    <2>7. CASE \E id \in Ids : SayPhrase(id)
      BY <2>5, <2>7 DEF SayPhrase
    <2>8. CASE route_transcript
      BY <2>8, RouteIsSilent
    <2>9. CASE UNCHANGED textVars
      BY <2>9 DEF textVars, DisabledIsSilent, Routed, Enabled
    <2> QED
      BY <2>2, <2>3, <2>4, <2>6, <2>7, <2>8, <2>9 DEF TextNext
  <1> QED
    BY <1>1, <1>2, PTL DEF TextSpec
=============================================================================
