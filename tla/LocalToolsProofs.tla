-------------------------- MODULE LocalToolsProofs --------------------------
(***************************************************************************)
(* Proofs about the four tools with state of their own, for any threads,   *)
(* writers, applications, destinations, limits and timeouts, each in every *)
(* interleaving of its users; and that LocalTools, in which only one of    *)
(* them moves, implements all four.                                        *)
(***************************************************************************)
EXTENDS LocalTools, FiniteSetTheorems, TLAPS

-----------------------------------------------------------------------------
(* The allow-list of applications *)

LEMMA ProcessInvInit == ProcessInit => ProcessInv
  <1> SUFFICES ASSUME ProcessInit
               PROVE  ProcessInv
    OBVIOUS
  <1>1. Empty \in Contents /\ ValidApps(Empty)
    BY DEF Empty, Contents, ValidApps, Listed
  <1>2. ProcessTypeOK
    BY <1>1 DEF ProcessInit, ProcessTypeOK, Resting
  <1>3. ValidApps(apps) /\ \A w \in Writer : writer[w].at = "rest"
    BY <1>1 DEF ProcessInit, Resting
  <1>4. QED
    BY <1>2, <1>3 DEF ProcessInv

\* A writer that has read the file and changed the entries it names.
LEMMA PrepareStep ==
    ASSUME ProcessInv, NEW w \in Writer, NEW id \in App \cup {NoApp}, NEW names \in SUBSET App,
           NEW copy \in Contents, Prepare(w, id, names, copy),
           \A a \in App \ names : copy[a] = apps[a]
    PROVE  ProcessInv'
  <1> DEFINE frame == [at |-> "replace", id |-> id, names |-> names, copy |-> copy,
                       current |-> TRUE]
  <1>1. /\ ValidApps(copy) /\ apps' = apps
        /\ writer' = [writer EXCEPT ![w] = frame]
    BY DEF Prepare
  <1>2. writer'[w] = frame /\ \A v \in Writer \ {w} : writer'[v] = writer[v]
    BY <1>1 DEF ProcessInv, ProcessTypeOK
  <1>3. ProcessTypeOK'
    BY <1>1 DEF ProcessInv, ProcessTypeOK
  <1>4. ValidApps(apps)'
    BY <1>1 DEF ProcessInv, ValidApps, Listed, Labels
  <1>5. ASSUME NEW v \in Writer, writer'[v].at = "replace"
        PROVE  /\ ValidApps(writer'[v].copy)
               /\ writer'[v].current =>
                    \A a \in App \ writer'[v].names : writer'[v].copy[a] = apps'[a]
    <2>1. CASE v = w
      BY <1>1, <1>2, <2>1
    <2>2. CASE v # w
      BY <1>1, <1>2, <1>5, <2>2 DEF ProcessInv
    <2>3. QED
      BY <2>1, <2>2
  <1>6. QED
    BY <1>3, <1>4, <1>5 DEF ProcessInv, ValidApps, Listed, Labels

\* Deletions, saves and the command prepare such a copy.
LEMMA DeleteStep ==
    ASSUME ProcessInv, NEW w \in Writer, NEW a \in App, Delete(w, a)
    PROVE  ProcessInv'
  <1>1. apps \in Contents
    BY DEF ProcessInv, ProcessTypeOK
  <1>2. [apps EXCEPT ![a] = Absent] \in Contents
        /\ \A x \in App \ {a} : [apps EXCEPT ![a] = Absent][x] = apps[x]
    BY <1>1 DEF Contents
  <1>3. QED
    BY <1>2, PrepareStep DEF Delete, Load

LEMMA RequestStep ==
    ASSUME ProcessInv, NEW w \in Writer, NEW a \in App, NEW e \in Entries, NEW o \in App,
           \/ SaveNew(w, a, e) \/ SaveExisting(w, o, a, e)
           \/ Configure(w, a, e.aliases)
    PROVE  ProcessInv'
  <1>1. apps \in Contents
    BY DEF ProcessInv, ProcessTypeOK
  <1>2. CASE SaveNew(w, a, e)
    <2>1. [apps EXCEPT ![a] = e] \in Contents
          /\ \A x \in App \ {a} : [apps EXCEPT ![a] = e][x] = apps[x]
      BY <1>1 DEF Contents
    <2>2. QED
      BY <1>2, <2>1, PrepareStep DEF SaveNew, Load
  <1>3. CASE SaveExisting(w, o, a, e)
    <2>1. Renamed(o, a, e) \in Contents
          /\ \A x \in App \ {o, a} : Renamed(o, a, e)[x] = apps[x]
      BY <1>1 DEF Renamed, Load, Contents
    <2>2. QED
      BY <1>3, <2>1, PrepareStep DEF SaveExisting
  <1>4. CASE Configure(w, a, e.aliases)
    <2> DEFINE y == [aliases |-> e.aliases, enabled |-> TRUE]
    <2>1. y \in Entries
      BY DEF Entries
    <2> HIDE DEF y
    <2>2. [apps EXCEPT ![a] = y] \in Contents
          /\ \A x \in App \ {a} : [apps EXCEPT ![a] = y][x] = apps[x]
      BY <1>1, <2>1 DEF Contents
    <2>3. Prepare(w, NoApp, {a}, [apps EXCEPT ![a] = y])
      BY <1>4 DEF Configure, ReadPayload, y
    <2>4. QED
      BY <2>2, <2>3, PrepareStep
  <1>5. QED
    BY <1>2, <1>3, <1>4

\* os.replace: the copy was valid when it was made, and every other is now stale.
LEMMA ReplaceStep ==
    ASSUME ProcessInv, NEW w \in Writer, Replace(w)
    PROVE  ProcessInv'
  <1>1. apps' = writer[w].copy /\ writer[w].at = "replace"
        /\ ValidApps(writer[w].copy) /\ writer[w].copy \in Contents
    BY DEF Replace, ProcessInv, ProcessTypeOK
  <1> DEFINE Writes == [at : {"rest", "replace", "reread"}, id : App \cup {NoApp},
                        names : SUBSET App, copy : Contents, current : BOOLEAN]
  <1>0. Empty \in Contents /\ writer \in [Writer -> Writes] /\ Resting \in Writes
    <2>1. Empty \in Contents
      BY DEF Empty, Contents
    <2>2. QED
      BY <2>1 DEF ProcessInv, ProcessTypeOK, Resting
  <1>2. /\ writer' \in [Writer -> Writes]
        /\ writer'[w].at # "replace"
        /\ \A v \in Writer \ {w} : /\ writer'[v].at = writer[v].at
                                   /\ writer'[v].copy = writer[v].copy
                                   /\ ~ writer'[v].current
    BY <1>0 DEF Replace, Resting
  <1>3. ProcessTypeOK'
    BY <1>1, <1>2 DEF ProcessTypeOK
  <1>4. ValidApps(apps)'
    BY <1>1 DEF ValidApps, Listed, Labels
  <1>5. \A v \in Writer : writer'[v].at = "replace" =>
            v # w /\ ValidApps(writer[v].copy)
    BY <1>2 DEF ProcessInv
  <1>6. QED
    BY <1>2, <1>3, <1>4, <1>5 DEF ProcessInv, ValidApps, Listed, Labels

\* A writer that gives up or has answered.
LEMMA RestStep ==
    ASSUME ProcessInv, NEW w \in Writer, ReplaceFails(w) \/ Reread(w)
    PROVE  ProcessInv'
  <1>1. apps' = apps /\ writer' = [writer EXCEPT ![w] = Resting]
    BY DEF ReplaceFails, Reread
  <1>2. writer'[w].at = "rest" /\ \A v \in Writer \ {w} : writer'[v] = writer[v]
    BY <1>1 DEF ProcessInv, ProcessTypeOK, Resting
  <1>3. ProcessTypeOK'
    <2>1. Empty \in Contents
      BY DEF Empty, Contents
    <2>2. QED
      BY <1>1, <2>1 DEF ProcessInv, ProcessTypeOK, Resting
  <1>4. QED
    BY <1>1, <1>2, <1>3 DEF ProcessInv, ValidApps, Listed, Labels

LEMMA ProcessInvStep == ProcessInv /\ [ProcessNext]_processVars => ProcessInv'
  <1>1. ProcessInv /\ UNCHANGED processVars => ProcessInv'
    BY DEF processVars, ProcessInv, ProcessTypeOK, ValidApps, Listed, Labels
  <1>2. ASSUME ProcessInv, ProcessNext
        PROVE  ProcessInv'
    BY <1>2, ReplaceStep, RestStep, DeleteStep, RequestStep DEF ProcessNext
  <1>3. QED
    BY <1>1, <1>2

\* The invariant of the allow-list is inductive.
THEOREM ProcessInvariant == ProcessSpec => []ProcessInv
  BY ProcessInvInit, ProcessInvStep, PTL DEF ProcessSpec

\* A valid list gives a label one application at most.
LEMMA ValidIsUnambiguous == ProcessInv => LabelsAreUnambiguous
  <1> SUFFICES ASSUME ProcessInv, NEW label \in App \cup Nickname
               PROVE  Cardinality(Find(label)) <= 1
    BY DEF LabelsAreUnambiguous
  <1>1. \A a, b \in Find(label) : a = b
    BY DEF ProcessInv, ValidApps, Find
  <1>2. CASE Find(label) = {}
    BY <1>2, FS_EmptySet
  <1>3. ASSUME NEW a \in Find(label)
        PROVE  Cardinality(Find(label)) <= 1
    <2>1. Find(label) = {a}
      BY <1>1
    <2>2. QED
      BY <2>1, FS_Singleton
  <1>4. QED
    BY <1>2, <1>3

\* Only a replace changes the file, and its writer's copy agrees with the file
\* on every entry that the request does not name, unless it is stale.
LEMMA OthersStep ==
    ASSUME ProcessInv, [ProcessNext]_processVars, NEW w \in Writer,
           writer[w].at = "replace", apps' # apps, writer'[w].at # "replace",
           writer[w].current
    PROVE  \A a \in App \ writer[w].names : apps'[a] = apps[a]
  <1>1. PICK v \in Writer : Replace(v)
    BY DEF ProcessNext, processVars, ReplaceFails, Reread, Delete, SaveNew, SaveExisting,
       Configure, Prepare
  <1>2. v = w
    BY <1>1 DEF Replace, ProcessInv, ProcessTypeOK
  <1>3. QED
    BY <1>1, <1>2 DEF Replace, ProcessInv

\* Whatever writers of the allow-list overwrite of each other, a label finds one
\* application at most.
THEOREM LabelsStayUnambiguous == ProcessSpec => []LabelsAreUnambiguous
  BY ProcessInvariant, ValidIsUnambiguous, PTL

\* A writer that nobody overtook keeps every entry that it does not name.
THEOREM OtherEntriesStay == ProcessSpec => OthersAreKept
  <1>1. ProcessInv /\ [ProcessNext]_processVars =>
          [\A w \in Writer :
             writer[w].at = "replace" /\ apps' # apps /\ writer'[w].at # "replace"
                => \/ ~writer[w].current
                   \/ \A a \in App \ writer[w].names : apps'[a] = apps[a]]_processVars
    BY OthersStep
  <1>2. QED
    BY <1>1, ProcessInvariant, PTL DEF ProcessSpec, OthersAreKept
-----------------------------------------------------------------------------
(* Private messages *)

LEMMA MessagesInvInit == MessagesInit => MessagesInv
  <1> SUFFICES ASSUME MessagesInit
               PROVE  MessagesInv
    OBVIOUS
  <1>1. book \in Phone
    BY MessagesConstants DEF MessagesInit
  <1>2. MessagesTypeOK
    BY <1>1 DEF MessagesInit, MessagesTypeOK, Modes, Forms, NoUpdate, NoMessage, NotFrozen
  <1>3. ConfirmedInv /\ OnInv
    BY DEF MessagesInit, ConfirmedInv, OnInv, SentAsConfirmed, SentWhileOn, NoMessage
  <1>4. QED
    BY <1>2, <1>3 DEF MessagesInv

\* Steps of the panel and of the owner that save no mode touch no message.
LEMMA PanelStep ==
    ASSUME MessagesInv, NEW f \in Forms,
           \/ \E automatic, store, forget \in BOOLEAN :
                 UpdateWhatsApp(automatic, store, forget)
           \/ UpdateCommand \/ UpdateFails(f) \/ StoreToken \/ DeleteToken \/ EditContacts
    PROVE  MessagesInv'
  <1>1. UNCHANGED <<mode, msg>>
    BY DEF UpdateWhatsApp, UpdateCommand, Begin, UpdateFails, StoreToken, DeleteToken,
       EditContacts, settingVars
  <1>2. "whatsapp" \in Forms /\ "command" \in Forms /\ mode \in Modes
    BY DEF Forms, MessagesInv, MessagesTypeOK
  <1>3. token' \in BOOLEAN /\ book' \in Phone
    BY DEF UpdateWhatsApp, UpdateCommand, Begin, UpdateFails, StoreToken, DeleteToken,
       EditContacts, settingVars, MessagesInv, MessagesTypeOK
  <1> DEFINE Writes == [at : {"rest", "save", "store", "forget"}, copy : Modes,
                        store : BOOLEAN, forget : BOOLEAN, current : BOOLEAN]
  <1>4. panel' \in [Forms -> Writes]
    <2>1. panel \in [Forms -> Writes] /\ NoUpdate \in Writes
      BY DEF MessagesInv, MessagesTypeOK, NoUpdate, Modes
    <2>2. ASSUME NEW g \in Forms, NEW copy \in Modes, NEW store \in BOOLEAN,
                 NEW forget \in BOOLEAN, Begin(g, copy, store, forget)
          PROVE  panel' \in [Forms -> Writes]
      BY <2>1, <2>2 DEF Begin
    <2>3. CASE \E automatic, store, forget \in BOOLEAN :
                 UpdateWhatsApp(automatic, store, forget)
      BY <1>2, <2>2, <2>3 DEF UpdateWhatsApp, Modes
    <2>4. CASE UpdateCommand
      BY <1>2, <2>2, <2>4 DEF UpdateCommand, LoadControl
    <2>5. CASE UpdateFails(f) \/ DeleteToken \/ EditContacts
      BY <1>2, <2>1, <2>5 DEF UpdateFails, DeleteToken, EditContacts, settingVars
    <2>6. CASE StoreToken
      BY <1>2, <2>1, <2>6 DEF StoreToken
    <2>7. QED
      BY <2>3, <2>4, <2>5, <2>6
  <1>5. MessagesTypeOK'
    BY <1>1, <1>3, <1>4 DEF MessagesInv, MessagesTypeOK
  <1>6. ConfirmedInv' /\ OnInv'
    BY <1>1 DEF MessagesInv, ConfirmedInv, OnInv, SentAsConfirmed, SentWhileOn
  <1>7. QED
    BY <1>5, <1>6 DEF MessagesInv

\* A save that switches automatic sending on is seen by an accepted message.
LEMMA SaveStep ==
    ASSUME MessagesInv, NEW f \in Forms, SaveControl(f)
    PROVE  MessagesInv'
  <1>1. mode' = panel[f].copy /\ mode' \in Modes /\ UNCHANGED <<token, book>>
    BY DEF SaveControl, MessagesInv, MessagesTypeOK
  <1>2. msg' = [msg EXCEPT !.on = msg.on \/ (mode' = "cloud_api"
                                    /\ msg.at \in {"settings", "token", "post"})]
    BY DEF SaveControl, Seen
  <1> DEFINE Writes == [at : {"rest", "save", "store", "forget"}, copy : Modes,
                        store : BOOLEAN, forget : BOOLEAN, current : BOOLEAN]
  <1>3. panel' \in [Forms -> Writes]
    <2>1. panel \in [Forms -> Writes] /\ NoUpdate \in Writes /\ "manual" \in Modes
      BY DEF MessagesInv, MessagesTypeOK, NoUpdate, Modes
    <2>2. AfterSave(f) \in {"rest", "store", "forget"}
      BY DEF AfterSave
    <2>3. \A g \in Forms : /\ [panel[g] EXCEPT !.current = FALSE] \in Writes
                           /\ [panel[f] EXCEPT !.at = AfterSave(f), !.copy = "manual",
                                               !.current = TRUE] \in Writes
      BY <2>1, <2>2
    <2>4. QED
      BY <2>1, <2>3 DEF SaveControl
  <1>4. /\ msg'.at = msg.at /\ msg'.via = msg.via /\ msg'.dest = msg.dest
        /\ msg'.auto = msg.auto /\ msg'.cloud = msg.cloud /\ msg'.frozen = msg.frozen
        /\ msg'.done = msg.done
        /\ msg'.on = (msg.on \/ (mode' = "cloud_api"
                                 /\ msg.at \in {"settings", "token", "post"}))
    BY <1>2 DEF MessagesInv, MessagesTypeOK
  <1>5. MessagesTypeOK'
    BY <1>1, <1>2, <1>3 DEF MessagesInv, MessagesTypeOK
  <1>6. ConfirmedInv'
    BY <1>4 DEF MessagesInv, ConfirmedInv, SentAsConfirmed
  <1>7. OnInv'
    BY <1>4 DEF MessagesInv, OnInv, SentWhileOn
  <1>8. QED
    BY <1>5, <1>6, <1>7 DEF MessagesInv

\* A message on its way.
LEMMA MessageStep ==
    ASSUME MessagesInv,
           \/ \E via \in {"tool", "chat", "discord", "route"} :
                 AskContact(via) \/ \E p \in Phone : AskPhone(via, p)
           \/ SeeSettings \/ SeeToken \/ SeeFails \/ Accept \/ Decline
           \/ SendSettings \/ SendToken \/ Post
    PROVE  MessagesInv'
  <1> USE DEF MessagesInv, MessagesTypeOK, settingVars
  <1>1. UNCHANGED <<mode, token, panel, book>>
    BY DEF AskContact, AskPhone, Ask, SeeSettings, SeeToken, SeeFails, Accept, Decline, SendSettings,
       SendToken, Post
  <1>2. ASSUME NEW via \in {"tool", "chat", "discord", "route"}, NEW p \in Phone, Ask(via, p)
        PROVE  MessagesInv'
    <2>1. CASE via = "discord"
      <3>1. msg' = [at |-> "pending", via |-> via, dest |-> p, auto |-> FALSE,
                    cloud |-> FALSE, frozen |-> [dest |-> p, auto |-> FALSE],
                    on |-> FALSE, done |-> "nothing"]
        BY <1>2, <2>1 DEF Ask, NoMessage, NotFrozen
      <3>2. MessagesTypeOK'
        BY <1>1, <3>1
      <3>3. ConfirmedInv' /\ OnInv'
        BY <3>1 DEF ConfirmedInv, OnInv, SentAsConfirmed, SentWhileOn
      <3>4. QED
        BY <3>2, <3>3
    <2>2. CASE via # "discord"
      <3>1. msg' = [at |-> "see", via |-> via, dest |-> p, auto |-> FALSE,
                    cloud |-> FALSE, frozen |-> NotFrozen,
                    on |-> FALSE, done |-> "nothing"]
        BY <1>2, <2>2 DEF Ask, NoMessage
      <3>2. MessagesTypeOK'
        BY <1>1, <3>1 DEF NotFrozen
      <3>3. ConfirmedInv' /\ OnInv'
        BY <2>2, <3>1 DEF ConfirmedInv, OnInv, SentAsConfirmed, SentWhileOn
      <3>4. QED
        BY <3>2, <3>3
    <2>3. QED
      BY <2>1, <2>2
  <1>3. CASE SeeSettings \/ SendSettings
    <2>1. MessagesTypeOK'
      BY <1>1, <1>3 DEF SeeSettings, SendSettings
    <2>2. ConfirmedInv' /\ OnInv'
      BY <1>1, <1>3 DEF SeeSettings, SendSettings, ConfirmedInv, OnInv, SentAsConfirmed,
         SentWhileOn
    <2>3. QED
      BY <2>1, <2>2
  <1>4. CASE SeeToken
    <2> DEFINE auto == msg.cloud /\ token /\ msg.via # "chat"
    <2>1. CASE msg.via # "route"
      <3>1. msg' = [msg EXCEPT !.at = "pending", !.auto = auto, !.cloud = FALSE,
                               !.frozen = [dest |-> msg.dest, auto |-> auto]]
        BY <1>4, <2>1 DEF SeeToken
      <3>2. auto \in BOOLEAN
        OBVIOUS
      <3> HIDE DEF auto
      <3>3. MessagesTypeOK'
        BY <1>1, <3>1, <3>2
      <3>4. ConfirmedInv' /\ OnInv'
        BY <1>1, <1>4, <3>1, <3>2 DEF SeeToken, ConfirmedInv, OnInv, SentAsConfirmed,
           SentWhileOn
      <3>5. QED
        BY <3>3, <3>4
    <2>2. CASE msg.via = "route" /\ auto
      <3>1. msg' = [msg EXCEPT !.at = "settings", !.auto = TRUE, !.cloud = FALSE,
                               !.on = mode = "cloud_api"]
        BY <1>4, <2>2 DEF SeeToken
      <3>2. MessagesTypeOK'
        BY <1>1, <3>1
      <3>3. ConfirmedInv' /\ OnInv'
        BY <1>1, <1>4, <2>2, <3>1 DEF SeeToken, ConfirmedInv, OnInv, SentAsConfirmed,
           SentWhileOn
      <3>4. QED
        BY <3>2, <3>3
    <2>3. CASE msg.via = "route" /\ ~ auto
      <3>1. Ends("opened", msg.dest)
        BY <1>4, <2>3 DEF SeeToken
      <3>2. MessagesTypeOK'
        BY <1>1, <3>1 DEF Ends
      <3>3. ConfirmedInv' /\ OnInv'
        BY <1>1, <1>4, <2>3, <3>1 DEF SeeToken, Ends, ConfirmedInv, OnInv, SentAsConfirmed,
           SentWhileOn
      <3>4. QED
        BY <3>2, <3>3
    <2>4. QED
      BY <2>1, <2>2, <2>3
  <1>5. CASE Accept
    <2>1. msg.frozen.dest = msg.dest /\ msg.frozen.auto = msg.auto /\ msg.at = "pending"
      BY <1>5 DEF Accept, ConfirmedInv
    <2>2. CASE msg.auto
      <3>1. msg' = [msg EXCEPT !.at = "settings", !.dest = msg.dest, !.on = mode = "cloud_api"]
        BY <1>5, <2>2 DEF Accept, Automatic, Destination
      <3>2. MessagesTypeOK'
        BY <1>1, <3>1
      <3>3. msg.frozen = [dest |-> msg.dest, auto |-> TRUE]
        BY <2>1, <2>2
      <3>4. ConfirmedInv' /\ OnInv'
        BY <1>1, <2>1, <3>1, <3>3 DEF ConfirmedInv, OnInv, SentAsConfirmed, SentWhileOn
      <3>5. QED
        BY <3>2, <3>4
    <2>3. CASE ~ msg.auto
      <3>1. Ends("opened", msg.dest)
        BY <1>5, <2>3 DEF Accept, Automatic, Destination
      <3>2. MessagesTypeOK'
        BY <1>1, <3>1 DEF Ends
      <3>3. ConfirmedInv' /\ OnInv'
        BY <1>1, <2>1, <3>1 DEF Ends, ConfirmedInv, OnInv, SentAsConfirmed, SentWhileOn
      <3>4. QED
        BY <3>2, <3>3
    <2>4. QED
      BY <2>2, <2>3
  <1>6. CASE Decline \/ SeeFails
    <2>1. msg' = NoMessage
      BY <1>6 DEF Decline, SeeFails
    <2>2. MessagesTypeOK'
      BY <1>1, <2>1 DEF NoMessage, NotFrozen
    <2>3. ConfirmedInv' /\ OnInv'
      BY <2>1 DEF NoMessage, ConfirmedInv, OnInv, SentAsConfirmed, SentWhileOn
    <2>4. QED
      BY <2>2, <2>3
  <1>7. CASE SendToken
    <2>1. MessagesTypeOK'
      BY <1>1, <1>7 DEF SendToken, Ends
    <2>2. ConfirmedInv' /\ OnInv'
      BY <1>1, <1>7 DEF SendToken, MaySend, Ends, ConfirmedInv, OnInv, SentAsConfirmed,
         SentWhileOn
    <2>3. QED
      BY <2>1, <2>2
  <1>8. CASE Post
    <2>1. MessagesTypeOK'
      BY <1>1, <1>8 DEF Post, Ends
    <2>2. ConfirmedInv' /\ OnInv'
      BY <1>1, <1>8 DEF Post, Ends, ConfirmedInv, OnInv, SentAsConfirmed, SentWhileOn
    <2>3. QED
      BY <2>1, <2>2
  <1>9. QED
    BY <1>2, <1>3, <1>4, <1>5, <1>6, <1>7, <1>8 DEF AskContact, AskPhone

LEMMA MessagesInvStep == MessagesInv /\ [MessagesNext]_messageVars => MessagesInv'
  <1>1. MessagesInv /\ UNCHANGED messageVars => MessagesInv'
    BY DEF messageVars, MessagesInv, MessagesTypeOK, ConfirmedInv, OnInv, SentAsConfirmed,
       SentWhileOn
  <1>2. "command" \in Forms
    BY DEF Forms
  <1>3. ASSUME MessagesInv, MessagesNext
        PROVE  MessagesInv'
    BY <1>2, <1>3, PanelStep, SaveStep, MessageStep DEF MessagesNext
  <1>4. QED
    BY <1>1, <1>3

\* The invariant of the messages is inductive.
THEOREM MessagesInvariant == MessagesSpec => []MessagesInv
  BY MessagesInvInit, MessagesInvStep, PTL DEF MessagesSpec

\* What is confirmed is what is done, whatever is edited while the question is
\* open.
THEOREM ConfirmedIsSent == MessagesSpec => []SentAsConfirmed
  <1>1. MessagesInv => SentAsConfirmed
    BY DEF MessagesInv, ConfirmedInv
  <1>2. QED
    BY <1>1, MessagesInvariant, PTL

\* Nothing is sent after automatic sending was switched off for good.
THEOREM NothingSentWhileOff == MessagesSpec => []SentWhileOn
  <1>1. MessagesInv => SentWhileOn
    BY DEF MessagesInv, OnInv
  <1>2. QED
    BY <1>1, MessagesInvariant, PTL

-----------------------------------------------------------------------------
(* Timers *)

\* Pruning takes finished records only.
LEMMA PruneKeepsPending ==
    ASSUME TimersInv
    PROVE  /\ Prune(records) \subseteq records
           /\ \A t \in records : status[t] = "pending" => t \in Prune(records)
  BY DEF Prune, Completed

LEMMA TimersInvStep == TimersInv /\ [TimersNext]_timerVars => TimersInv'
  <1> SUFFICES ASSUME TimersInv, [TimersNext]_timerVars
               PROVE  TimersInv'
    OBVIOUS
  <1> USE DEF TimersInv, TimersTypeOK
  <1>1. ASSUME NEW t \in Timer, Create(t)
        PROVE  TimersInv'
    BY <1>1, PruneKeepsPending DEF Create
  <1>2. CASE CreateRefused
    BY <1>2, PruneKeepsPending DEF CreateRefused
  <1>3. ASSUME NEW t \in Timer, Start(t) \/ StartFails(t) \/ Elapse(t)
        PROVE  TimersInv'
    BY <1>3 DEF Start, StartFails, Elapse
  <1>4. ASSUME NEW t \in Timer, Cancel(t)
        PROVE  TimersInv'
    BY <1>4 DEF Cancel, MayCancel
  <1>5. ASSUME NEW t \in Timer, Fire(t)
        PROVE  TimersInv'
    BY <1>5 DEF Fire, MayFire
  <1>6. CASE UNCHANGED timerVars
    BY <1>6 DEF timerVars
  <1>7. QED
    BY <1>1, <1>2, <1>3, <1>4, <1>5, <1>6 DEF TimersNext

\* The invariant of the timers is inductive.
THEOREM TimersInvariant == TimersSpec => []TimersInv
  <1>1. TimersInit => TimersInv
    BY DEF TimersInit, TimersInv, TimersTypeOK
  <1>2. QED
    BY <1>1, TimersInvStep, PTL DEF TimersSpec

\* No step gives a finished timer another outcome or forgets a pending one.
LEMMA OutcomeStep ==
    ASSUME TimersInv, [TimersNext]_timerVars, NEW t \in Timer
    PROVE  /\ Completed(t) => status'[t] = status[t]
           /\ status[t] = "pending" => t \in records'
  <1> USE DEF TimersInv, TimersTypeOK, Completed
  <1>1. ASSUME NEW u \in Timer, Create(u)
        PROVE  /\ Completed(t) => status'[t] = status[t]
               /\ status[t] = "pending" => t \in records'
    BY <1>1, PruneKeepsPending DEF Create
  <1>2. CASE CreateRefused
    BY <1>2, PruneKeepsPending DEF CreateRefused
  <1>3. ASSUME NEW u \in Timer, Start(u) \/ StartFails(u) \/ Elapse(u) \/ Cancel(u) \/ Fire(u)
        PROVE  /\ Completed(t) => status'[t] = status[t]
               /\ status[t] = "pending" => t \in records'
    BY <1>3 DEF Start, StartFails, Elapse, Cancel, MayCancel, Fire, MayFire
  <1>4. CASE UNCHANGED timerVars
    BY <1>4 DEF timerVars
  <1>5. QED
    BY <1>1, <1>2, <1>3, <1>4 DEF TimersNext

\* A timer has one outcome, and none is pruned while it is pending.
THEOREM TimersHaveOneOutcome == TimersSpec => OneOutcome
  <1>1. TimersInv /\ [TimersNext]_timerVars =>
          [\A t \in Timer :
             /\ Completed(t) => status'[t] = status[t]
             /\ status[t] = "pending" => t \in records']_timerVars
    BY OutcomeStep
  <1>2. QED
    BY <1>1, TimersInvariant, PTL DEF TimersSpec, OneOutcome
-----------------------------------------------------------------------------
(* The League adapter *)

LEMMA LeagueInvInit == LeagueInit => LeagueInv
  <1> SUFFICES ASSUME LeagueInit
               PROVE  LeagueInv
    OBVIOUS
  <1>1. NoJob \in Frames
    BY LeagueConstants DEF NoJob, Frames
  <1>2. LeagueTypeOK
    BY <1>1 DEF LeagueInit, LeagueTypeOK, SearchStates, LeaguePlaces, Done
  <1>3. \A w \in Worker : at[w] = "rest"
    BY DEF LeagueInit
  <1>4. PlacesInv /\ LockInv /\ ReadingInv
    BY <1>3 DEF PlacesInv, Passes, LockInv, Confirmed, Locked, ReadingInv, StillTrue
  <1>5. QED
    BY <1>2, <1>4 DEF LeagueInv

\* A step of one thread: it may change the client only with the lock, and then no
\* other thread is between a reading and what it does about it.
LEMMA ThreadStep ==
    ASSUME LeagueInv, NEW w \in Worker, NEW place \in LeaguePlaces, NEW frame \in Frames,
           at' = [at EXCEPT ![w] = place], job' = [job EXCEPT ![w] = frame],
           lock' \in Worker \cup {Nobody}, \A v \in Worker \ {w} : lock = v => lock' = v,
           client' \in {"closed", "starting", "ready"},
           lobby' \in Queue \cup {NoLobby}, search' \in SearchStates,
           UNCHANGED <<lobby, search>> \/ lock = w,
           Passes(place, frame.op), Confirmed(place, frame.op) => lock' = w,
           ~ frame.moved => StillTrue(place, frame, lobby', search')
    PROVE  LeagueInv'
  <1>1. LeagueTypeOK'
    BY DEF LeagueInv, LeagueTypeOK
  <1>2. at'[w] = place /\ job'[w] = frame
        /\ \A v \in Worker \ {w} : at'[v] = at[v] /\ job'[v] = job[v]
    BY DEF LeagueInv, LeagueTypeOK
  <1>3. PlacesInv' /\ LockInv'
    BY <1>2 DEF LeagueInv, PlacesInv, Passes, LockInv, Confirmed
  <1>4. ASSUME NEW v \in Worker, ~ job'[v].moved
        PROVE  StillTrue(at'[v], job'[v], lobby', search')
    <2>1. CASE v = w
      BY <1>2, <1>4, <2>1 DEF StillTrue
    <2>2. CASE v # w /\ UNCHANGED <<lobby, search>>
      BY <1>2, <1>4, <2>2 DEF LeagueInv, ReadingInv, StillTrue
    <2>3. CASE v # w /\ lock = w
      <3>1. ~ Confirmed(at[v], job[v].op)
        BY <2>3 DEF LeagueInv, LockInv
      <3>2. Passes(at[v], job[v].op)
        BY DEF LeagueInv, PlacesInv
      <3>3. at[v] \notin {"create", "post", "delete"}
            /\ ~ (at[v] = "look" /\ job[v].op = "search")
        BY <3>1, <3>2 DEF Confirmed, Passes, Locked
      <3>4. QED
        BY <1>2, <2>3, <3>3 DEF StillTrue
    <2>4. QED
      BY <2>1, <2>2, <2>3
  <1>5. QED
    BY <1>1, <1>3, <1>4 DEF LeagueInv, ReadingInv

\* Answering gives the lock back.
LEMMA AnswerStep ==
    ASSUME LeagueInv, NEW w \in Worker, NEW outcome \in Done, Answer(w, outcome),
           client' \in {"closed", "starting", "ready"},
           lobby' \in Queue \cup {NoLobby}, search' \in SearchStates,
           UNCHANGED <<lobby, search>> \/ lock = w
    PROVE  LeagueInv'
  <1>1. NoJob \in Frames /\ outcome \in LeaguePlaces
    BY LeagueConstants DEF NoJob, Frames, LeaguePlaces
  <1>2. /\ at' = [at EXCEPT ![w] = outcome] /\ job' = [job EXCEPT ![w] = NoJob]
        /\ lock' = IF lock = w THEN Nobody ELSE lock
    BY DEF Answer, Unlock
  <1>3. Passes(outcome, NoJob.op) /\ ~ Confirmed(outcome, NoJob.op)
        /\ StillTrue(outcome, NoJob, lobby', search')
    BY DEF Done, Passes, Confirmed, Locked, StillTrue, NoJob
  <1>4. lock' \in Worker \cup {Nobody} /\ \A v \in Worker \ {w} : lock = v => lock' = v
    BY <1>2 DEF LeagueInv, LeagueTypeOK
  <1>5. QED
    BY <1>1, <1>2, <1>3, <1>4, ThreadStep

\* Going on with the same frame.
LEMMA ProceedStep ==
    ASSUME LeagueInv, NEW w \in Worker, NEW place \in LeaguePlaces, Proceed(w, place),
           client' \in {"closed", "starting", "ready"},
           lobby' \in Queue \cup {NoLobby}, search' \in SearchStates,
           UNCHANGED <<lobby, search>> \/ lock = w,
           place \notin Done =>
              /\ Passes(place, job[w].op)
              /\ Confirmed(place, job[w].op) => lock = w
              /\ ~ job[w].moved => StillTrue(place, job[w], lobby', search')
    PROVE  LeagueInv'
  <1>1. CASE place \in Done
    BY <1>1, AnswerStep DEF Proceed
  <1>2. CASE place \notin Done
    <2>1. at' = [at EXCEPT ![w] = place] /\ lock' = lock /\ job' = job
      BY <1>2 DEF Proceed, Goto
    <2>2. job' = [job EXCEPT ![w] = job[w]] /\ job[w] \in Frames
          /\ lock \in Worker \cup {Nobody}
      BY <2>1 DEF LeagueInv, LeagueTypeOK
    <2>3. ~ job[w].moved => StillTrue(place, job[w], lobby', search')
      BY <1>2
    <2>4. QED
      BY <1>2, <2>1, <2>2, <2>3, ThreadStep
  <1>3. QED
    BY <1>1, <1>2
\* A request begins, and the lock is taken.
LEMMA BeginStep ==
    ASSUME LeagueInv, NEW w \in Worker,
           Acquire(w) \/ \E o \in Ops, q \in Queue : Request(w, o, q)
    PROVE  LeagueInv'
  <1>0. LeagueTypeOK /\ Passes(at[w], job[w].op)
    BY DEF LeagueInv, PlacesInv
  <1>1. ASSUME NEW o \in Ops, NEW q \in Queue, Request(w, o, q)
        PROVE  LeagueInv'
    <2> DEFINE frame == [job[w] EXCEPT !.op = o,
                                       !.queue = IF o = "search" THEN q ELSE NoLobby]
               place == IF o = "search" THEN "lock" ELSE IF o = "open" THEN "launch" ELSE "find"
    <2>1. /\ at' = [at EXCEPT ![w] = place] /\ job' = [job EXCEPT ![w] = frame]
          /\ UNCHANGED <<lock, client, lobby, search>>
      BY <1>0, <1>1 DEF Request, Goto, clientVars, LeagueTypeOK
    <2>2. frame \in Frames /\ frame.op = o
      BY <1>0 DEF Frames, LeagueTypeOK
    <2>3. /\ place \in LeaguePlaces /\ Passes(place, o) /\ ~ Confirmed(place, o)
          /\ StillTrue(place, frame, lobby', search')
      BY DEF LeaguePlaces, Locked, Ops, Passes, Confirmed, StillTrue
    <2> HIDE DEF frame, place
    <2>4. QED
      BY <1>0, <2>1, <2>2, <2>3, ThreadStep DEF LeagueTypeOK
  <1>2. CASE Acquire(w)
    <2> DEFINE place == IF job[w].op = "search" THEN "find" ELSE "before"
    <2>1. /\ at[w] = "lock" /\ lock = Nobody /\ lock' = w
          /\ at' = [at EXCEPT ![w] = place] /\ job' = [job EXCEPT ![w] = job[w]]
          /\ UNCHANGED <<client, lobby, search>>
      BY <1>0, <1>2 DEF Acquire, MayEnter, clientVars, LeagueTypeOK
    <2>2. /\ place \in LeaguePlaces /\ Passes(place, job[w].op)
          /\ StillTrue(place, job[w], lobby', search')
      BY <1>0, <2>1 DEF LeaguePlaces, Locked, Passes, StillTrue
    <2>3. job[w] \in Frames /\ \A v \in Worker \ {w} : lock # v
      BY <1>0, <2>1, LeagueConstants DEF LeagueTypeOK
    <2> HIDE DEF place
    <2>4. QED
      BY <1>0, <2>1, <2>2, <2>3, ThreadStep DEF LeagueTypeOK
  <1>3. QED
    BY <1>1, <1>2

\* What the discovery writes to a frame.
LEMMA FrameUpdate ==
    ASSUME NEW j \in Frames, NEW n \in 0..(START_TIMEOUT + MATCH_WAIT)
    PROVE  /\ [j EXCEPT !.conn = TRUE, !.waits = n] \in Frames
           /\ [j EXCEPT !.waits = n, !.conn = TRUE] \in Frames
           /\ [j EXCEPT !.conn = TRUE, !.waits = n].op = j.op
           /\ [j EXCEPT !.waits = n, !.conn = TRUE].op = j.op
  <1> DEFINE W == 0..(START_TIMEOUT + MATCH_WAIT)
  <1>1. Frames = [op : Ops \cup {"none"}, queue : Queue \cup {NoLobby},
                  saw : Queue \cup {NoLobby}, conn : BOOLEAN, waits : W, moved : BOOLEAN]
        /\ n \in W
    BY DEF Frames
  <1> HIDE DEF W
  <1>2. QED
    BY <1>1

\* The discovery of the client: its frame changes, what it knows of the client
\* does not, since it has read nothing yet.
LEMMA DiscoveryStep ==
    ASSUME LeagueInv, NEW w \in Worker,
           \/ FindClient(w) \/ NoClient(w) \/ Launch(w) \/ LaunchFails(w) \/ ClientOpened(w)
           \/ ClientAppears(w) \/ ClientStillThere(w) \/ ClientIsLate(w)
    PROVE  LeagueInv'
  <1>0. /\ LeagueTypeOK /\ Passes(at[w], job[w].op) /\ job[w] \in Frames
        /\ Confirmed(at[w], job[w].op) => lock = w
    BY DEF LeagueInv, PlacesInv, LockInv, LeagueTypeOK
  <1>1. UNCHANGED <<lobby, search>>
    BY DEF FindClient, NoClient, Launch, LaunchFails, ClientOpened, ClientAppears,
       ClientStillThere, ClientIsLate, clientVars
  <1>2. CASE FindClient(w)
    <2> DEFINE n == IF job[w].op = "wait" THEN MATCH_WAIT ELSE 0
               frame == [job[w] EXCEPT !.conn = TRUE, !.waits = n]
               place == AfterFind(w)
    <2>1. /\ at' = [at EXCEPT ![w] = place] /\ job' = [job EXCEPT ![w] = frame]
          /\ UNCHANGED <<lock, client>> /\ at[w] = "find"
      BY <1>0, <1>2 DEF FindClient, Goto, clientVars, LeagueTypeOK
    <2>2. frame \in Frames /\ frame.op = job[w].op
      <3>1. n \in 0..(START_TIMEOUT + MATCH_WAIT)
        BY LeagueConstants
      <3> HIDE DEF n
      <3>2. QED
        BY <1>0, <3>1, FrameUpdate
    <2>3. \/ job[w].op \in {"search", "status"} /\ place = "lobby"
          \/ job[w].op = "cancel" /\ place = "lock"
          \/ job[w].op = "wait" /\ place = "poll"
      BY <1>0, <2>1 DEF Passes, AfterFind
    <2> HIDE DEF frame, place
    <2>4. /\ place \in LeaguePlaces /\ Passes(place, job[w].op)
          /\ StillTrue(place, frame, lobby', search')
          /\ Confirmed(place, job[w].op) => lock = w
      BY <1>0, <2>1, <2>3 DEF LeaguePlaces, Locked, Passes, StillTrue, Confirmed
    <2>5. QED
      BY <1>0, <1>1, <2>1, <2>2, <2>4, ThreadStep DEF LeagueTypeOK
  <1>3. CASE NoClient(w)
    <2> DEFINE place == IF job[w].op = "search" THEN "launch" ELSE "failed"
    <2>1. at[w] = "find" /\ Proceed(w, place) /\ client' = client
      BY <1>3 DEF NoClient, clientVars
    <2>2. /\ place \in LeaguePlaces
          /\ place \notin Done =>
               /\ Passes(place, job[w].op) /\ StillTrue(place, job[w], lobby', search')
               /\ Confirmed(place, job[w].op) => lock = w
      BY <1>0, <2>1 DEF LeaguePlaces, Locked, Done, Passes, StillTrue, Confirmed
    <2> HIDE DEF place
    <2>3. QED
      BY <1>0, <1>1, <2>1, <2>2, ProceedStep DEF LeagueTypeOK
  <1>4. CASE Launch(w)
    <2> DEFINE frame == [job[w] EXCEPT !.waits = START_TIMEOUT]
    <2>1. /\ at' = [at EXCEPT ![w] = "await"] /\ job' = [job EXCEPT ![w] = frame]
          /\ lock' = lock /\ at[w] = "launch"
          /\ client' \in {"closed", "starting", "ready"}
      BY <1>0, <1>4 DEF Launch, Goto, LeagueTypeOK
    <2>2. frame \in Frames /\ frame.op = job[w].op
      BY <1>0, LeagueConstants DEF Frames
    <2> HIDE DEF frame
    <2>3. /\ "await" \in LeaguePlaces /\ Passes("await", job[w].op)
          /\ StillTrue("await", frame, lobby', search')
          /\ Confirmed("await", job[w].op) => lock = w
      BY <1>0, <2>1 DEF LeaguePlaces, Locked, Passes, StillTrue, Confirmed
    <2>4. QED
      BY <1>0, <1>1, <2>1, <2>2, <2>3, ThreadStep DEF LeagueTypeOK
  <1>5. CASE LaunchFails(w) \/ ClientOpened(w) \/ ClientIsLate(w)
    <2>1. PICK outcome \in Done : Answer(w, outcome)
      BY <1>5 DEF LaunchFails, ClientOpened, ClientIsLate, Done
    <2>2. client' = client
      BY <1>5 DEF LaunchFails, ClientOpened, ClientIsLate, clientVars
    <2>3. QED
      BY <1>0, <1>1, <2>1, <2>2, AnswerStep DEF LeagueTypeOK
  <1>6. CASE ClientAppears(w)
    <2> DEFINE frame == [job[w] EXCEPT !.waits = START_TIMEOUT]
    <2>1. /\ at' = [at EXCEPT ![w] = "again"] /\ job' = [job EXCEPT ![w] = frame]
          /\ UNCHANGED <<lock, client>> /\ at[w] = "await" /\ job[w].op = "search"
      BY <1>0, <1>6 DEF ClientAppears, Goto, clientVars, LeagueTypeOK
    <2>2. frame \in Frames /\ frame.op = job[w].op
      BY <1>0, LeagueConstants DEF Frames
    <2> HIDE DEF frame
    <2>3. /\ "again" \in LeaguePlaces /\ Passes("again", job[w].op)
          /\ StillTrue("again", frame, lobby', search') /\ lock = w
      BY <1>0, <2>1 DEF LeaguePlaces, Locked, Passes, StillTrue, Confirmed
    <2>4. QED
      BY <1>0, <1>1, <2>1, <2>2, <2>3, ThreadStep DEF LeagueTypeOK
  <1>7. CASE ClientStillThere(w)
    <2> DEFINE frame == [job[w] EXCEPT !.waits = 0, !.conn = TRUE]
    <2>1. /\ at' = [at EXCEPT ![w] = "lobby"] /\ job' = [job EXCEPT ![w] = frame]
          /\ UNCHANGED <<lock, client>> /\ at[w] = "again"
      BY <1>0, <1>7 DEF ClientStillThere, Goto, clientVars, LeagueTypeOK
    <2>2. frame \in Frames /\ frame.op = job[w].op
      <3>1. 0 \in 0..(START_TIMEOUT + MATCH_WAIT)
        BY LeagueConstants
      <3>2. QED
        BY <1>0, <3>1, FrameUpdate
    <2> HIDE DEF frame
    <2>3. /\ "lobby" \in LeaguePlaces /\ Passes("lobby", job[w].op)
          /\ StillTrue("lobby", frame, lobby', search') /\ lock = w
      BY <1>0, <2>1 DEF LeaguePlaces, Locked, Passes, StillTrue, Confirmed
    <2>4. QED
      BY <1>0, <1>1, <2>1, <2>2, <2>3, ThreadStep DEF LeagueTypeOK
  <1>8. QED
    BY <1>2, <1>3, <1>4, <1>5, <1>6, <1>7
\* A reading of the search endpoint that is taken seriously is what the client is in.
LEMMA ReadingFacts ==
    ASSUME NEW w \in Worker, NEW s \in SearchStatus(w), s.supported, ~ s.found,
           s.state # "unknown"
    PROVE  /\ s.searching => search \in Running
           /\ ~ s.searching /\ search \in SearchStates => search = "idle"
  <1>1. PICK flag \in BOOLEAN : s = Reading(search, flag)
    BY DEF SearchStatus, Unsupported
  <1>2. /\ s.searching = (search \in Running \/ (search \in {"found", "strange"} /\ flag))
        /\ s.found = (search = "found")
        /\ search = "strange" => s.state = "unknown"
    BY <1>1 DEF Reading
  <1>3. search # "strange" /\ search # "found"
    BY <1>2
  <1>4. s.searching = (search \in Running)
    BY <1>2, <1>3
  <1>5. QED
    BY <1>3, <1>4 DEF SearchStates, Running

\* Calls that read, and those that fail.
LEMMA ReadStep ==
    ASSUME LeagueInv, NEW w \in Worker,
           \/ CallFails(w) \/ GetLobby(w) \/ LookAtSearch(w) \/ Verify(w) \/ Before(w)
           \/ ConfirmCancel(w) \/ Poll(w)
    PROVE  LeagueInv'
  <1>0. /\ LeagueTypeOK /\ Passes(at[w], job[w].op) /\ job[w] \in Frames
        /\ Confirmed(at[w], job[w].op) => lock = w
        /\ ~ job[w].moved => StillTrue(at[w], job[w], lobby, search)
    BY DEF LeagueInv, PlacesInv, LockInv, LeagueTypeOK, ReadingInv
  <1>1. UNCHANGED <<client, lobby, search>>
    BY DEF CallFails, GetLobby, LookAtSearch, Verify, Before, ConfirmCancel, Poll, clientVars
  <1>2. CASE CallFails(w) \/ Verify(w) \/ ConfirmCancel(w)
    <2>1. PICK outcome \in Done : Answer(w, outcome)
      BY <1>2 DEF CallFails, Verify, ConfirmCancel, Done
    <2>2. QED
      BY <1>0, <1>1, <2>1, AnswerStep DEF LeagueTypeOK
  <1>3. CASE GetLobby(w)
    <2> DEFINE frame == [job[w] EXCEPT !.saw = lobby]
    <2>1. /\ at' = [at EXCEPT ![w] = "look"] /\ job' = [job EXCEPT ![w] = frame]
          /\ lock' = lock /\ at[w] = "lobby"
      BY <1>0, <1>3 DEF GetLobby, Goto, LeagueTypeOK
    <2>2. frame \in Frames /\ frame.op = job[w].op /\ frame.saw = lobby
      BY <1>0 DEF Frames, LeagueTypeOK
    <2> HIDE DEF frame
    <2>3. /\ "look" \in LeaguePlaces /\ Passes("look", job[w].op)
          /\ StillTrue("look", frame, lobby', search')
          /\ Confirmed("look", job[w].op) => lock = w
      BY <1>0, <1>1, <2>1, <2>2 DEF LeaguePlaces, Locked, Passes, StillTrue, Confirmed
    <2>4. QED
      BY <1>0, <1>1, <2>1, <2>2, <2>3, ThreadStep DEF LeagueTypeOK
  <1>4. CASE LookAtSearch(w)
    <2>1. PICK s \in SearchStatus(w) :
            Proceed(w, IF job[w].op = "status" THEN "rest" ELSE Decision(w, s))
      BY <1>4 DEF LookAtSearch
    <2> DEFINE place == IF job[w].op = "status" THEN "rest" ELSE Decision(w, s)
    <2>2. place \in {"rest", "failed", "create", "post"}
      BY DEF Decision
    <2>3. place \in {"create", "post"} =>
            /\ job[w].op = "search" /\ at[w] = "look"
            /\ s.supported /\ ~ s.found /\ s.state # "unknown" /\ ~ s.searching
            /\ place = "post" => job[w].saw = job[w].queue
      BY <1>0, <1>4 DEF LookAtSearch, Passes, Decision
    <2>4. Proceed(w, place)
      BY <2>1
    <2> HIDE DEF place
    <2>5. place \in {"create", "post"} => search = "idle"
      BY <1>0, <2>3, ReadingFacts DEF LeagueTypeOK
    <2>6. /\ place \in LeaguePlaces
          /\ place \notin Done =>
               /\ Passes(place, job[w].op)
               /\ Confirmed(place, job[w].op) => lock = w
               /\ ~ job[w].moved => StillTrue(place, job[w], lobby', search')
      BY <1>0, <1>1, <2>2, <2>3, <2>5
         DEF LeaguePlaces, Locked, Done, Passes, StillTrue, Confirmed
    <2>7. QED
      BY <1>0, <1>1, <2>4, <2>6, ProceedStep DEF LeagueTypeOK
  <1>5. CASE Before(w)
    <2>1. PICK s \in SearchStatus(w) :
            Proceed(w, IF ~s.supported \/ s.found \/ s.state = "unknown" THEN "failed"
                       ELSE IF s.searching THEN "delete" ELSE "rest")
      BY <1>5 DEF Before
    <2> DEFINE place == IF ~s.supported \/ s.found \/ s.state = "unknown" THEN "failed"
                        ELSE IF s.searching THEN "delete" ELSE "rest"
    <2>2. place \in {"rest", "failed", "delete"} /\ Proceed(w, place) /\ at[w] = "before"
      BY <1>5, <2>1 DEF Before
    <2>3. place = "delete" => search \in Running
      BY ReadingFacts
    <2> HIDE DEF place
    <2>4. /\ place \in LeaguePlaces
          /\ place \notin Done =>
               /\ Passes(place, job[w].op)
               /\ Confirmed(place, job[w].op) => lock = w
               /\ ~ job[w].moved => StillTrue(place, job[w], lobby', search')
      BY <1>0, <1>1, <2>2, <2>3
         DEF LeaguePlaces, Locked, Done, Passes, StillTrue, Confirmed
    <2>5. QED
      BY <1>0, <1>1, <2>2, <2>4, ProceedStep DEF LeagueTypeOK
  <1>6. CASE Poll(w)
    <2>1. PICK place \in {"rest", "failed", "sleep"} : Proceed(w, place)
      <3>1. PICK s \in SearchStatus(w) :
              Proceed(w, IF ~s.supported \/ s.state = "unknown" THEN "failed"
                         ELSE IF s.found \/ ~s.searching \/ OutOfTime(w) THEN "rest"
                         ELSE "sleep")
        BY <1>6 DEF Poll
      <3>2. QED
        BY <3>1
    <2>2. /\ place \in LeaguePlaces
          /\ place \notin Done =>
               /\ Passes(place, job[w].op)
               /\ Confirmed(place, job[w].op) => lock = w
               /\ ~ job[w].moved => StillTrue(place, job[w], lobby', search')
      BY <1>0, <1>6 DEF Poll, LeaguePlaces, Locked, Done, Passes, StillTrue, Confirmed
    <2>3. QED
      BY <1>0, <1>1, <2>1, <2>2, ProceedStep DEF LeagueTypeOK
  <1>7. QED
    BY <1>2, <1>3, <1>4, <1>5, <1>6

\* Calls that change the client: the thread has the lock, so nobody else is
\* between a reading and an act.
LEMMA ActStep ==
    ASSUME LeagueInv, NEW w \in Worker, CreateLobby(w) \/ PostSearch(w) \/ DeleteSearch(w)
    PROVE  LeagueInv'
  <1>0. /\ LeagueTypeOK /\ Passes(at[w], job[w].op) /\ job[w] \in Frames
        /\ Confirmed(at[w], job[w].op) => lock = w
        /\ ~ job[w].moved => StillTrue(at[w], job[w], lobby, search)
    BY DEF LeagueInv, PlacesInv, LockInv, LeagueTypeOK, ReadingInv
  <1>1. at[w] \in {"create", "post", "delete"} /\ lock = w
    BY <1>0 DEF CreateLobby, PostSearch, DeleteSearch, Confirmed, Passes, Locked
  <1>2. /\ client' \in {"closed", "starting", "ready"}
        /\ lobby' \in Queue \cup {NoLobby} /\ search' \in SearchStates
    BY <1>0 DEF CreateLobby, PostSearch, DeleteSearch, LeagueTypeOK, SearchStates, Frames
  <1>3. PICK place \in {"post", "verify", "confirm", "failed"} :
          /\ Proceed(w, place)
          /\ place = "post" => CreateLobby(w)
          /\ place = "verify" => PostSearch(w)
          /\ place = "confirm" => DeleteSearch(w)
    BY DEF CreateLobby, PostSearch, DeleteSearch
  <1>4. /\ place \in LeaguePlaces
        /\ place \notin Done =>
             /\ Passes(place, job[w].op)
             /\ Confirmed(place, job[w].op) => lock = w
             /\ ~ job[w].moved => StillTrue(place, job[w], lobby', search')
    <2>1. CASE place = "failed"
      BY <2>1 DEF LeaguePlaces, Done
    <2>2. CASE place = "post"
      BY <1>0, <1>1, <1>3, <2>2 DEF CreateLobby, LeaguePlaces, Locked, Passes, StillTrue
    <2>3. CASE place = "verify"
      BY <1>0, <1>1, <1>3, <2>3 DEF PostSearch, LeaguePlaces, Locked, Passes, StillTrue
    <2>4. CASE place = "confirm"
      BY <1>0, <1>1, <1>3, <2>4 DEF DeleteSearch, LeaguePlaces, Locked, Passes, StillTrue
    <2>5. QED
      BY <2>1, <2>2, <2>3, <2>4
  <1>5. QED
    BY <1>1, <1>2, <1>3, <1>4, ProceedStep

\* The client moves by itself: every thread between a reading and an act is told
\* so by the history.
LEMMA PlayerStep ==
    ASSUME LeagueInv, Player
    PROVE  LeagueInv'
  <1>0. LeagueTypeOK
    BY DEF LeagueInv
  <1>1. /\ client' \in {"closed", "starting", "ready"}
        /\ lobby' \in Queue \cup {NoLobby} /\ search' \in SearchStates
        /\ UNCHANGED <<lock, at>>
    BY <1>0 DEF Player, ClientStarts, ClientCloses, PlayerChangesLobby, SearchMoves,
       LeagueTypeOK, SearchStates
  <1>2. /\ job' \in [Worker -> Frames]
        /\ \A v \in Worker : job'[v].op = job[v].op
    <2>1. CASE ClientStarts
      BY <1>0, <2>1 DEF ClientStarts, LeagueTypeOK
    <2>2. CASE MovesOn
      BY <1>0, <2>2 DEF MovesOn, LeagueTypeOK, Frames
    <2>3. CASE ClientCloses
      BY <1>0, <2>3 DEF ClientCloses, LeagueTypeOK, Frames
    <2>4. QED
      BY <2>1, <2>2, <2>3 DEF Player, PlayerChangesLobby, SearchMoves
  <1>3. ASSUME NEW v \in Worker, ~ job'[v].moved
        PROVE  StillTrue(at'[v], job'[v], lobby', search')
    <2>1. CASE ClientStarts
      BY <1>3, <2>1 DEF ClientStarts, LeagueInv, ReadingInv
    <2>2. CASE MovesOn \/ ClientCloses
      <3>1. v \notin Readers
        <4>1. job[v] \in Frames
          BY <1>0 DEF LeagueTypeOK
        <4>2. MovesOn => job'[v].moved = (job[v].moved \/ v \in Readers)
          BY <4>1 DEF MovesOn, Frames
        <4>3. ClientCloses => job'[v].moved = (job[v].moved \/ v \in Readers)
          BY <4>1 DEF ClientCloses, Frames
        <4>4. QED
          BY <1>3, <2>2, <4>2, <4>3
      <3>2. QED
        BY <1>1, <3>1 DEF Readers, StillTrue
    <2>3. QED
      BY <2>1, <2>2 DEF Player, PlayerChangesLobby, SearchMoves
  <1>4. LeagueTypeOK'
    BY <1>0, <1>1, <1>2 DEF LeagueTypeOK
  <1>5. PlacesInv' /\ LockInv'
    BY <1>1, <1>2 DEF LeagueInv, PlacesInv, LockInv
  <1>6. QED
    BY <1>3, <1>4, <1>5 DEF LeagueInv, ReadingInv

\* Time passes for the threads that sleep or wait for the client.
LEMMA TimeStep ==
    ASSUME LeagueInv, TimePasses
    PROVE  LeagueInv'
  <1>0. LeagueTypeOK
    BY DEF LeagueInv
  <1>1. UNCHANGED <<client, lobby, search, lock>>
    BY DEF TimePasses, clientVars
  <1>2. \A v \in Worker : at'[v] = IF at[v] = "sleep" THEN "poll" ELSE at[v]
    BY DEF TimePasses
  <1>3. at' \in [Worker -> LeaguePlaces]
    BY <1>0 DEF TimePasses, LeagueTypeOK, LeaguePlaces
  <1>4. ASSUME NEW v \in Worker
        PROVE  /\ job'[v] \in Frames /\ job'[v].op = job[v].op /\ job'[v].saw = job[v].saw
               /\ job'[v].queue = job[v].queue /\ job'[v].moved = job[v].moved
    <2>1. job[v] \in Frames
      BY <1>0 DEF LeagueTypeOK
    <2>2. CASE Sleeping(v)
      <3>1. job'[v] = [job[v] EXCEPT !.waits = job[v].waits - 1]
        BY <2>2 DEF TimePasses
      <3>2. job[v].waits - 1 \in 0..(START_TIMEOUT + MATCH_WAIT)
        BY <2>1, <2>2, LeagueConstants DEF Sleeping, Frames
      <3>3. QED
        BY <2>1, <3>1, <3>2 DEF Frames
    <2>3. CASE ~ Sleeping(v)
      BY <2>1, <2>3 DEF TimePasses
    <2>4. QED
      BY <2>2, <2>3
  <1>5. LeagueTypeOK'
    <2>1. job' \in [Worker -> Frames]
      BY <1>4 DEF TimePasses
    <2>2. QED
      BY <1>0, <1>1, <1>3, <2>1 DEF LeagueTypeOK
  <1>6. PlacesInv' /\ LockInv'
    BY <1>1, <1>2, <1>4 DEF LeagueInv, PlacesInv, LockInv, Passes, Confirmed, Locked
  <1>7. ReadingInv'
    BY <1>1, <1>2, <1>4 DEF LeagueInv, ReadingInv, StillTrue
  <1>8. QED
    BY <1>5, <1>6, <1>7 DEF LeagueInv

LEMMA LeagueInvStep == LeagueInv /\ [LeagueNext]_leagueVars => LeagueInv'
  <1>1. LeagueInv /\ UNCHANGED leagueVars => LeagueInv'
    BY DEF leagueVars, clientVars, LeagueInv, LeagueTypeOK, PlacesInv, LockInv, ReadingInv
  <1>2. ASSUME LeagueInv, LeagueNext
        PROVE  LeagueInv'
    BY <1>2, BeginStep, DiscoveryStep, ReadStep, ActStep, PlayerStep, TimeStep
       DEF LeagueNext, Step
  <1>3. QED
    BY <1>1, <1>2

\* The invariant of the League adapter is inductive, whatever the scheduling.
THEOREM LeagueInvariant == LeagueInit /\ [][LeagueNext]_leagueVars => []LeagueInv
  BY LeagueInvInit, LeagueInvStep, PTL

\* A search is started, and cancelled, only in the state that the request read,
\* unless the client moved by itself.
THEOREM ActsOnItsReading == LeagueSpec => ActsOnWhatItSaw
  <1>1. LeagueInv =>
          [\A w \in Worker :
             /\ at[w] = "post" /\ search' # search /\ at'[w] # "post" /\ ~job[w].moved
                  => search = "idle" /\ lobby = job[w].queue
             /\ at[w] = "delete" /\ search' # search /\ at'[w] # "delete" /\ ~job[w].moved
                  => search \in Running]_leagueVars
    BY DEF LeagueInv, ReadingInv, StillTrue
  <1>2. QED
    BY <1>1, LeagueInvariant, PTL DEF LeagueSpec, ActsOnWhatItSaw
-----------------------------------------------------------------------------
(* The five parts side by side *)

\* A step of LocalTools is a step, or none, of each of the five parts.
LEMMA ToolsStep ==
    ASSUME [Next]_toolVars
    PROVE  /\ [LeagueNext]_leagueVars /\ [TimersNext]_timerVars
           /\ [ProcessNext]_processVars /\ [MessagesNext]_messageVars
           /\ [AudioNext]_audioVars
  BY DEF Next, toolVars

\* What TLC checks of LocalTools is a behaviour of each of the five, so the
\* theorems above speak of it.
THEOREM ToolsImplementTheirParts ==
    Spec => LeagueSpec /\ TimersSpec /\ ProcessSpec /\ MessagesSpec /\ AudioSpec
  <1>1. Init => LeagueInit /\ TimersInit /\ ProcessInit /\ MessagesInit /\ AudioInit
    BY DEF Init
  <1>2. QED
    BY <1>1, ToolsStep, PTL DEF Spec, LeagueSpec, TimersSpec, ProcessSpec, MessagesSpec,
                                   AudioSpec
=============================================================================
