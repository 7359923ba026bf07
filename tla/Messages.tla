------------------------------ MODULE Messages ------------------------------
(***************************************************************************)
(* Private messages: a WhatsApp message or a chat opened for a contact, by *)
(* a confirmed tool (tools/agent_catalog.py) or by a route of the agent    *)
(* (main.py), while the owner edits the contacts (configure_contacts.py)   *)
(* and the panel changes the settings (tools/control_config.py).           *)
(*                                                                         *)
(* The settings are in a file that the panel's threads load, change and    *)
(* replace without a lock; the token is in the credential store. Every     *)
(* access to one of them is a step.                                        *)
(***************************************************************************)
EXTENDS Naturals

CONSTANTS Phone,        \* destinations
          NoPhone

ASSUME MessagesConstants == Phone # {}

VARIABLES
    mode,       \* the mode of WhatsApp, the part of the file that matters
                \* here; the other part is the preferences of the commands
    token,      \* is there a token? One that comes from the environment is
                \* a token that can never be deleted, see UpdateFails
    book,       \* the destination that the contact's alias stands for
    panel,      \* a WhatsApp update and a command update being served
    msg         \* a message or chat on its way

messageVars == <<mode, token, book, panel, msg>>
settingVars == <<mode, token, panel>>

Modes == {"manual", "cloud_api"}
Forms == {"whatsapp", "command"}

\* The frame of an update: copy is the mode that it will save, store and forget
\* what is to be done to the token afterwards, and current whether nobody has
\* replaced the file since the update last read or wrote it.
NoUpdate == [at |-> "rest", copy |-> "manual", store |-> FALSE,
             forget |-> FALSE, current |-> FALSE]

\* The frame of a message: frozen is what prepare_* resolved when the
\* confirmation was created, on whether automatic sending was on at some moment
\* since the message was accepted, done what became of it.
NotFrozen == [dest |-> NoPhone, auto |-> FALSE]
NoMessage == [at |-> "rest", via |-> "none", dest |-> NoPhone, auto |-> FALSE,
              cloud |-> FALSE, frozen |-> NotFrozen, on |-> FALSE, done |-> "nothing"]

MessagesTypeOK ==
    /\ mode \in Modes /\ token \in BOOLEAN /\ book \in Phone
    /\ panel \in [Forms -> [at : {"rest", "save", "store", "forget"},
                            copy : Modes, store : BOOLEAN, forget : BOOLEAN,
                            current : BOOLEAN]]
    /\ msg \in [at : {"rest", "see", "see_token", "pending", "settings", "token",
                      "post"},
                via : {"none", "tool", "chat", "discord", "route"},
                dest : Phone \cup {NoPhone}, auto : BOOLEAN, cloud : BOOLEAN,
                frozen : [dest : Phone \cup {NoPhone}, auto : BOOLEAN],
                on : BOOLEAN, done : {"nothing", "opened", "sent"}]

MessagesInit ==
    /\ mode = "manual" /\ token = FALSE /\ book = CHOOSE p \in Phone : TRUE
    /\ panel = [f \in Forms |-> NoUpdate] /\ msg = NoMessage

-----------------------------------------------------------------------------
(* The panel *)

\* load_control_config, at the start of every change.
LoadControl == mode

Begin(f, copy, store, forget) ==
    /\ panel[f].at = "rest"
    /\ panel' = [panel EXCEPT ![f] = [at |-> "save", copy |-> copy, store |-> store,
                                      forget |-> forget, current |-> TRUE]]
    /\ UNCHANGED <<mode, token, book, msg>>

\* api_control_update_whatsapp up to the load of set_whatsapp_settings.
AllowedUpdate(automatic, store, forget) ==
    automatic => ~forget /\ (store \/ token)
UpdateWhatsApp(automatic, store, forget) ==
    /\ AllowedUpdate(automatic, store, forget)
    /\ Begin("whatsapp", IF automatic THEN "cloud_api" ELSE "manual", store, forget)

\* set_command_preference and reset_command_preference: the mode is saved as
\* it was loaded.
UpdateCommand == Begin("command", LoadControl, FALSE, FALSE)

\* A message that is past its confirmation has seen automatic sending on.
Seen(m) == [msg EXCEPT !.on = @ \/ (m = "cloud_api"
                                    /\ msg.at \in {"settings", "token", "post"})]

AfterSave(f) ==
    IF panel[f].store THEN "store" ELSE IF panel[f].forget THEN "forget" ELSE "rest"

SaveControl(f) ==
    /\ panel[f].at = "save"
    /\ mode' = panel[f].copy
    /\ panel' = [g \in Forms |->
                   IF g # f THEN [panel[g] EXCEPT !.current = FALSE]
                   ELSE IF AfterSave(f) = "rest" THEN NoUpdate
                   ELSE [panel[f] EXCEPT !.at = AfterSave(f), !.copy = "manual",
                                          !.current = TRUE]]
    /\ msg' = Seen(mode')
    /\ UNCHANGED <<token, book>>

\* store_whatsapp_access_token, then delete_whatsapp_access_token.
StoreToken ==
    /\ panel["whatsapp"].at = "store"
    /\ token' = TRUE
    /\ panel' = [panel EXCEPT !["whatsapp"] =
                   IF @.forget THEN [@ EXCEPT !.at = "forget"] ELSE NoUpdate]
    /\ UNCHANGED <<mode, book, msg>>

DeleteToken ==
    /\ panel["whatsapp"].at = "forget"
    /\ token' = FALSE
    /\ panel' = [panel EXCEPT !["whatsapp"] = NoUpdate]
    /\ UNCHANGED <<mode, book, msg>>

\* The file cannot be replaced, the token is not accepted or its store fails,
\* the token comes from the environment: what was done before stays done.
UpdateFails(f) ==
    /\ panel[f].at \in {"save", "store", "forget"}
    /\ panel' = [panel EXCEPT ![f] = NoUpdate]
    /\ UNCHANGED <<mode, token, book, msg>>

\* configure_contacts --write, or the file edited by its owner.
EditContacts ==
    /\ \E p \in Phone : p # book /\ book' = p
    /\ UNCHANGED <<settingVars, msg>>

-----------------------------------------------------------------------------
(* Messages *)

Ends(done, dest) ==
    msg' = [msg EXCEPT !.at = "rest", !.done = done, !.dest = dest, !.auto = FALSE,
                         !.cloud = FALSE]

\* resolve_whatsapp_contact or resolve_discord_contact, or a phone as given; an
\* unknown contact ends the request here. A chat is a WhatsApp contact without a
\* message, prepared like one with a message.
Ask(via, p) ==
    /\ msg.at = "rest"
    /\ IF via = "discord"
       THEN msg' = [NoMessage EXCEPT !.at = "pending", !.via = via, !.dest = p,
                                     !.frozen = [dest |-> p, auto |-> FALSE]]
       ELSE msg' = [NoMessage EXCEPT !.at = "see", !.via = via, !.dest = p]
    /\ UNCHANGED <<settingVars, book>>
AskContact(via) == Ask(via, book)
AskPhone(via, p) == via \in {"tool", "route"} /\ Ask(via, p)

\* whatsapp_automatic_send_active: the settings, then the token; either read may
\* raise, which ends the request.
SeeFails ==
    /\ msg.at \in {"see", "see_token"}
    /\ msg' = NoMessage
    /\ UNCHANGED <<settingVars, book>>

SeeSettings ==
    /\ msg.at = "see"
    /\ msg' = [msg EXCEPT !.at = "see_token", !.cloud = mode = "cloud_api"]
    /\ UNCHANGED <<settingVars, book>>

\* The tool asks for confirmation with what prepare_* resolved (the summary
\* shown to the device is the same in both modes), and the handler of a chat does
\* not look at _automatic_send; the route goes straight on.
SeeToken ==
    /\ msg.at = "see_token"
    /\ LET auto == msg.cloud /\ token /\ msg.via # "chat"
       IN  IF msg.via # "route"
           THEN msg' = [msg EXCEPT !.at = "pending", !.auto = auto, !.cloud = FALSE,
                                   !.frozen = [dest |-> msg.dest, auto |-> auto]]
           ELSE IF auto
           THEN msg' = [msg EXCEPT !.at = "settings", !.auto = TRUE, !.cloud = FALSE,
                                   !.on = mode = "cloud_api"]
           ELSE Ends("opened", msg.dest)
    /\ UNCHANGED <<settingVars, book>>

\* The user says yes: the handler takes _resolved_phone and _automatic_send
\* from the prepared arguments and reads neither again.
ResolveAgain == book
Destination == msg.dest
Automatic == msg.auto
Accept ==
    /\ msg.at = "pending"
    /\ IF Automatic
       THEN msg' = [msg EXCEPT !.at = "settings", !.dest = Destination,
                               !.on = mode = "cloud_api"]
       ELSE Ends("opened", Destination)
    /\ UNCHANGED <<settingVars, book>>

Decline ==
    /\ msg.at = "pending"
    /\ msg' = NoMessage
    /\ UNCHANGED <<settingVars, book>>

\* send_whatsapp_cloud_message: settings, token, request.
SendSettings ==
    /\ msg.at = "settings"
    /\ msg' = [msg EXCEPT !.at = "token", !.cloud = mode = "cloud_api"]
    /\ UNCHANGED <<settingVars, book>>

TrustTheConfirmation == token
MaySend == msg.cloud /\ token
SendToken ==
    /\ msg.at = "token"
    /\ IF MaySend THEN msg' = [msg EXCEPT !.at = "post", !.cloud = FALSE]
       ELSE Ends("nothing", msg.dest)
    /\ UNCHANGED <<settingVars, book>>

\* The service takes the message, although its answer may be lost; or it
\* does not.
Post ==
    /\ msg.at = "post"
    /\ \E done \in {"sent", "nothing"} : Ends(done, msg.dest)
    /\ UNCHANGED <<settingVars, book>>

MessagesNext ==
    \/ \E automatic, store, forget \in BOOLEAN : UpdateWhatsApp(automatic, store, forget)
    \/ UpdateCommand
    \/ \E f \in Forms : SaveControl(f) \/ UpdateFails(f)
    \/ StoreToken \/ DeleteToken \/ EditContacts
    \/ \E via \in {"tool", "chat", "discord", "route"} :
          AskContact(via) \/ \E p \in Phone : AskPhone(via, p)
    \/ SeeSettings \/ SeeToken \/ SeeFails \/ Accept \/ Decline
    \/ SendSettings \/ SendToken \/ Post

MessagesSpec == MessagesInit /\ [][MessagesNext]_messageVars

-----------------------------------------------------------------------------
(* Properties *)

\* A confirmed message or chat goes to the destination that was resolved when
\* the confirmation was created, and the agent sends it itself only if sending
\* was automatic then, whatever happened to the contacts and to the settings
\* while the question was open.
SentAsConfirmed ==
    msg.at = "rest" /\ msg.via \in {"tool", "chat", "discord"} /\ msg.done # "nothing" =>
       /\ msg.dest = msg.frozen.dest
       /\ msg.done = "sent" => msg.frozen.auto

\* Nothing is sent by the agent unless automatic sending was on at some moment
\* after the message was accepted: a confirmation given before the owner
\* switched it off does not send.
SentWhileOn == msg.done = "sent" => msg.on

-----------------------------------------------------------------------------
(* The inductive invariant *)

\* An open question, and a message that was accepted, are as they were shown;
\* Discord asks nothing of the settings.
ConfirmedInv ==
    /\ msg.at \in {"see", "see_token"} => msg.via # "discord"
    /\ msg.at = "pending" => msg.frozen = [dest |-> msg.dest, auto |-> msg.auto]
    /\ msg.at \in {"settings", "token", "post"} /\ msg.via \in {"tool", "chat", "discord"}
          => msg.frozen = [dest |-> msg.dest, auto |-> TRUE]
    /\ msg.at # "rest" => msg.done = "nothing"
    /\ SentAsConfirmed

\* An accepted message has noticed that sending is on, and goes past the two
\* reads of send_whatsapp_cloud_message only if it was on at the first.
OnInv ==
    /\ msg.at \in {"settings", "token", "post"} /\ mode = "cloud_api" => msg.on
    /\ msg.at = "token" /\ msg.cloud => msg.on
    /\ msg.at = "post" => msg.on
    /\ SentWhileOn

MessagesInv == MessagesTypeOK /\ ConfirmedInv /\ OnInv
=============================================================================
