---------------------------- MODULE TextCommands ----------------------------
(****************************************************************************)
(* From a sentence to a tool: PipaCore._route_transcript with the command   *)
(* catalogue the control panel edits.  A person says a sentence in one of   *)
(* the forms the built-in rules know, or the phrase of a command; the core  *)
(* reads the catalogue again for every sentence, so it meets the panel's    *)
(* file in whatever state the edits, or a hand, left it.                    *)
(****************************************************************************)
EXTENDS Intents

CONSTANTS Who,         \* names of contacts, applications and songs
          What,        \* messages, queries and the like
          Known,       \* contacts of the local file, with a telephone and a channel
          Queues,      \* what is said after asking for a match
          Editable,    \* the commands the panel touches
          Edits,       \* <<command, phrase>>: phrases typed in the panel
          HandEdits    \* the same, written into the file by hand

VARIABLES prefs,       \* saved preferences: [enabled, phrase] per changed command
          damaged,     \* the file cannot be read
          byHand,      \* history: somebody edited the file without the panel
          turn         \* the sentence being routed and its answer

textVars == <<prefs, damaged, byHand, turn>>

Ids == {COMMANDS[i].id : i \in DOMAIN COMMANDS}
Source(id) == COMMANDS[CHOOSE i \in DOMAIN COMMANDS : COMMANDS[i].id = id]

NoCommand == "none"
Idle == [phase |-> "idle"]

Enabled(id) == id \in DOMAIN prefs => prefs[id].enabled

\* The command with its saved phrase instead of its own.
Present(command) ==
  IF command.id \in DOMAIN prefs THEN [command EXCEPT !.phrase = prefs[command.id].phrase]
                                 ELSE command

\* validate_command_catalog on one command: the editable part is its phrase.
ValidCommand(command) ==
  Cardinality(Placeholders(command.phrase)) = Len(command.parameters)

\* A preference for a command that does not exist is kept and ignored.
CatalogFails == damaged \/ \E id \in Ids \cap DOMAIN prefs :
                              Enabled(id) /\ ~ValidCommand(Present(Source(id)))

\* The enabled commands, each at its place in COMMANDS.
get_command_catalog ==
  [i \in {j \in DOMAIN COMMANDS : Enabled(COMMANDS[j].id)} |-> Present(COMMANDS[i])]

----------------------------------------------------------------------------
(* The control panel and its file. *)

Store(id, preference) ==
  prefs' = [i \in DOMAIN prefs \cup {id} |-> IF i = id THEN preference ELSE prefs[i]]

update_command_control(id, enabled, phrase) ==
  /\ turn = Idle /\ ~damaged /\ id \in Ids
  /\ ValidCommand([Source(id) EXCEPT !.phrase = phrase])
  /\ Store(id, [enabled |-> enabled, phrase |-> phrase])
  /\ UNCHANGED <<damaged, byHand, turn>>

reset_command_control(id) ==
  /\ turn = Idle /\ ~damaged /\ id \in Ids \cap DOMAIN prefs
  /\ prefs' = [i \in DOMAIN prefs \ {id} |-> prefs[i]]
  /\ UNCHANGED <<damaged, byHand, turn>>

\* The file is changed, spoilt or deleted outside the program.
EditByHand(id, phrase) ==
  /\ turn = Idle /\ ~damaged
  /\ Store(id, [enabled |-> TRUE, phrase |-> phrase])
  /\ byHand' = TRUE
  /\ UNCHANGED <<damaged, turn>>

Spoil == /\ turn = Idle /\ ~damaged
         /\ damaged' = TRUE /\ byHand' = TRUE
         /\ UNCHANGED <<prefs, turn>>

Delete == /\ turn = Idle /\ byHand
          /\ damaged' = FALSE /\ byHand' = FALSE /\ prefs' = <<>>
          /\ UNCHANGED turn

----------------------------------------------------------------------------
(* Sentences. *)

Spoken(capture) ==
  CASE capture \in {ANY, PERSON} -> Who
    [] capture = ALL   -> What
    [] capture = REST  -> Queues
    [] capture = PHONE -> Word(Phone \cup LocalPhone)
    [] capture = ID    -> Word(Snowflake)
    [] capture = NUM3  -> Word({"0", "300", "301"})
    [] capture = NUM   -> Word({"5"})
    [] capture = TIMER -> Word({"x1"})
    [] capture = URL   -> Word(Link \cup BadLink)
    [] capture = MEDIA -> Word({"next"})

Typed(parameter) ==
  CASE parameter.name = "timer_id" -> What \cup Word({"x1"})
    [] parameter.kind \in {"contact", "app"} -> Who
    [] parameter.kind \in {"text", "message"} /\ parameter.name # "timer_id" -> What
    [] parameter.kind = "phone" -> Word(Phone \cup LocalPhone)
    [] parameter.kind \in {"channel_id", "guild_id"} -> Word(Snowflake)
    [] parameter.kind = "integer" -> Word({"0", "120", "301"})
    [] parameter.kind = "queue" -> Word({"aram"})
    [] parameter.kind = "action" -> Word({"stop"})
    [] parameter.kind = "url" -> Word(Link \cup BadLink)

\* The sentences of a pattern, each with the words its captures stand for.
Sentences(pattern) ==
  FoldRight(LAMBDA item, rest :
              IF item \in Captures
              THEN {[words |-> v \o s.words, got |-> <<v>> \o s.got] : v \in Spoken(item), s \in rest}
              ELSE {[words |-> v \o s.words, got |-> s.got] : v \in item, s \in rest},
            pattern, {[words |-> <<>>, got |-> <<>>]})

\* The phrase with the k-th placeholder replaced by the k-th value.
Fill(phrase, values) ==
  FoldLeft(LAMBDA s, w : IF w = "<>" THEN [words |-> s.words \o values[s.next], next |-> s.next + 1]
                         ELSE [s EXCEPT !.words = Append(@, w)],
           [words |-> <<>>, next |-> 1], phrase).words

Say(words, form, command, wanted) ==
  /\ turn' = [phase |-> "said", words |-> words, form |-> form, command |-> command,
              wanted |-> wanted]
  /\ UNCHANGED <<prefs, damaged, byHand>>

\* A sentence of a built-in form, said while the panel is untouched.
SayForm(i) ==
  /\ turn = Idle /\ prefs = <<>> /\ ~byHand
  /\ \E s \in Sentences(Rules[i].on) : Say(s.words, i, NoCommand, Reading(Rules[i], s.got))

\* The phrase of a command as the panel shows it.
SayPhrase(id) ==
  /\ turn = Idle
  /\ \E c \in {Present(Source(id))} :
     /\ ValidCommand(c)
     /\ \E values \in [DOMAIN c.parameters -> Who \cup What \cup
                       UNION {Typed(c.parameters[i]) : i \in DOMAIN c.parameters}] :
          /\ \A i \in DOMAIN values : values[i] \in Typed(c.parameters[i])
          /\ Say(Fill(c.phrase, values), 0, id,
                 Intent(c.tool, c.given \cup {Argument(c.parameters[i].name, values[i]) :
                                              i \in DOMAIN values}))

----------------------------------------------------------------------------
(* Routing. *)

\* PipaCore reads the catalogue anew; one it cannot read is an empty one.
Commands == IF CatalogFails THEN <<>> ELSE get_command_catalog

AnyIntent(intent, commands) == intent
OnlyEnabled(intent, commands) ==
  IF intent.tool \in {commands[i].tool : i \in DOMAIN commands} THEN intent ELSE NoIntent

Read(words, commands) ==
  LET read == parse_catalog_intent(words, commands)
  IN IF read = NoIntent THEN parse_text_intent(words) ELSE read

\* Tools that look their contact up before they ask for confirmation, and the
\* refusal of one that the local file does not have.
Resolving == {"whatsapp_contact", "whatsapp_contact_open", "discord_contact", "discord_call"}
PreparerFails(intent) ==
  intent.tool \in Resolving /\ \E a \in intent.args : a[1] = "contact" /\ a[2] \notin Known

\* What _run_tool answers a device that can confirm, up to the tool itself.
Status(intent) ==
  IF intent = NoIntent THEN "unsupported_text_intent"
  ELSE IF ~validate_arguments(intent.tool, intent.args) \/ PreparerFails(intent)
       THEN "tool_failed"
  ELSE IF intent.tool \in SafeTools THEN "completed" ELSE "needs_confirmation"

route_transcript ==
  /\ turn.phase = "said"
  /\ \E commands \in {Commands} : \E read \in {Read(turn.words, commands)} :
       LET intent == OnlyEnabled(read, commands)
       IN turn' = [phase |-> "routed", words |-> turn.words, form |-> turn.form,
                   command |-> turn.command, wanted |-> turn.wanted,
                   intent |-> intent, status |-> Status(intent)]
  /\ UNCHANGED <<prefs, damaged, byHand>>

catalog_response ==
  /\ turn = Idle
  /\ turn' = [phase |-> "catalog",
              status |-> IF CatalogFails THEN "catalog_unavailable" ELSE "catalog"]
  /\ UNCHANGED <<prefs, damaged, byHand>>

Answered == /\ turn.phase \in {"routed", "catalog"}
            /\ turn' = Idle
            /\ UNCHANGED <<prefs, damaged, byHand>>

TextInit == prefs = <<>> /\ damaged = FALSE /\ byHand = FALSE /\ turn = Idle

TextNext ==
  \/ \E id \in Editable : \/ update_command_control(id, FALSE, Source(id).phrase)
                          \/ reset_command_control(id)
  \/ \E e \in Edits : update_command_control(e[1], TRUE, e[2])
  \/ \E e \in HandEdits : EditByHand(e[1], e[2])
  \/ Spoil \/ Delete
  \/ \E i \in DOMAIN Rules : SayForm(i)
  \/ \E id \in Ids : SayPhrase(id)
  \/ route_transcript \/ catalog_response \/ Answered

TextSpec == TextInit /\ [][TextNext]_textVars

----------------------------------------------------------------------------
(* Properties. *)

Routed == turn.phase = "routed"

Families ==
  {{"whatsapp_open", "whatsapp_compose", "whatsapp_contact", "whatsapp_contact_open",
    "whatsapp_phone_open"},
   {"discord_open_app", "discord_open", "discord_contact", "discord_call",
    "discord_call_channel"},
   {"league_open", "league_search", "league_status", "league_search_status", "league_wait",
    "league_cancel"},
   {"music_open", "music_search", "media_action"}}
Family(tool) == UNION {F \in Families : tool \in F} \cup {tool}

\* "inicia el matchmaking en league": the optional preposition of the rule
\* (intents.py:894) takes the one that names the game, so what is left, "league",
\* is no queue and the rule gives up.
LosesItsGame(words) ==
  fullmatch(<<Word({"inicia", "empieza", "comienza"}), El, One("matchmaking"),
              Word({"en", "de"}), El, Game>>, words) # <<>>

\* A sentence in one of the forms of a built-in integration is never taken by
\* a rule of another one, nor by the fallback that opens whatever is named
\* (intents.py:917-920: "Keep this broad fallback last so built-in integrations
\* retain their richer, typed intents").  One form does not keep that promise:
\* a matchmaking in the game alone is read by the fallback as an application
\* of that name, or by nothing; the property says so instead of leaving the
\* sentence out.
BuiltInsKeepTheirIntents ==
  (Routed /\ turn.form > 0)
     => \/ turn.intent.tool \in Family(turn.wanted.tool)
        \/ LosesItsGame(turn.words) /\ turn.intent.tool \in {"open_app", "none"}

Messaging == {"whatsapp_compose", "whatsapp_contact"}
Recipient(intent) == {a[2] : a \in {b \in intent.args : b[1] \in {"phone", "contact"}}}
Dictated(intent) == {a[2] : a \in {b \in intent.args : b[1] = "message"}}

\* One of the texts that were said has a colon.
SaysColon(intent) == \E a \in intent.args : a[1] \in DOMAIN MaxText /\ Contains(a[2], ":")

\* What is taken for a message has the recipient it was dictated for and the
\* text that was dictated, whichever of the fourteen forms was used.  Only a
\* colon inside the text may move the border between the two
\* (intents.py:326-371: "a ana y dile nota: llego" is read as a message for
\* "ana y dile nota"); no contact has such a name, so the preparer of the
\* confirmation refuses it and nothing is put up to be confirmed.
NoMessageIsMisdelivered ==
  (Routed /\ turn.intent.tool \in Messaging)
     => \/ /\ turn.wanted.tool \in Messaging
           /\ Recipient(turn.intent) = Recipient(turn.wanted)
           /\ Dictated(turn.intent) = Dictated(turn.wanted)
        \/ turn.status = "tool_failed" /\ SaysColon(turn.wanted)

\* A message dictated in a built-in form, to a contact that exists or to a
\* number, and without a colon to mistake, is prepared, as the tests of the
\* built-in rules have it (test_integrations.py:864).  Not true of the core: it
\* asks the catalogue first (core.py:502-504), and "abre WhatsApp para
\* <contacto>" takes the whole sentence for the name of a contact.
MessagesArePrepared ==
  (/\ Routed /\ turn.form > 0 /\ turn.wanted.tool \in Messaging
   /\ Recipient(turn.wanted) \subseteq Known \cup Word(Phone)
   /\ ~SaysColon(turn.wanted))
     => turn.status = "needs_confirmation" /\ Dictated(turn.intent) = Dictated(turn.wanted)

\* The enabled commands that show the phrase of this one, with as many typed
\* fields, and can read the sentence: update_command_control compares a phrase
\* with no other.
SamePhrase(id, words) ==
  LET mine == Present(Source(id))
  IN {i \in DOMAIN COMMANDS :
        LET c == Present(COMMANDS[i])
        IN /\ Enabled(c.id) /\ c.phrase = mine.phrase /\ TypedFields(c) = TypedFields(mine)
           /\ CommandReading(c, words) # Pass}

Values(intent) == {a[2] : a \in intent.args}

\* The phrase the panel shows for an enabled command runs that command with
\* the values said, whatever else is edited or disabled, unless the panel was
\* given the phrase twice: then it runs the first of the commands that share
\* it (integration_catalog.py:777-788, intents.py:163-203), with the same
\* values.  A value longer than the command takes is not for the catalogue.
PhraseRunsItsCommand ==
  (/\ Routed /\ turn.command # NoCommand /\ ~CatalogFails /\ Enabled(turn.command)
   /\ ~\E a \in turn.wanted.args : TooLong(a[1], a[2]))
     => LET first == COMMANDS[Min(SamePhrase(turn.command, turn.words))]
        IN IF first.id = turn.command THEN turn.intent = turn.wanted
           ELSE turn.intent.tool = first.tool /\ Values(turn.intent) = Values(turn.wanted)

\* A tool none of whose commands is enabled is not reached by any sentence,
\* and a file that cannot be read enables nothing.
DisabledIsSilent ==
  (Routed /\ turn.intent # NoIntent)
     => ~damaged /\ \E i \in DOMAIN COMMANDS : /\ COMMANDS[i].tool = turn.intent.tool
                                                /\ Enabled(COMMANDS[i].id)

\* What the readers cannot know of a value they recognise by its shape: that a
\* number is outside the tool's range, that a telephone is not an international
\* one or an address not an allowed one, that a text is no timer's name, and how
\* long a text may be (the built-in rules do not measure it).
OnlyTheToolKnows(name, value) ==
  \/ name \in {"seconds", "percent"} /\ value \in Nat
  \/ name = "phone" /\ Fits(PHONE, value)
  \/ name = "url" /\ Fits(URL, value)
  \/ name = "timer_id"
  \/ TooLong(name, value)

\* What either reader produces is what the tool takes: the argument names are
\* those of its contract, each value has the shape the contract asks for, and a
\* refusal has a reason only the tool, or the list of contacts, could give.
ArgumentsFitTheTool ==
  (Routed /\ turn.intent # NoIntent)
     => /\ NamesFit(turn.intent.tool, turn.intent.args)
        /\ \A a \in turn.intent.args :
             ArgumentFits(turn.intent.tool, a[1], a[2]) \/ OnlyTheToolKnows(a[1], a[2])
============================================================================
