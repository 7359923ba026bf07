------------------------------ MODULE Intents ------------------------------
(****************************************************************************)
(* What a sentence means to the agent: parse_text_intent and                *)
(* parse_catalog_intent of backend/pipa_core/intents.py, the command        *)
(* catalogue of tools/integration_catalog.py and the argument contracts of  *)
(* tools/agent_catalog.py.                                                  *)
(*                                                                          *)
(* A sentence is a sequence of words: lower case, without accents (both     *)
(* parsers ignore case, and the sentences are spelt as each pattern         *)
(* accepts), single spaces, a colon as a word of its own.  A word never     *)
(* runs into the next one, so "canciones" or "al12345" are not modelled.    *)
(* An address or a telephone number is one word and is said only where one  *)
(* is asked for: inside a message its colon counts like any other, and is   *)
(* said as the colon of MCWhat.                                             *)
(* A regular expression is a sequence of items, each a set of word          *)
(* sequences it may consume (an optional item contains the empty one) or a  *)
(* capture; it is matched with the backtracking order of Python's re.       *)
(****************************************************************************)
EXTENDS Integers, Sequences, SequencesExt, FiniteSets, TLC

CONSTANTS Phone,        \* international telephone numbers, with their plus
          LocalPhone,   \* numbers the patterns take and normalize_phone refuses
          Snowflake,    \* Discord identifiers of 17 to 20 digits
          Link,         \* http(s) addresses
          BadLink       \* addresses the patterns take and validate_external_url refuses

\* The numerals that occur, and what int() makes of them.  An identifier read
\* as a number is beyond every limit of a tool.
Numerals == {"0", "5", "120", "300", "301", "604801"}
HUGE == 1000000000
Number == "0" :> 0 @@ "5" :> 5 @@ "120" :> 120 @@ "300" :> 300 @@ "301" :> 301
          @@ "604801" :> 604801 @@ [i \in Snowflake |-> HUGE]

----------------------------------------------------------------------------
(* Patterns. *)

Word(S) == {<<w>> : w \in S}
One(w) == {<<w>>}
Opt(S) == S \cup {<<>>}

ANY    == {<<"(.+?)">>}                        \* lazy
PERSON == {<<"([^:]+?)">>}                     \* lazy, without a colon
ALL    == {<<"(.+)">>}                         \* greedy
REST   == {<<"( .+)?">>}                       \* greedy, possibly absent
PHONE  == {<<"([+\\d][\\d\\s().-]{6,24})">>}
ID     == {<<"([0-9]{17,20})">>}
NUM3   == {<<"(\\d{1,3})">>}
NUM    == {<<"(\\d+)">>}
TIMER  == {<<"([A-Za-z0-9_-]{1,32})">>}
URL    == {<<"(https?://\\S+)">>}
MEDIA == {<<"(play_pause|next|previous|stop)">>}

Actions == {"play_pause", "next", "previous", "stop"}
Captures == {ANY, PERSON, ALL, REST, PHONE, ID, NUM3, NUM, TIMER, URL, MEDIA}

HasColon == {":"} \cup Link \cup BadLink

\* May the capture take exactly these words?
Fits(capture, words) ==
  LET only(S) == Len(words) = 1 /\ Head(words) \in S
  IN CASE capture \in {ANY, ALL} -> words # <<>>
       [] capture = REST   -> TRUE
       [] capture = PERSON -> words # <<>> /\ ToSet(words) \cap HasColon = {}
       [] capture = PHONE  -> only(Phone \cup LocalPhone \cup Snowflake)
       [] capture = ID     -> only(Snowflake)
       [] capture = NUM3   -> only({n \in Numerals : Len(n) <= 3})
       [] capture = NUM    -> only(Numerals \cup Snowflake)
       [] capture = TIMER  -> /\ Len(words) = 1 /\ Len(Head(words)) <= 32
                              /\ ~only(Phone \cup LocalPhone \cup HasColon)
       [] capture = URL    -> only(Link \cup BadLink)
       [] capture = MEDIA -> only(Actions)

Ends(u, p, item) ==
  IF item \in Captures
  THEN {e \in p..(Len(u) + 1) : Fits(item, SubSeq(u, p, e - 1))}
  ELSE {p + Len(s) : s \in {t \in item : /\ p + Len(t) <= Len(u) + 1
                                         /\ \A i \in DOMAIN t : u[p + i - 1] = t[i]}}

\* The captures that take as little as they can.
Lazy == {ANY, PERSON}

\* re.fullmatch, item k from word p on: <<>> when it fails, <<captured groups>>
\* else.
\* Every alternation of the source that two alternatives can match at one
\* place is a greedy optional part, so the longest is tried first.
fullmatch(pattern, u) ==
  LET from[k \in 1..(Len(pattern) + 1), p \in 1..(Len(u) + 1)] ==
        IF k > Len(pattern) THEN IF p > Len(u) THEN <<<<>>>> ELSE <<>>
        ELSE LET item == pattern[k]
                 after == [e \in Ends(u, p, item) |-> from[k + 1, e]]
                 good == {e \in DOMAIN after : after[e] # <<>>}
                 end == IF item \in Lazy THEN Min(good) ELSE Max(good)
             IN IF good = {} THEN <<>>
                ELSE IF item \in Captures
                     THEN <<<<SubSeq(u, p, end - 1)>> \o Head(after[end])>>
                     ELSE after[end]
  IN from[1, 1]

----------------------------------------------------------------------------
(* Intents: a tool and its named arguments. *)

Intent(tool, args) == [tool |-> tool, args |-> args]
NoIntent == Intent("none", {})

\* A rule that did not match, or whose result lets the next rule try.
Pass == Intent("pass", {})

Strip(words, prefixes) ==
  LET hits == {p \in prefixes : IsPrefix(p, words) /\ Len(p) < Len(words)}
      longest == CHOOSE p \in hits : \A q \in hits : Len(q) <= Len(p)
  IN IF hits = {} THEN words ELSE SubSeq(words, Len(longest) + 1, Len(words))

clean_music_term(words) == Strip(words, {<<"musica", "de">>, <<"de">>})

music_intent(words) ==
  LET term == clean_music_term(words)
  IN IF term \in {<<>>, <<"musica">>, <<"apple", "music">>, <<"en", "musica">>,
                  <<"en", "apple", "music">>}
     THEN Intent("music_open", {})
     ELSE Intent("music_search", {<<"term", term>>})

\* Words that point at what is selected instead of naming a song.
Deictic == Word({"seleccionada", "seleccionado", "elegida", "elegido"})

whatsapp_recipient_intent(recipient, message) ==
  IF Fits(PHONE, recipient)
  THEN Intent("whatsapp_compose", {<<"phone", recipient>>, <<"message", message>>})
  ELSE Intent("whatsapp_contact", {<<"contact", recipient>>, <<"message", message>>})

LEAGUE_QUEUE_ALIASES ==
  <<>> :> "normal_draft" @@ <<"normal">> :> "normal_draft"
  @@ <<"normal", "draft">> :> "normal_draft" @@ <<"normal_draft">> :> "normal_draft"
  @@ <<"draft">> :> "normal_draft" @@ <<"clasificatoria">> :> "ranked_solo"
  @@ <<"clasificatoria", "solo">> :> "ranked_solo"
  @@ <<"clasificatoria", "flex">> :> "ranked_flex" @@ <<"ranked">> :> "ranked_solo"
  @@ <<"ranked", "solo">> :> "ranked_solo" @@ <<"ranked", "flex">> :> "ranked_flex"
  @@ <<"solo">> :> "ranked_solo" @@ <<"flex">> :> "ranked_flex"
  @@ <<"aram">> :> "aram" @@ <<"swiftplay">> :> "swiftplay"

QUEUE_IDS == {"normal_draft", "ranked_solo", "ranked_flex", "aram", "swiftplay"}

Game == {<<"lol">>, <<"league">>, <<"league", "of", "legends">>}
OfTheGame == {a \o b \o c : a \in {<<"en">>, <<"dentro", "de">>, <<"de">>},
                            b \in Opt(One("el")), c \in Game}
             \cup {a \o c : a \in {<<"dentro", "del">>, <<"del">>}, c \in Game}

league_queue_intent(words) ==
  LET tails == {t \in OfTheGame : IsSuffix(t, words)}
      longest == CHOOSE t \in tails : \A s \in tails : Len(s) <= Len(t)
      named == IF tails = {} THEN words
               ELSE SubSeq(words, 1, Len(words) - Len(longest))
      queue == Strip(named, {<<"de">>, <<"en">>})
  IN IF queue \in DOMAIN LEAGUE_QUEUE_ALIASES
     THEN Intent("league_search", {<<"queue", <<LEAGUE_QUEUE_ALIASES[queue]>>>>})
     ELSE Pass

league_wait_intent(seconds) ==
  IF seconds \in 1..300 THEN Intent("league_wait", {<<"seconds", seconds>>})
                        ELSE NoIntent

\* A rule: a pattern, the names of what it captures and the constant
\* arguments, or the function that reads the captures.
Rule(pattern, tool, names) ==
  [on |-> pattern, tool |-> tool, names |-> names, given |-> {}, by |-> "names"]
Says(phrases, tool) == Rule(<<phrases>>, tool, <<>>)
Acts(phrases, action) ==
  [Says(phrases, "media_action") EXCEPT !.given = {<<"action", <<action>>>>}]
Via(pattern, function) == [Rule(pattern, "", <<>>) EXCEPT !.by = function]

Argument(name, words) ==
  <<name, IF name \in {"seconds", "percent"} THEN Number[Head(words)] ELSE words>>

\* What a rule makes of the groups it captured.
Reading(rule, got) ==
  LET label == <<"label", <<"Pipa timer">>>>
  IN CASE rule.by = "names" ->
            Intent(rule.tool, rule.given \cup {Argument(rule.names[i], got[i]) :
                                               i \in DOMAIN rule.names})
       [] rule.by = "recipient" -> whatsapp_recipient_intent(got[1], got[2])
       [] rule.by = "music" -> music_intent(got[1])
       [] rule.by = "named_song" ->
            IF clean_music_term(got[1]) \in Deictic THEN Pass
            ELSE music_intent(clean_music_term(got[1]))
       [] rule.by = "song" ->
            IF clean_music_term(got[1]) \in Deictic
            THEN Intent("media_action", {<<"action", <<"play_pause">>>>})
            ELSE music_intent(clean_music_term(got[1]))
       [] rule.by = "queue" -> league_queue_intent(got[1])
       [] rule.by = "wait" ->
            league_wait_intent(IF got = <<>> THEN 120 ELSE Number[got[1][1]])
       [] rule.by = "seconds" ->
            Intent("timer_create", {label, <<"seconds", Number[got[1][1]]>>})
       [] rule.by = "minutes" ->
            Intent("timer_create", {label, <<"seconds",
                   IF Number[got[1][1]] = HUGE THEN HUGE ELSE Number[got[1][1]] * 60>>})

----------------------------------------------------------------------------
(* The rules of parse_text_intent, in the order they are tried. *)

Abre == Word({"abre", "abrir"})
El == Opt(One("el"))
Un == Opt(One("un"))
OptionalTo == Opt(Word({"para", "a"}))
To == Word({"para", "a"})
On == Word({"por", "en", "de"})
Draft == Word({"prepara", "abre", "manda", "envia"}) \cup {<<"escribe", "en">>}
Send == Word({"manda", "envia", "escribe"})
Write == Word({"prepara", "abre", "escribe", "escribele", "manda", "envia"})
Tell == {<<"y", "dile">>, <<"dile">>, <<"con", "el", "mensaje">>, <<"diciendo">>,
         <<"que", "diga">>}
WhatsApp == One("whatsapp")
Colon == One(":")
Track == {<<"la", w>> : w \in {"musica", "cancion", "pista"}}

FixedRules == <<
  Acts({v \o t : v \in Word({"pausa", "continua", "reanuda"}), t \in Opt(Track)}
       \cup {<<"reproduce">> \o t : t \in {<<>>, <<"la", "cancion">>,
               <<"la", "cancion", "seleccionada">>, <<"la", "pista">>,
               <<"la", "pista", "seleccionada">>, <<"la", "seleccion">>,
               <<"la", "cancion", "elegida">>, <<"el", "tema", "seleccionado">>}}
       \cup {<<"pon", "la", "cancion">> \o t : t \in Opt(Word({"seleccionada", "elegida"}))}
       \cup {<<"dale", "al", "play">>, <<"dale", "play">>}, "play_pause"),
  Acts({v \o t : v \in Word({"para", "deten"}), t \in Track}
       \cup {<<"deten", "la", "reproduccion">>}, "stop"),
  Acts({<<"siguiente">>, <<"siguiente", "cancion">>}, "next"),
  Acts({<<"anterior">>, <<"cancion", "anterior">>}, "previous"),
  Says({<<"estado", "del", w>> : w \in {"ordenador", "pc", "sistema"}}, "system_status"),
  Says({<<"estado", "de", "integraciones">>, <<"estado", "de", "las", "integraciones">>,
        <<"que", "integraciones", "hay">>, <<"integraciones", "disponibles">>},
       "integration_status"),
  Says({<<"estado", "de", "bateria">>, <<"nivel", "de", "bateria">>,
        <<"estado", "de", "la", "bateria">>}, "system_power"),
  Says({<<"estado", "de", "red">>, <<"estado", "de", "la", "red">>,
        <<"estado", "de", "internet">>}, "system_network"),
  Says({<<"silencia", "el", "ordenador">>, <<"silencia", "el", "pc">>,
        <<"quita", "el", "sonido">>}, "audio_mute"),
  Says({<<"activa", "el", "sonido">>, <<"activa", "el", "audio">>,
        <<"quita", "el", "silencio">>}, "audio_unmute"),
  Says({<<"bloquea", "el", "pc">>, <<"bloquea", "el", "ordenador">>,
        <<"bloquear", "el", "pc">>}, "system_lock"),
  Says({<<"abre", "discord">>, <<"abrir", "discord">>, <<"llama", "a", "discord">>,
        <<"llamar", "a", "discord">>}, "discord_open_app"),
  Says({v \o t : v \in Abre, t \in {<<"whatsapp">>, <<"whatsapp", "web">>,
                                    <<"un", "whatsapp">>}}, "whatsapp_open"),
  Says({v \o t : v \in Abre, t \in {<<"apple", "music">>, <<"musica">>}}, "music_open"),
  Says({v \o t : v \in Abre, t \in Game}, "league_open"),
  Says({v \o <<"codex">> : v \in Abre}, "open_codex") >>

AppRules == <<
  Rule(<<Abre, Opt(Word({"la", "una"})), Word({"aplicacion", "app"}),
         Opt(One("configurada")), ALL>>, "open_app", <<"app">>) >>

WhatsAppColonRules == <<
  Rule(<<Draft, Un, WhatsApp, To, PHONE, Tell, ALL>>, "whatsapp_compose",
       <<"phone", "message">>),
  Via(<<Draft, Un, WhatsApp, Word({"para", "a", "con"}), PERSON, Colon, ALL>>, "recipient"),
  Via(<<Send, Un, One("mensaje"), To, ANY, On, WhatsApp, Colon, ALL>>, "recipient"),
  Via(<<Write, To, ANY, On, WhatsApp, Colon, ALL>>, "recipient"),
  Via(<<Write \ One("escribele"), Un, One("mensaje"), On, WhatsApp, To, ANY, Colon, ALL>>,
      "recipient"),
  Via(<<Abre, El, WhatsApp, One("y"), Word({"escribe", "dile"}), To, ANY, Colon, ALL>>,
      "recipient") >>

WhatsAppTellRules == <<
  Rule(<<Send, Un, One("mensaje"), To, PHONE, On, WhatsApp, Tell, ALL>>,
       "whatsapp_compose", <<"phone", "message">>),
  Rule(<<Send, Un, One("mensaje"), On, WhatsApp, To, PHONE, Tell, ALL>>,
       "whatsapp_compose", <<"phone", "message">>),
  Rule(<<Send, Un, One("mensaje"), On, WhatsApp, To, PHONE, Tell, ALL>>,
       "whatsapp_compose", <<"phone", "message">>),
  Rule(<<Send, Un, One("mensaje"), On, WhatsApp, To, ANY, Tell, ALL>>,
       "whatsapp_contact", <<"contact", "message">>),
  Rule(<<Write, To, ANY, On, WhatsApp, Tell, ALL>>,
       "whatsapp_contact", <<"contact", "message">>),
  Rule(<<Send, Un, One("mensaje"), To, ANY, On, WhatsApp, Tell, ALL>>,
       "whatsapp_contact", <<"contact", "message">>),
  Rule(<<Send, Un, One("mensaje"), On, WhatsApp, To, ANY, Tell, ALL>>,
       "whatsapp_contact", <<"contact", "message">>),
  Rule(<<Draft, Un, WhatsApp, Word({"para", "a", "con"}), ANY,
         Tell \cup {<<"y", "escribe">>}, ALL>>, "whatsapp_contact", <<"contact", "message">>) >>

WhatsAppOpenRules == <<
  Rule(<<Abre, El, {<<"chat", "de">>}, ANY, Word({"en", "por"}), WhatsApp>>,
       "whatsapp_contact_open", <<"contact">>),
  Rule(<<Abre, El, WhatsApp, To, PHONE>>, "whatsapp_phone_open", <<"phone">>),
  Rule(<<Abre, El, WhatsApp, To, ALL>>, "whatsapp_contact_open", <<"contact">>) >>

Discord == One("discord")
Wish == Opt(Word({"quiero", "puedes"}))
Begin == Word({"inicia", "iniciar", "empieza", "empiezar"})
Llama == Word({"llama", "llamar"})
Call == Llama \cup {<<"haz", "una", "llamada">>}
        \cup {v \o <<"una", "llamada">> : v \in Begin}
FlexibleCall == Call \cup {v \o <<"llamada">> : v \in Begin}
AtTo == Word({"a", "al"})
Server == Word({"servidor", "guild"})
OfServer == {a \o b : a \in {<<"del">>, <<"de">>, <<"en", "el">>}, b \in Server}
Channel == Opt(One("canal"))
ShortCall == Llama \cup {<<"haz", "una", "llamada">>}

DiscordCallRules == <<
  Rule(<<Wish, Call, Word({"a", "con"}), El, ANY, On, Discord>>, "discord_call", <<"contact">>),
  Rule(<<Wish, Call, On, Discord, Word({"a", "al", "con"}), ALL>>, "discord_call", <<"contact">>),
  Rule(<<Wish, Call, One("a"), Discord, Word({"a", "al", "con"}), ALL>>,
       "discord_call", <<"contact">>),
  Rule(<<Wish, FlexibleCall, Word({"a", "con"}), El, ANY, On, Discord,
         Opt({<<"ahora">>, <<"por", "favor">>})>>, "discord_call", <<"contact">>),
  Rule(<<ShortCall, Opt(AtTo), Channel, ID, OfServer, ID, On, Discord>>,
       "discord_call_channel", <<"channel_id", "guild_id">>),
  Rule(<<ShortCall, Opt(AtTo), Channel, ID, On, Discord>>,
       "discord_call_channel", <<"channel_id">>) >>

DiscordOpenRules == <<
  Rule(<<Abre, El, Channel, ID, OfServer, ID, On, Discord>>, "discord_open",
       <<"channel_id", "guild_id">>),
  Rule(<<Abre, El, Channel, ID, On, Discord>>, "discord_open", <<"channel_id">>),
  Rule(<<Abre, El, {<<"canal", "de">>}, ANY, On, Discord>>, "discord_contact", <<"contact">>),
  Rule(<<Abre, El, {<<"chat", "de">>}, ANY, On, Discord>>, "discord_contact", <<"contact">>),
  Rule(<<Abre, Discord, Word({"a", "al", "con", "para"}), ALL>>, "discord_contact",
       <<"contact">>),
  Rule(<<Llama, Opt(AtTo), Channel, Discord, Server, ID, Channel, ID>>,
       "discord_call_channel", <<"guild_id", "channel_id">>),
  Rule(<<Llama, Opt(AtTo), Channel, Discord, Channel, ID>>,
       "discord_call_channel", <<"channel_id">>),
  Rule(<<One("abre"), El, ANY, On, Discord>>, "discord_contact", <<"contact">>),
  Rule(<<Abre \cup {<<"llama", "a">>}, El, Discord, Server, ID, Channel, ID>>,
       "discord_open", <<"guild_id", "channel_id">>),
  Rule(<<Abre \cup {<<"llama", "a">>}, El, Channel, Discord, Channel, ID>>,
       "discord_open", <<"channel_id">>) >>

InLeague == Opt({a \o b : a \in {<<"de">>, <<"del">>, <<"en", "el">>},
                          b \in Word({"league", "lol"})})

StateRules == <<
  Rule(<<One("cancela"), Opt(Word({"la", "el"})), Word({"busqueda", "cola", "matchmaking"}),
         InLeague>>, "league_cancel", <<>>),
  Rule(<<{<<"estado", "de", "la", "cola">>}, InLeague>>, "league_search_status", <<>>),
  Says({<<"estado", "de", "busqueda", "de", "league">>,
        <<"estado", "de", "busqueda", "de", "lol">>,
        <<"estado", "de", "matchmaking", "de", "league">>}, "league_search_status"),
  Says({<<"estado", "de", "league">>, <<"estado", "de", "la", "partida">>,
        <<"estado", "de", "busqueda">>, <<"estado", "del", "matchmaking">>,
        <<"estado", "de", "matchmaking">>}, "league_status"),
  Rule(<<Word({"lista", "muestra", "ensena"}), Opt(One("los")), One("temporizadores"),
         Opt(One("activos"))>>, "timer_list", <<>>),
  Says({<<"temporizadores">>, <<"temporizadores", "activos">>}, "timer_list"),
  Rule(<<Word({"cancela", "elimina"}), El, One("temporizador"), TIMER>>,
       "timer_cancel", <<"timer_id">>),
  Rule(<<Abre, Opt(Word({"la", "una"})), Word({"url", "enlace"}), Opt(One("validada")), URL>>,
       "open_url", <<"url">>),
  Rule(<<{<<"control", "multimedia">>}, MEDIA>>, "media_action", <<"action">>) >>

Find == Word({"busca", "buscame", "buscar"})
Look == Find \cup One("consulta")
Web == Word({"internet", "web", "online", "google"}) \cup {<<"la", "web">>}

WebRules == <<
  Rule(<<Look, Opt(Word({"en", "por"})), Web, ALL>>, "web_search", <<"query">>),
  Rule(<<Look, ALL, Word({"en", "por"}), Web>>, "web_search", <<"query">>),
  Rule(<<Look, One("algo"), Word({"en", "por"}), Web,
         Opt({<<"sobre">>, <<"acerca", "de">>, <<"de">>}), ALL>>, "web_search", <<"query">>) >>

Music == {<<"apple", "music">>, <<"musica">>}
InMusic == Opt({<<"en">> \o m : m \in Music})
Play == Word({"pon", "ponme", "reproduce", "reproducir"})
Song == {a \o b \o c : a \in Opt(Word({"la", "el", "una", "un"})),
                       b \in Word({"cancion", "tema"}), c \in Opt(One("de"))}

MusicRules == <<
  Says({v \o n : v \in Word({"busca", "buscar"}),
                 n \in {<<"musica">>, <<"la", "musica">>, <<"una", "cancion">>,
                        <<"la", "cancion">>}}, "music_open"),
  Via(<<Find, Opt(One("en")), Music, ALL>>, "music"),
  Via(<<Find, Opt(One("la")), One("musica"), Opt(One("de")), ANY, InMusic>>, "music"),
  Via(<<Play, Opt(Song), ANY, Opt(One("en")), {<<"apple", "music">>}>>, "music"),
  Via(<<Play, Opt(One("la")), One("musica"), Opt(One("de")), ANY, InMusic>>, "music"),
  Via(<<Play, Song, ALL>>, "named_song"),
  Via(<<Play, {<<"la", "de">>}, ANY, InMusic>>, "song"),
  Via(<<{<<"quiero">>, <<"me", "gustaria">>}, One("escuchar"), Opt(Word({"la", "una"})),
        Opt({<<"cancion", "de">>, <<"tema", "de">>}), ANY, InMusic>>, "song"),
  Via(<<Find, Opt(Word({"la", "una"})), Word({"cancion", "tema"}), Opt(One("de")), ANY,
        InMusic>>, "music"),
  Via(<<Find, ANY, Opt(One("en")), Music>>, "music") >>

Appears == <<Word({"espera", "avisame", "avisa"}), {<<"a", "que">>, <<"cuando">>},
             Opt({a \o b : a \in El, b \in Word({"league", "lol"})}),
             Word({"encuentre", "aparezca", "salga"}), Opt(One("una")),
             Word({"partida", "match"})>>

MatchRules == <<
  Via(Appears \o <<One("durante"), NUM3, Word({"segundo", "segundos"})>>, "wait"),
  Via(Appears, "wait"),
  Via(<<Opt({<<"quiero">>, <<"quiero", "que">>}),
        Find \cup Begin \cup Word({"encuentra", "comienza", "comienzar", "juega", "jugar"}),
        Opt(One("una")), {<<"partida">>, <<"busqueda">>, <<"busqueda", "de", "partida">>}, REST>>,
      "queue"),
  Via(<<Word({"ponme", "meteme", "entra", "entrar"}), {<<"en", "cola">>}, Opt(One("de")), REST>>,
      "queue"),
  Via(<<Word({"inicia", "empieza", "comienza"}), El, One("matchmaking"),
        Opt(Word({"en", "de"})), REST>>, "queue") >>

CountRules == <<
  Rule(<<Word({"pon", "ajusta"}), {<<"el", "volumen">>}, NUM3>>, "audio_volume", <<"percent">>),
  Via(<<Word({"crea", "crear"}), Un, One("temporizador"), NUM>>, "seconds"),
  Via(<<{<<"temporizador", "de">>}, NUM, Word({"minuto", "minutos"})>>, "minutes") >>

ProcessRules == <<
  Rule(<<Word({"abre", "abrir", "inicia", "iniciar", "ejecuta", "ejecutar"}),
         Opt(Word({"el", "la", "un", "una"})),
         Opt(Word({"proceso", "programa", "app", "aplicacion"})), ALL>>, "open_app", <<"app">>) >>

BroadRulesEarly == FixedRules \o AppRules \o WhatsAppColonRules \o WhatsAppTellRules
                   \o WhatsAppOpenRules \o DiscordCallRules \o DiscordOpenRules \o StateRules
                   \o WebRules \o ProcessRules \o MusicRules \o MatchRules \o CountRules
Rules == FixedRules \o AppRules \o WhatsAppColonRules \o WhatsAppTellRules
         \o WhatsAppOpenRules \o DiscordCallRules \o DiscordOpenRules \o StateRules
         \o WebRules \o MusicRules \o MatchRules \o CountRules \o ProcessRules

\* The first rule that matches and does not pass decides.
parse_text_intent(u) ==
  LET from[i \in 1..(Len(Rules) + 1)] ==
        IF i > Len(Rules) THEN NoIntent
        ELSE LET m == fullmatch(Rules[i].on, u)
                 read == IF m = <<>> THEN Pass ELSE Reading(Rules[i], Head(m))
             IN IF read = Pass THEN from[i + 1] ELSE read
  IN from[1]

----------------------------------------------------------------------------
(* The command catalogue: the phrase shown for a command, "<>" where a      *)
(* parameter goes, and its parameters with their kind and longest text.     *)

Param(name, kind, max) == [name |-> name, kind |-> kind, max |-> max]
Command(id, tool, phrase, parameters) ==
  [id |-> id, tool |-> tool, phrase |-> phrase, parameters |-> parameters, given |-> {}]
MediaCommand(id, action, phrase) ==
  [Command(id, "media_action", phrase, <<>>) EXCEPT !.given = {<<"action", <<action>>>>}]

CONTACT == Param("contact", "contact", 80)
TEL == Param("phone", "phone", 32)
TEXT == Param("message", "message", 3800)
CHANNEL == Param("channel_id", "channel_id", 20)
GUILD == Param("guild_id", "guild_id", 20)

DailyCommands == <<
  Command("system_status", "system_status", <<"estado", "del", "ordenador">>, <<>>),
  Command("integration_status", "integration_status", <<"estado", "de", "integraciones">>, <<>>),
  Command("web_search", "web_search", <<"busca", "en", "internet", "<>">>,
          <<Param("query", "text", 200)>>),
  Command("open_app", "open_app", <<"abre", "una", "aplicacion", "configurada", "<>">>,
          <<Param("app", "app", 80)>>),
  Command("open_codex", "open_codex", <<"abre", "codex">>, <<>>),
  Command("music_open", "music_open", <<"abre", "apple", "music">>, <<>>),
  Command("music_search", "music_search", <<"busca", "en", "apple", "music", "<>">>,
          <<Param("term", "text", 200)>>),
  Command("whatsapp_compose", "whatsapp_compose",
          <<"prepara", "whatsapp", "para", "<>", "y", "dile", "<>">>, <<TEL, TEXT>>),
  Command("whatsapp_open", "whatsapp_open", <<"abre", "whatsapp">>, <<>>),
  Command("whatsapp_contact", "whatsapp_contact",
          <<"prepara", "whatsapp", "para", "<>", "y", "dile", "<>">>, <<CONTACT, TEXT>>),
  Command("whatsapp_contact_open", "whatsapp_contact_open",
          <<"abre", "whatsapp", "para", "<>">>, <<CONTACT>>),
  Command("whatsapp_phone_open", "whatsapp_phone_open",
          <<"abre", "whatsapp", "para", "<>">>, <<TEL>>) >>

DiscordAndLeagueCommands == <<
  Command("discord_open_app", "discord_open_app", <<"abre", "discord">>, <<>>),
  Command("discord_open", "discord_open", <<"abre", "discord", "canal", "<>">>, <<CHANNEL>>),
  Command("discord_server_channel", "discord_open",
          <<"abre", "discord", "servidor", "<>", "canal", "<>">>, <<GUILD, CHANNEL>>),
  Command("discord_contact", "discord_contact",
          <<"abre", "el", "canal", "de", "<>", "en", "discord">>, <<CONTACT>>),
  Command("discord_call_channel", "discord_call_channel",
          <<"llama", "a", "discord", "canal", "<>">>, <<CHANNEL>>),
  Command("discord_call_server_channel", "discord_call_channel",
          <<"llama", "a", "discord", "servidor", "<>", "canal", "<>">>, <<GUILD, CHANNEL>>),
  Command("discord_call", "discord_call", <<"llama", "a", "<>", "en", "discord">>, <<CONTACT>>),
  Command("league_open", "league_open", <<"abre", "league", "of", "legends">>, <<>>),
  Command("league_search", "league_search", <<"busca", "una", "partida", "<>">>,
          <<Param("queue", "queue", 32)>>),
  Command("league_status", "league_status", <<"estado", "de", "league">>, <<>>),
  Command("league_search_status", "league_search_status",
          <<"estado", "de", "busqueda", "de", "league">>, <<>>),
  Command("league_wait", "league_wait",
          <<"espera", "a", "que", "league", "encuentre", "una", "partida", "<>">>,
          <<Param("seconds", "integer", 3)>>),
  Command("league_cancel", "league_cancel", <<"cancela", "la", "busqueda", "de", "league">>, <<>>) >>

MachineCommands == <<
  Command("audio_volume", "audio_volume", <<"pon", "el", "volumen", "<>">>,
          <<Param("percent", "integer", 3)>>),
  Command("system_power", "system_power", <<"estado", "de", "bateria">>, <<>>),
  Command("system_network", "system_network", <<"estado", "de", "red">>, <<>>),
  Command("audio_mute", "audio_mute", <<"silencia", "el", "ordenador">>, <<>>),
  Command("audio_unmute", "audio_unmute", <<"activa", "el", "sonido">>, <<>>),
  Command("media_action", "media_action", <<"control", "multimedia", "<>">>,
          <<Param("action", "action", 16)>>),
  MediaCommand("media_play_pause", "play_pause", <<"reproduce", "la", "cancion", "seleccionada">>),
  MediaCommand("media_next", "next", <<"siguiente", "cancion">>),
  MediaCommand("media_previous", "previous", <<"cancion", "anterior">>),
  MediaCommand("media_stop", "stop", <<"deten", "la", "musica">>),
  Command("timer_create", "timer_create", <<"crea", "un", "temporizador", "<>">>,
          <<Param("seconds", "integer", 6)>>),
  Command("timer_list", "timer_list", <<"lista", "los", "temporizadores">>, <<>>),
  Command("timer_cancel", "timer_cancel", <<"cancela", "el", "temporizador", "<>">>,
          <<Param("timer_id", "text", 32)>>),
  Command("system_lock", "system_lock", <<"bloquea", "el", "ordenador">>, <<>>),
  Command("open_url", "open_url", <<"abre", "una", "url", "validada", "<>">>,
          <<Param("url", "url", 2048)>>) >>

COMMANDS == DailyCommands \o DiscordAndLeagueCommands \o MachineCommands

\* How many characters the words take, single spaces between them.
TextLength(words) == FoldSeq(LAMBDA w, n : n + Len(w), Max({0, Len(words) - 1}), words)

Options(kind) == CASE kind = "queue" -> QUEUE_IDS
                   [] kind = "action" -> Actions
                   [] OTHER -> {}

AnyTextAsPhone(words, parameter) ==
  LET kind == parameter.kind
  IN /\ Options(kind) # {} => Len(words) = 1 /\ Head(words) \in Options(kind)
     /\ kind = "integer" => Len(words) = 1 /\ Head(words) \in DOMAIN Number
     /\ kind \in {"channel_id", "guild_id"} => Fits(ID, words)
     /\ kind = "url" => Fits(URL, words)
catalog_value_ok(words, parameter) ==
  LET kind == parameter.kind
  IN /\ TextLength(words) <= parameter.max
     /\ Options(kind) # {} => Len(words) = 1 /\ Head(words) \in Options(kind)
     /\ kind = "integer" => Len(words) = 1 /\ Head(words) \in DOMAIN Number
     /\ kind = "phone" => Fits(PHONE, words)
     /\ kind \in {"channel_id", "guild_id"} => Fits(ID, words)
     /\ kind = "url" => Fits(URL, words)

Placeholders(phrase) == {i \in DOMAIN phrase : phrase[i] = "<>"}
Pattern(phrase) == [i \in DOMAIN phrase |-> IF phrase[i] = "<>" THEN ANY ELSE One(phrase[i])]

TypedFields(command) ==
  Cardinality({i \in DOMAIN command.parameters :
                 command.parameters[i].kind \in {"phone", "integer", "channel_id", "guild_id",
                                                 "url"}})
LiteralLength(command) ==
  FoldSeq(LAMBDA w, n : IF w = "<>" THEN n ELSE n + Len(w), Len(command.phrase) - 1, command.phrase)

\* Typed parameters make a reading more specific than any text.
Specificity(command) == LiteralLength(command) + 50 * TypedFields(command)

\* The arguments a phrase reads from a sentence; Pass when it does not apply.
CommandReading(command, u) ==
  LET m == fullmatch(Pattern(command.phrase), u)
      params == command.parameters
  IN IF \/ m = <<>>
        \/ Cardinality(Placeholders(command.phrase)) # Len(params)
        \/ \E i \in DOMAIN params : ~catalog_value_ok(m[1][i], params[i])
     THEN Pass
     ELSE Intent(command.tool, command.given \cup {Argument(params[i].name, m[1][i]) :
                                                   i \in DOMAIN params})

\* The most specific reading wins, the first of equals.
parse_catalog_intent(u, commands) ==
  LET all == [i \in DOMAIN commands |-> CommandReading(commands[i], u)]
      able == {i \in DOMAIN commands : all[i] # Pass}
      best == CHOOSE i \in able : \A j \in able :
                LET a == Specificity(commands[i])
                    b == Specificity(commands[j])
                IN b < a \/ (a = b /\ i <= j)
  IN IF able = {} THEN NoIntent ELSE all[best]

----------------------------------------------------------------------------
(* The tools: what each takes, and which ones ask before acting. *)

MAX_TIMER_SECONDS == 604800
MAX_MATCH_WAIT_SECONDS == 300

Takes == [query |-> {"web_search"}, app |-> {"open_app"}, term |-> {"music_search"},
          phone |-> {"whatsapp_compose", "whatsapp_phone_open"},
          message |-> {"whatsapp_compose", "whatsapp_contact"},
          contact |-> {"whatsapp_contact", "whatsapp_contact_open", "discord_contact",
                       "discord_call"},
          channel_id |-> {"discord_open", "discord_call_channel"},
          queue |-> {"league_search"}, action |-> {"media_action"},
          seconds |-> {"league_wait", "timer_create"}, percent |-> {"audio_volume"},
          timer_id |-> {"timer_cancel"}, url |-> {"open_url"}]
Optional == [guild_id |-> {"discord_open", "discord_call_channel"}, label |-> {"timer_create"}]

Required(tool) == {n \in DOMAIN Takes : tool \in Takes[n]}
Allowed(tool) == Required(tool) \cup {n \in DOMAIN Optional : tool \in Optional[n]}

\* The longest text of an argument, and of an address a browser is given.
MaxText == [query |-> 200, term |-> 200, message |-> 3800, contact |-> 80, app |-> 80,
            phone |-> 32, url |-> 2048, timer_id |-> 32, channel_id |-> 20, guild_id |-> 20,
            queue |-> 32, action |-> 16, label |-> 120]
MAX_EXTERNAL_URL_LENGTH == 2048

TooLong(name, value) == name \in DOMAIN MaxText /\ TextLength(value) > MaxText[name]

\* normalize_phone: seven to fifteen digits, the first of them not a zero.
normalize_phone_ok(value) == Len(value) = 1 /\ Head(value) \in Phone

\* validate_external_url: a host, a possible port and no credentials.
validate_external_url_ok(value) == Len(value) = 1 /\ Head(value) \in Link

ArgumentFits(tool, name, value) ==
  /\ ~TooLong(name, value)
  /\ CASE name = "phone" -> normalize_phone_ok(value)
       [] name \in {"channel_id", "guild_id"} -> Fits(ID, value)
       [] name = "url" -> validate_external_url_ok(value)
       [] name = "timer_id" -> Fits(TIMER, value)
       [] name = "action" -> Fits(MEDIA, value)
       [] name = "queue" -> value \in Word(QUEUE_IDS) \cup (DOMAIN LEAGUE_QUEUE_ALIASES \ {<<>>})
       [] name = "percent" -> value \in 0..100
       [] name = "seconds" -> value \in 1..(IF tool = "league_wait" THEN MAX_MATCH_WAIT_SECONDS
                                                                    ELSE MAX_TIMER_SECONDS)
       [] OTHER -> value # <<>>

\* build_whatsapp_compose_url: "https://wa.me/<digits>?text=<message>", where the
\* plus of the number is gone and each colon is written "%3A".
ComposeAddressFits(args) ==
  \A p, m \in args : (p[1] = "phone" /\ m[1] = "message") =>
     20 + TextLength(p[2]) - 1 + TextLength(m[2]) + 2 * Len(SelectSeq(m[2], LAMBDA w : w = ":"))
        <= MAX_EXTERNAL_URL_LENGTH

\* The argument names are exactly those of the tool's contract.
NamesFit(tool, args) == /\ {a[1] : a \in args} \subseteq Allowed(tool)
                        /\ Required(tool) \subseteq {a[1] : a \in args}

validate_arguments(tool, args) ==
  /\ NamesFit(tool, args)
  /\ \A a \in args : ArgumentFits(tool, a[1], a[2])
  /\ tool = "whatsapp_compose" => ComposeAddressFits(args)

SafeTools == {"system_status", "integration_status", "system_power", "system_network",
              "audio_volume", "audio_mute", "audio_unmute", "media_action", "league_status",
              "league_search_status", "league_wait", "timer_create", "timer_list",
              "timer_cancel"}
============================================================================
