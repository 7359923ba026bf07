--------------------------- MODULE MCTextCommands ---------------------------
(* Small vocabularies for TextCommands. *)
EXTENDS TextCommands

\* A name of 81 letters, one more than a contact or an application may have.
LongName == "ppppppppppppppppppppppppppppppppppppppppppppppppppppppppppppppppppppppppppppppppp"

MCKnown == {<<"ana">>, <<"ana", "de", "casa">>}
MCWho == MCKnown \cup {<<LongName>>}
MCWhat == {<<"llego">>, <<"dile", "que", "si">>, <<"nota", ":", "llego">>}
\* "en league" names the game and no queue.
MCQueues == {<<>>, <<"aram">>, <<"de", "ranked", "flex", "en", "el", "lol">>, <<"en", "league">>}
\* Two commands may be given one phrase.
MCEdits == {<<"open_app", <<"abre", "<>">>>>, <<"web_search", <<"abre", "<>">>>>,
            <<"whatsapp_contact", <<"escribe", "a", "<>", "diciendo", "<>">>>>,
            <<"whatsapp_compose", <<"manda", "<>">>>>}
\* A hand may drop a field, or name a command of another version.
MCHandEdits == {<<"whatsapp_compose", <<"manda", "<>">>>>, <<"old_command", <<"haz", "<>">>>>}
============================================================================
