----------------------------- MODULE LocalTools -----------------------------
(***************************************************************************)
(* The parts of the agent that keep state of their own, side by side: the  *)
(* League adapter, the timers, the allow-list of applications, the         *)
(* messages and the microphone audio. They share no variable and call      *)
(* nothing of each other that changes state, so every property of one of   *)
(* them that holds while the others rest holds in every interleaving of    *)
(* the five. A behaviour of this module therefore lets one of them, chosen *)
(* at the start, move.                                                     *)
(***************************************************************************)
EXTENDS League, Timers, ProcessList, Messages, SecureAudio

VARIABLE moving

toolVars == <<moving, leagueVars, timerVars, processVars, messageVars, audioVars>>

Init ==
    /\ moving \in {"league", "timers", "processes", "messages", "audio"}
    /\ LeagueInit /\ TimersInit /\ ProcessInit /\ MessagesInit /\ AudioInit

Next ==
    /\ UNCHANGED moving
    /\ \/ /\ moving = "league" /\ LeagueNext
          /\ UNCHANGED <<timerVars, processVars, messageVars, audioVars>>
       \/ /\ moving = "timers" /\ TimersNext
          /\ UNCHANGED <<leagueVars, processVars, messageVars, audioVars>>
       \/ /\ moving = "processes" /\ ProcessNext
          /\ UNCHANGED <<leagueVars, timerVars, messageVars, audioVars>>
       \/ /\ moving = "messages" /\ MessagesNext
          /\ UNCHANGED <<leagueVars, timerVars, processVars, audioVars>>
       \/ /\ moving = "audio" /\ AudioNext
          /\ UNCHANGED <<leagueVars, timerVars, processVars, messageVars>>

\* While the League adapter rests its fairness asks for nothing.
Spec == Init /\ [][Next]_toolVars /\ LeagueFairness
=============================================================================
