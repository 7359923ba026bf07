------------------------------- MODULE Phone -------------------------------
(***************************************************************************)
(* The two ends of the phone's connection, the agent's MobileGateway and   *)
(* the MobileApp. Each is modelled against every behaviour of the other    *)
(* (peers that send, read and leave as they like; waits that end with an   *)
(* answer or fail), so they share no variable. A behaviour of this module  *)
(* lets one of them, chosen at the start, move.                            *)
(***************************************************************************)
EXTENDS MobileGateway, MobileApp

VARIABLE end

phoneVars == <<end, gatewayVars, vars>>

PhoneInit == end \in {"gateway", "app"} /\ GatewayInit /\ Init

PhoneNext ==
    /\ UNCHANGED end
    /\ \/ end = "gateway" /\ GatewayNext /\ UNCHANGED vars
       \/ end = "app" /\ Next /\ UNCHANGED gatewayVars

\* At rest neither end has a step that its fairness asks for.
PhoneSpec == PhoneInit /\ [][PhoneNext]_phoneVars /\ GatewayFairness /\ Fairness
=============================================================================
