------------------------------- MODULE OneUse -------------------------------
(***************************************************************************)
(* What every authorization object of Pipa promises, whatever its carrier: *)
(* a confirmation of an unsafe tool, a signed challenge, an unlock ticket. *)
(* A token is issued to one holder, can be redeemed only by that holder,   *)
(* and what it authorizes happens at most once; a token that was cancelled *)
(* or that expired authorizes nothing any more.                            *)
(***************************************************************************)
CONSTANTS
    Token,      \* identifiers, fresh and unguessable in the code
    Holder,     \* sessions, devices or clients a token is issued to
    NoHolder

VARIABLES
    stage,      \* how far each token went
    holder,     \* whom it was issued to
    redeemer    \* who redeemed it

tokenVars == <<stage, holder, redeemer>>

Stages == {"fresh", "live", "void", "spent", "used"}

TokenTypeOK ==
    /\ stage \in [Token -> Stages]
    /\ holder \in [Token -> Holder \cup {NoHolder}]
    /\ redeemer \in [Token -> Holder \cup {NoHolder}]

TokenInit ==
    /\ stage = [k \in Token |-> "fresh"]
    /\ holder = [k \in Token |-> NoHolder]
    /\ redeemer = [k \in Token |-> NoHolder]

Use(k) ==
    /\ stage[k] = "spent"
    /\ stage' = [stage EXCEPT ![k] = "used"]
    /\ UNCHANGED <<holder, redeemer>>

\* Expiry, rejection and cancellation may take several tokens at once.
Void(K) ==
    /\ \A k \in K : stage[k] = "live"
    /\ stage' = [k \in Token |-> IF k \in K THEN "void" ELSE stage[k]]
    /\ UNCHANGED <<holder, redeemer>>

\* Redeeming and issuing may sweep the expired tokens in the same critical
\* section.
SweepAndRedeem(K, k) ==
    /\ \A j \in K : stage[j] = "live"
    /\ stage[k] = "live" /\ k \notin K
    /\ stage' = [j \in Token |-> CASE j \in K -> "void"
                                   [] j = k   -> "spent"
                                   [] OTHER   -> stage[j]]
    /\ redeemer' = [redeemer EXCEPT ![k] = holder[k]]
    /\ UNCHANGED holder

SweepAndIssue(K, k, h) ==
    /\ \A j \in K : stage[j] = "live"
    /\ stage[k] = "fresh"
    /\ stage' = [j \in Token |-> CASE j \in K -> "void"
                                   [] j = k   -> "live"
                                   [] OTHER   -> stage[j]]
    /\ holder' = [holder EXCEPT ![k] = h]
    /\ UNCHANGED redeemer

TokenNext ==
    \/ \E k \in Token : Use(k)
    \/ \E K \in SUBSET Token :
          \/ Void(K)
          \/ \E k \in Token : SweepAndRedeem(K, k)
          \/ \E k \in Token, h \in Holder : SweepAndIssue(K, k, h)

TokenSpec == TokenInit /\ [][TokenNext]_tokenVars
=============================================================================
