-------------------------------- MODULE Pipe --------------------------------
(***************************************************************************)
(* What an encrypted direction promises its two ends: messages arrive in   *)
(* the order in which they were sent, none twice, none that was not sent.  *)
(* Messages of one key are numbered, so a count says which ones arrived.   *)
(***************************************************************************)
EXTENDS Naturals

CONSTANT Key

VARIABLES
    sent,       \* how many messages were sent under each key
    received    \* how many of them, the first ones, were received

Init ==
    /\ sent = [k \in Key |-> 0]
    /\ received = [k \in Key |-> 0]

Send(k) ==
    /\ sent'[k] \in Nat /\ sent'[k] > sent[k]
    /\ sent' = [sent EXCEPT ![k] = sent'[k]]
    /\ UNCHANGED received

Receive(k) ==
    /\ received[k] < sent[k]
    /\ received' = [received EXCEPT ![k] = @ + 1]
    /\ UNCHANGED sent

Next == \E k \in Key : Send(k) \/ Receive(k)

Spec == Init /\ [][Next]_<<sent, received>>
=============================================================================
