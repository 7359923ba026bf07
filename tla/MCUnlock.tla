------------------------------ MODULE MCUnlock ------------------------------
(* Instance of Unlock for TLC: administrators, keys, challenges and
tickets are interchangeable. *)
EXTENDS Unlock, TLC

Symmetry ==
    Permutations(Challenge) \cup Permutations(Ticket) \cup Permutations(Key)
        \cup Permutations(Admin)
=============================================================================
