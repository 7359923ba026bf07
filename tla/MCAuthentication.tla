-------------------------- MODULE MCAuthentication --------------------------
(***************************************************************************)
(* Authentication for TLC. Challenges, devices and the connections of one  *)
(* kind are interchangeable: no action tells two of them apart. Symmetry   *)
(* is used for the safety runs only.                                       *)
(***************************************************************************)
EXTENDS Authentication, TLC

Symmetry ==
    Permutations(Challenge) \cup Permutations(Device) \cup Permutations(Serial)
=============================================================================
