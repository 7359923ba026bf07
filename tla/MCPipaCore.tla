----------------------------- MODULE MCPipaCore -----------------------------
(***************************************************************************)
(* PipaCore for TLC: two transports, more session and confirmation         *)
(* identifiers than limits, and a clock that outlives both a confirmation  *)
(* and an idle session.                                                    *)
(***************************************************************************)
EXTENDS PipaCore, TLC

Symmetry == Permutations(Thread) \cup Permutations(Session)
            \cup Permutations(Confirmation) \cup Permutations(Device)
=============================================================================
