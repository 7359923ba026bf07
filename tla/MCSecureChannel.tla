-------------------------- MODULE MCSecureChannel --------------------------
(* Two hellos of the paired device and a foreign one, three connections.   *)
EXTENDS SecureChannel, TLC

CONSTANTS h1, h2, foreign, c1, c2, c3

MCHello  == {h1, h2, foreign}
MCSigned == {h1, h2}
MCConn   == {c1, c2, c3}

Symmetry == Permutations(MCSigned) \cup Permutations(MCConn)
=============================================================================
