------------------------------ MODULE MCPhone ------------------------------
EXTENDS Phone

CONSTANTS c1, c2, d1

MCConn   == {c1, c2}
MCDevice == {d1}
=============================================================================
