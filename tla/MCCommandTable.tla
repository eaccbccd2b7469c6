--------------------------- MODULE MCCommandTable ---------------------------
(* Three commands, one of them of the kind entered before it is sent, use   *)
(* every sequence number and make the counter wrap.                         *)
EXTENDS CommandTable

CONSTANTS c1, c2, c3, t1, t2

MCCommand == {c1, c2, c3}
MCHostConfig == {c3}
MCIOThread == {t1, t2}
=============================================================================
