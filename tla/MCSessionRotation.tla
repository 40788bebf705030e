------------------------- MODULE MCSessionRotation -------------------------
(***************************************************************************)
(* Two tabs, of which one is in use, and two servers.  A tick is some 20   *)
(* seconds: the largest lead of a job is one, UrgentRotateTime three, and  *)
(* the rotation interval of ten minutes is shortened to four, the least in *)
(* which a token becomes urgent before it is due.                          *)
(***************************************************************************)
EXTENDS SessionRotation

CONSTANTS t1, t2, s1, s2

MCTabs == {t1, t2}
MCServers == {s1, s2}
=============================================================================
