---------------------------- MODULE MCLiveStream ----------------------------
(***************************************************************************)
(* A panel that shows two rows and brings a frame, one that shows the last *)
(* packet, of one or two rows, and a listener.                             *)
(***************************************************************************)
EXTENDS LiveStream

CONSTANTS append, replace, l1

MCPanels == {append, replace}
MCMaxLength == [p \in Panels |-> 2]
=============================================================================
