------------------------------ MODULE MCTicker ------------------------------
(***************************************************************************)
(* A small ticker: marks two instants apart on a clock of eight instants,  *)
(* so that up to three marks fall due while the receiver is busy.          *)
(***************************************************************************)
EXTENDS Ticker

Instants == 1..8
=============================================================================
