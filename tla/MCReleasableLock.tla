-------------------------- MODULE MCReleasableLock --------------------------
(***************************************************************************)
(* The servers are model values; without symmetry, since the run checks a  *)
(* liveness property.                                                      *)
(***************************************************************************)
EXTENDS ReleasableLock
=============================================================================
