----------------------------- MODULE MCRollover -----------------------------
(***************************************************************************)
(* A handover over a directory in which a retirement may have stopped; in  *)
(* RepeatedSpec its owner keeps repeating the call.                        *)
(***************************************************************************)
EXTENDS Rollover

RepeatedSpec == Spec /\ Repeated
=============================================================================
