----------------------------- MODULE MCPopfile -----------------------------
(* Model values for Popfile. *)
EXTENDS Popfile, TLC

CONSTANTS none
=============================================================================
