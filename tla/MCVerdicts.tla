------------------------------- MODULE MCVerdicts -------------------------------
(* Small instances of Verdicts for TLC; the cfg gives every constant.       *)
EXTENDS Verdicts
=============================================================================
