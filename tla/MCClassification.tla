----------------------------- MODULE MCClassification -----------------------------
(* Small instances of Classification for TLC.                               *)
EXTENDS Classification, TLC

CONSTANT x

\* The second version of the TXT record no longer forces x.
ForcedAtFirst == (0 :> {}) @@ (1 :> {x}) @@ (2 :> {})
=============================================================================
