-------------------------------- MODULE MCDialer --------------------------------
(* Small instances of Dialer for TLC.                                       *)
EXTENDS Dialer, TLC

CONSTANTS k1, k2

\* k1 was replaced by k2.
TwoAges == (k1 :> 1) @@ (k2 :> 0)

AnyCallerOrId == Permutations(Callers) \cup Permutations(Ids)
=============================================================================
