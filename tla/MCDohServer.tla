------------------------------ MODULE MCDohServer ------------------------------
(* Small instances of DohServer for TLC.                                    *)
EXTENDS DohServer, TLC

AnyHandler == Permutations(Handlers)
=============================================================================
