----------------------------- MODULE MCForcedHints -----------------------------
(* Small instances of ForcedHints for TLC.                                  *)
EXTENDS HintRefinement

CONSTANTS p1, p2, o1, o2, s1, s2, r1, r2

\* Two pool addresses, two official ones, two more of the /24 of o1, two
\* reachable ones: every stage can fail, contribute and overflow.
FullIPs == {p1, p2, o1, o2, s1, s2, r1, r2}
FullPool == {p1, p2}
FullReach == {r1, r2}
FullOfficial == {{o1}, {o1, o2}}
FullSubnet == [ip \in FullIPs |-> IF ip \in {o1, s1, s2} THEN {o1, s1, s2} ELSE {ip}]

\* Official addresses only.
BareIPs == {o1}
BareOfficial == {{o1}}
BareSubnet == [ip \in BareIPs |-> {}]
NoIPs == {}
=============================================================================
