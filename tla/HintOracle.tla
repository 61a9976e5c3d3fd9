------------------------------- MODULE HintOracle -------------------------------
(***************************************************************************)
(* What the hint service of echdoh/echdoh.go owes its callers, without     *)
(* caches, mutexes, wait groups or goroutines.                             *)
(*                                                                         *)
(* For each domain there is either nothing known or one live answer.  Who  *)
(* asks is told the live answer; when there is none, one asker at a time   *)
(* conducts a round of tests and concludes it with an answer made of what  *)
(* passed.  An answer is never replaced, it lapses.                        *)
(***************************************************************************)
EXTENDS Naturals, Sequences, FiniteSets, Functions

CONSTANTS
    Askers,         \* who may ask
    Nobody,         \* no round under way
    Domains,
    Addresses,
    Limit           \* the most addresses of an answer

VARIABLES
    status,         \* idle, asking or answered, per asker
    about,          \* the domain an asker asks about
    reply,          \* what it was told
    round,          \* per domain, who conducts its tests
    passed,         \* per domain, the addresses that passed in this round
    live            \* per domain, the answer in force

vars == <<status, about, reply, round, passed, live>>

Unknown == [known |-> FALSE, ips |-> <<>>]
Answer(ips) == [known |-> TRUE, ips |-> ips]

\* An answer lists addresses that passed, none twice; it is empty only if
\* none passed.
Justified(ips, tested) ==
    /\ Range(ips) \subseteq tested
    /\ IsInjective(ips)
    /\ Len(ips) <= Limit
    /\ ips = <<>> => tested = {}

Init ==
    /\ status = [c \in Askers |-> "idle"]
    /\ about \in [Askers -> Domains]
    /\ reply = [c \in Askers |-> Unknown]
    /\ round = [d \in Domains |-> Nobody]
    /\ passed = [d \in Domains |-> {}]
    /\ live = [d \in Domains |-> Unknown]

Ask(c, d) ==
    /\ status[c] = "idle"
    /\ status' = [status EXCEPT ![c] = "asking"]
    /\ about' = [about EXCEPT ![c] = d]
    /\ UNCHANGED <<reply, round, passed, live>>

\* Nothing is known and nobody finds out: this asker will.
Begin(c) ==
    /\ status[c] = "asking"
    /\ ~ live[about[c]].known
    /\ round[about[c]] = Nobody
    /\ round' = [round EXCEPT ![about[c]] = c]
    /\ UNCHANGED <<status, about, reply, passed, live>>

Pass(c, a) ==
    /\ round[about[c]] = c
    /\ passed' = [passed EXCEPT ![about[c]] = @ \cup {a}]
    /\ UNCHANGED <<status, about, reply, round, live>>

\* The end of a round tells its conductor and everybody else the same.
Conclude(c, ips) ==
    /\ status[c] = "asking"
    /\ round[about[c]] = c
    /\ ~ live[about[c]].known
    /\ Justified(ips, passed[about[c]])
    /\ live' = [live EXCEPT ![about[c]] = Answer(ips)]
    /\ reply' = [reply EXCEPT ![c] = Answer(ips)]
    /\ status' = [status EXCEPT ![c] = "answered"]
    /\ round' = [round EXCEPT ![about[c]] = Nobody]
    /\ passed' = [passed EXCEPT ![about[c]] = {}]
    /\ UNCHANGED about

Tell(c) ==
    /\ status[c] = "asking"
    /\ live[about[c]].known
    /\ reply' = [reply EXCEPT ![c] = live[about[c]]]
    /\ status' = [status EXCEPT ![c] = "answered"]
    /\ UNCHANGED <<about, round, passed, live>>

Leave(c) ==
    /\ status[c] = "answered"
    /\ status' = [status EXCEPT ![c] = "idle"]
    /\ reply' = [reply EXCEPT ![c] = Unknown]
    /\ UNCHANGED <<about, round, passed, live>>

Lapse(d) ==
    /\ live[d].known
    /\ live' = [live EXCEPT ![d] = Unknown]
    /\ UNCHANGED <<status, about, reply, round, passed>>

\* The lists a round over these addresses can end with.
Lists == UNION {[1 .. n -> Addresses] : n \in 0 .. Limit}

Serve(c) == Begin(c) \/ Tell(c) \/ \E ips \in Lists : Conclude(c, ips)

Next ==
    \/ \E c \in Askers :
         \/ \E d \in Domains : Ask(c, d)
         \/ \E a \in Addresses : Pass(c, a)
         \/ Serve(c)
         \/ Leave(c)
    \/ \E d \in Domains : Lapse(d)

Spec == Init /\ [][Next]_vars

\* Nobody is left asking while something can be done about it.
FairSpec == Spec /\ \A c \in Askers : WF_vars(Serve(c))
=============================================================================
