----------------------------- MODULE HintRefinement -----------------------------
(***************************************************************************)
(* ForcedHints implements HintOracle: a flight is a round while its prober *)
(* is testing or merging, what passed in it is what the round has passed,  *)
(* and a cached entry within its TTL is the live answer.                   *)
(***************************************************************************)
EXTENDS ForcedHints

\* A caller has its answer from the moment it reads or publishes the entry.
StatusOf(c) ==
    CASE pc[c] = "idle" -> "idle"
      [] pc[c] \in {"unmap", "done", "return"} -> "answered"
      [] OTHER -> "asking"

Told(e) == [known |-> e.fresh, ips |-> e.ips]

Conducting(c, k) == pc[c] \in Flying /\ forcedHintFlight[k] = c

RoundOf(k) == IF \E c \in Callers : Conducting(c, k)
              THEN forcedHintFlight[k] ELSE NoCaller

\* What has passed in the round of k.
PassedOf(k) == IF RoundOf(k) = NoCaller THEN {} ELSE proven[RoundOf(k)]

Oracle == INSTANCE HintOracle WITH
    Askers    <- Callers,
    Nobody    <- NoCaller,
    Domains   <- Keys,
    Addresses <- IPs,
    Limit     <- MaxHints + 1,
    status    <- [c \in Callers |-> StatusOf(c)],
    about     <- key,
    reply     <- [c \in Callers |-> Told(result[c])],
    round     <- [k \in Keys |-> RoundOf(k)],
    passed    <- [k \in Keys |-> PassedOf(k)],
    live      <- [k \in Keys |-> Told(forcedHintCache[k])]

\* The service is the oracle: callers are told live answers only, an answer
\* comes of one round and of what passed in it, it is never replaced, and
\* under fair scheduling nobody is left asking (forcedHintIPsOpt, 1010-1189).
ImplementsOracle == Oracle!FairSpec

\* The same without fairness, for instances with a single caller.
ImplementsOracleSafely == Oracle!Spec
=============================================================================
