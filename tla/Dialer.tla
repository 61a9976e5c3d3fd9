--------------------------------- MODULE Dialer ---------------------------------
(***************************************************************************)
(* The ECH dialer of internal/tlsconn/dialer.go on top of Resolver:        *)
(* DialContext looks the host up, completes the result with a public key   *)
(* and tries the candidate addresses in turn, with retry_configs, and in   *)
(* the end, if allowed, without ECH.                                       *)
(*                                                                         *)
(* An attempt (utls, then crypto/tls on the same address) either connects, *)
(* fails, or is rejected by an edge that answers with its current key.     *)
(***************************************************************************)
EXTENDS Resolver

CONSTANTS
    Candidates,         \* number of addresses, custom ones first
    RejectionSeen       \* the error of a rejection is the one DialECH looks for

ASSUME CandidateAssumption == Candidates \in Nat \ {0}
ASSUME RejectionAssumption == RejectionSeen \in BOOLEAN

VARIABLES
    fallbackPlain,      \* the dialer may end without ECH
    cfg,                \* the key each caller dials with, NoKey: without ECH
    cand,               \* the candidate it tries
    retry,              \* the key an edge has answered with
    refused             \* history: candidates that did not connect with cfg

dialVars == <<cfg, cand, retry, refused>>
vars == <<configVars, cacheVars, res, file, edgeKey, pc, mine, found, fallbackPlain, dialVars>>

Places == {"idle", "query", "store", "ensure", "fetch", "ask", "keep", "fill",
           "dial", "try", "retry", "sink", "plain"}

TypeOK ==
    /\ ResolverTypeOK
    /\ pc \in [Callers -> Places]
    /\ fallbackPlain \in BOOLEAN
    /\ cfg \in [Callers -> Key]
    /\ cand \in [Callers -> 1 .. Candidates]
    /\ retry \in [Callers -> Key]
    /\ refused \in [Callers -> SUBSET (1 .. Candidates)]

Init ==
    /\ ResolverInit
    /\ fallbackPlain \in BOOLEAN
    /\ cfg = [c \in Callers |-> NoKey]
    /\ cand = [c \in Callers |-> 1]
    /\ retry = [c \in Callers |-> NoKey]
    /\ refused = [c \in Callers |-> {}]

-----------------------------------------------------------------------------
(* ensureECH: the result may be another caller's too.                      *)

\* Mutant: a host with an override stays without ECH, as SetOverrides says.
EnsureDoneOverride(c) ==
    /\ pc[c] = "ensure"
    /\ res[mine[c]].ech # NoKey \/ res[mine[c]].ips = "other" \/ override # "none"
    /\ Goto(c, "dial")
    /\ UNCHANGED <<configVars, cacheVars, res, file, edgeKey, mine, found, fallbackPlain, dialVars>>

EnsureDone(c) ==
    /\ pc[c] = "ensure"
    /\ res[mine[c]].ech # NoKey \/ res[mine[c]].ips = "other"
    /\ Goto(c, "dial")
    /\ UNCHANGED <<configVars, cacheVars, res, file, edgeKey, mine, found, fallbackPlain, dialVars>>

EnsureFetches(c) ==
    /\ pc[c] = "ensure"
    /\ res[mine[c]].ech = NoKey /\ res[mine[c]].ips = "cf"
    /\ Goto(c, "fetch")
    /\ UNCHANGED <<configVars, cacheVars, res, file, edgeKey, mine, found, fallbackPlain, dialVars>>

\* Mutant: the result is written anew, with the key alone.
FillKeyAnew(c) ==
    /\ pc[c] = "fill"
    /\ res' = [res EXCEPT ![mine[c]] = [Blank EXCEPT !.ech = found[c].ech]]
    /\ Find(c, Began)
    /\ Goto(c, "dial")
    /\ UNCHANGED <<configVars, cacheVars, file, edgeKey, mine, fallbackPlain, dialVars>>

FillKey(c) ==
    /\ pc[c] = "fill"
    /\ res' = [res EXCEPT ![mine[c]].ech = found[c].ech]
    /\ Find(c, Began)
    /\ Goto(c, "dial")
    /\ UNCHANGED <<configVars, cacheVars, file, edgeKey, mine, fallbackPlain, dialVars>>

-----------------------------------------------------------------------------
(* DialECH.                                                                *)

Configure(c) ==
    /\ pc[c] = "dial"
    /\ cfg' = [cfg EXCEPT ![c] = res[mine[c]].ech]
    /\ Goto(c, "try")
    /\ UNCHANGED <<configVars, cacheVars, res, file, edgeKey, mine, found, fallbackPlain, cand, retry, refused>>

\* DialContext returns, with a connection or an error.
Finish(c) ==
    /\ Goto(c, "idle")
    /\ Hold(c, NoResult)
    /\ res' = Swept(res, cache, mine')
    /\ cfg' = [cfg EXCEPT ![c] = NoKey]
    /\ cand' = [cand EXCEPT ![c] = 1]
    /\ retry' = [retry EXCEPT ![c] = NoKey]
    /\ refused' = [refused EXCEPT ![c] = {}]

\* Mutant: one candidate too many.
NextCandidatePast(c) ==
    IF cand[c] <= Candidates
    THEN /\ Goto(c, "try")
         /\ cand' = [cand EXCEPT ![c] = @ + 1]
         /\ refused' = [refused EXCEPT ![c] = @ \cup {cand[c]}]
         /\ retry' = [retry EXCEPT ![c] = NoKey]
         /\ UNCHANGED <<mine, res, cfg>>
    ELSE Finish(c)

\* Mutant: the plain round starts at the first failure.
NextCandidatePlain(c) ==
    IF cfg[c] # NoKey /\ fallbackPlain
    THEN /\ Goto(c, "plain")
         /\ cand' = [cand EXCEPT ![c] = 1]
         /\ refused' = [refused EXCEPT ![c] = @ \cup {cand[c]}]
         /\ retry' = [retry EXCEPT ![c] = NoKey]
         /\ UNCHANGED <<mine, res, cfg>>
    ELSE Finish(c)

\* The next candidate, then the plain round, then an error.
NextCandidate(c) ==
    IF cand[c] < Candidates
    THEN /\ Goto(c, "try")
         /\ cand' = [cand EXCEPT ![c] = @ + 1]
         /\ refused' = [refused EXCEPT ![c] = @ \cup {cand[c]}]
         /\ retry' = [retry EXCEPT ![c] = NoKey]
         /\ UNCHANGED <<mine, res, cfg>>
    ELSE IF cfg[c] # NoKey /\ fallbackPlain
    THEN /\ Goto(c, "plain")
         /\ cand' = [cand EXCEPT ![c] = 1]
         /\ refused' = [refused EXCEPT ![c] = @ \cup {cand[c]}]
         /\ retry' = [retry EXCEPT ![c] = NoKey]
         /\ UNCHANGED <<mine, res, cfg>>
    ELSE Finish(c)

\* Without a key, or with the edge's.
Connect(c) ==
    /\ pc[c] = "try"
    /\ cfg[c] \in {NoKey, edgeKey}
    /\ Finish(c)
    /\ UNCHANGED <<configVars, cacheVars, file, edgeKey, found, fallbackPlain>>

AttemptFails(c) ==
    /\ pc[c] = "try"
    /\ NextCandidate(c)
    /\ UNCHANGED <<configVars, cacheVars, file, edgeKey, found, fallbackPlain>>

\* The edge rejects the key and answers with its own.  DialECH looks for the
\* error type of utls, while the error that dialTLS hands on is crypto/tls's;
\* where the two are not one type a rejection is a failure like any other.
Rejected(c) ==
    /\ RejectionSeen
    /\ pc[c] = "try"
    /\ cfg[c] \notin {NoKey, edgeKey}
    /\ retry' = [retry EXCEPT ![c] = edgeKey]
    /\ Goto(c, "retry")
    /\ UNCHANGED <<configVars, cacheVars, res, file, edgeKey, mine, found, fallbackPlain, cfg, cand, refused>>

RetryConnects(c) ==
    /\ pc[c] = "retry"
    /\ retry[c] = edgeKey
    /\ Goto(c, "sink")
    /\ UNCHANGED <<configVars, cacheVars, res, file, edgeKey, mine, found, fallbackPlain, dialVars>>

RetryFails(c) ==
    /\ pc[c] = "retry"
    /\ NextCandidate(c)
    /\ UNCHANGED <<configVars, cacheVars, file, edgeKey, found, fallbackPlain>>

\* onRetryConfig, when set, keeps the key in the file; the result keeps the old one.
RetrySink(c) ==
    /\ pc[c] = "sink"
    /\ Kept(retry[c])
    /\ Finish(c)
    /\ UNCHANGED <<configVars, cacheVars, edgeKey, found, fallbackPlain>>

PlainConnects(c) ==
    /\ pc[c] = "plain"
    /\ Finish(c)
    /\ UNCHANGED <<configVars, cacheVars, file, edgeKey, found, fallbackPlain>>

PlainFails(c) ==
    /\ pc[c] = "plain"
    /\ IF cand[c] < Candidates
       THEN /\ cand' = [cand EXCEPT ![c] = @ + 1]
            /\ UNCHANGED <<pc, mine, res, cfg, retry, refused>>
       ELSE Finish(c)
    /\ UNCHANGED <<configVars, cacheVars, file, edgeKey, found, fallbackPlain>>

Dial(c) ==
    \/ EnsureDone(c) \/ EnsureFetches(c) \/ FillKey(c)
    \/ Configure(c) \/ Connect(c) \/ AttemptFails(c) \/ Rejected(c)
    \/ RetryConnects(c) \/ RetryFails(c) \/ RetrySink(c)
    \/ PlainConnects(c) \/ PlainFails(c)

Resolve(c) == (Lookup(c) \/ FetchECHConfig(c)) /\ UNCHANGED <<fallbackPlain, dialVars>>

DialContext(c) == Resolve(c) \/ Dial(c)

Next ==
    \/ \E c \in Callers : DialContext(c)
    \/ Around /\ UNCHANGED <<fallbackPlain, dialVars>>

Spec == Init /\ [][Next]_vars

-----------------------------------------------------------------------------
(* Properties.                                                             *)

\* A host with a Cloudflare address is never tried without ECH, unless the
\* plain round is allowed: whatever fails, a key is found ("No-downgrade
\* mode: protected hosts never fall back to plain TLS", "instead of silently
\* downgrading to plain TLS", ensureECH and the built-in key).
ProtectedNeverPlain ==
    \A c \in Callers :
        /\ pc[c] = "try" /\ cfg[c] = NoKey => res[mine[c]].ips = "other"
        /\ pc[c] = "plain" => fallbackPlain

\* The plain round comes after every candidate has been tried with ECH, and
\* only then (DialECH).
PlainIsLast ==
    \A c \in Callers :
        /\ pc[c] = "plain" => cfg[c] # NoKey /\ refused[c] = 1 .. Candidates
        /\ pc[c] \in {"try", "retry", "sink"} => refused[c] = 1 .. cand[c] - 1

Held(i) == cache = i \/ \E c \in Callers : mine[c] = i

\* A result that others may be dialling loses neither its addresses nor its
\* key (ensureECH writes into the shared result).
ResultsKeepKeys ==
    [][\A i \in Ids :
          Held(i) /\ Held(i)' =>
              /\ res'[i].ips = res[i].ips
              /\ res[i].ech # NoKey => res'[i].ech # NoKey]_vars
=============================================================================
