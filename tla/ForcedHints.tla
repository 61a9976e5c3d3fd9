------------------------------ MODULE ForcedHints ------------------------------
(***************************************************************************)
(* The forced-hint service of echdoh/echdoh.go: forcedHintIPsOpt, the      *)
(* probes it launches and the two caches it shares with everyone else.     *)
(*                                                                         *)
(* A DNS handler asks for the addresses a domain may be answered with.     *)
(* The answer is cached for five minutes, a second asker of a domain that  *)
(* is being probed waits on the prober's WaitGroup, and a prober collects  *)
(* addresses in a fixed order of sources: the configured pool, the         *)
(* official addresses with a sample of their /24, the reachable pool.      *)
(*                                                                         *)
(* Callers are the goroutines of the HTTP server.  The steps between two   *)
(* lock acquisitions or two channel receives are one action.  A probe is   *)
(* one action, taken when the prober receives its verdict: the goroutine's *)
(* own cache write precedes that receive and nothing in between depends    *)
(* on it.  Time is an environment that may expire entries.                 *)
(***************************************************************************)
EXTENDS Naturals, FiniteSets, SequencesExt

CONSTANTS
    Callers,            \* goroutines that call forcedHintIPsOpt
    NoCaller,           \* no flight registered, nobody waited on
    Keys,               \* normalised domain names
    IPs,                \* every address that may be a candidate
    Pool,               \* cloudPoolIPs(): the configured pool
    Reach,              \* the first 8 of fetchDohEndpointIPv4s()
    OfficialAnswers,    \* the possible Cloudflare addresses of a domain
    Subnet,             \* Subnet[ip]: the addresses of the /24 of ip
    MaxDraws,           \* addresses drawn from a /24 (6 in the code)
    MaxHints,           \* the max argument (6 at every call site)
    MaxElapsed          \* bound: expiries and merges of a behaviour

ASSUME NoCallerAssumption == NoCaller \notin Callers
ASSUME AddressAssumption ==
    /\ Pool \subseteq IPs
    /\ Reach \subseteq IPs
    /\ OfficialAnswers \subseteq SUBSET IPs
    /\ Subnet \in [IPs -> SUBSET IPs]
ASSUME MaxHintsAssumption == MaxHints \in Nat \ {0}
ASSUME BoundAssumption == MaxDraws \in Nat /\ MaxElapsed \in Nat

VARIABLES
    pc,                 \* where each caller is
    key,                \* the domain of its call
    poolFirst,          \* the poolFirst argument of its call
    official,           \* the official addresses of its call
    waitsOn,            \* whose WaitGroup it is blocked in
    pending,            \* goroutines whose verdict it has yet to receive
    poolOut,            \* pool addresses that passed, in arrival order
    accepted,           \* official and sampled addresses that passed
    todo,               \* what is left of the list being merged into out
    out,                \* the answer under construction
    proven,             \* history: what passed a probe in this flight
    result,             \* the entry a finished call returns
    forcedHintCache,
    forcedHintFlight,
    echTestCache,
    stray,              \* goroutines nobody receives from any more
    elapsed

callVars   == <<key, poolFirst, waitsOn, result>>
flightVars == <<official, pending, poolOut, accepted, todo, out, proven>>
hintVars   == <<forcedHintCache, forcedHintFlight>>
probeVars  == <<echTestCache, stray>>
vars == <<pc, callVars, flightVars, hintVars, probeVars, elapsed>>

Taking  == {"takeFirst", "takeOfficial", "takeReach", "takeAgain", "takeSpare"}
Probing == {"probePool", "probeOfficial", "sample", "probeReach"}
Flying  == {"lookupOfficial"} \cup Probing \cup Taking \cup {"publish"}
Owning  == Flying \cup {"unmap"}
Labels  == Owning \cup {"idle", "lookup", "wait", "done", "return"}

\* forcedHintEntry; fresh until its TTL is over.
Entry == [ips : Seq(IPs), fresh : BOOLEAN]
NoEntry == [ips |-> <<>>, fresh |-> FALSE]

\* "old" is an entry past its TTL, whichever verdict it holds.
Verdicts == {"none", "ok", "bad", "old"}

TypeOK ==
    /\ pc \in [Callers -> Labels]
    /\ key \in [Callers -> Keys]
    /\ poolFirst \in [Callers -> BOOLEAN]
    /\ waitsOn \in [Callers -> Callers \cup {NoCaller}]
    /\ result \in [Callers -> Entry]
    /\ official \in [Callers -> SUBSET IPs]
    /\ pending \in [Callers -> SUBSET IPs]
    /\ poolOut \in [Callers -> Seq(IPs)]
    /\ accepted \in [Callers -> Seq(IPs)]
    /\ todo \in [Callers -> Seq(IPs)]
    /\ out \in [Callers -> Seq(IPs)]
    /\ proven \in [Callers -> SUBSET IPs]
    /\ forcedHintCache \in [Keys -> Entry]
    /\ forcedHintFlight \in [Keys -> Callers \cup {NoCaller}]
    /\ echTestCache \in [Keys -> [IPs -> Verdicts]]
    /\ stray \in SUBSET (Keys \X IPs)
    /\ elapsed \in 0 .. MaxElapsed

Init ==
    /\ pc = [c \in Callers |-> "idle"]
    /\ key \in [Callers -> Keys]
    /\ poolFirst = [c \in Callers |-> FALSE]
    /\ waitsOn = [c \in Callers |-> NoCaller]
    /\ result = [c \in Callers |-> NoEntry]
    /\ official = [c \in Callers |-> {}]
    /\ pending = [c \in Callers |-> {}]
    /\ poolOut = [c \in Callers |-> <<>>]
    /\ accepted = [c \in Callers |-> <<>>]
    /\ todo = [c \in Callers |-> <<>>]
    /\ out = [c \in Callers |-> <<>>]
    /\ proven = [c \in Callers |-> {}]
    /\ forcedHintCache = [k \in Keys |-> NoEntry]
    /\ forcedHintFlight = [k \in Keys |-> NoCaller]
    /\ echTestCache = [k \in Keys |-> [ip \in IPs |-> "none"]]
    /\ stray = {}
    /\ elapsed = 0

-----------------------------------------------------------------------------
(* Entering the service, and the lookup loop under forcedHintMu.           *)

GoTo(c, label) == pc' = [pc EXCEPT ![c] = label]

\* forceRewriteA passes what its answer held, injectECHForced passes nothing,
\* rewriteAIfCF (the only poolFirst caller) never passes an empty list.
Call(c) ==
    /\ pc[c] = "idle"
    /\ GoTo(c, "lookup")
    /\ \E k \in Keys, first \in BOOLEAN, given \in OfficialAnswers \cup {{}} :
         /\ first => given # {}
         /\ key' = [key EXCEPT ![c] = k]
         /\ poolFirst' = [poolFirst EXCEPT ![c] = first]
         /\ official' = [official EXCEPT ![c] = given]
    /\ UNCHANGED <<waitsOn, result, pending, poolOut, accepted, todo, out,
                   proven, hintVars, probeVars, elapsed>>

\* A fresh entry answers, the nil one of a failed probe round included.
Hit(c) ==
    /\ pc[c] = "lookup"
    /\ forcedHintCache[key[c]].fresh
    /\ result' = [result EXCEPT ![c] = forcedHintCache[key[c]]]
    /\ GoTo(c, "return")
    /\ UNCHANGED <<key, poolFirst, waitsOn, flightVars, hintVars, probeVars, elapsed>>

Join(c) ==
    /\ pc[c] = "lookup"
    /\ ~ forcedHintCache[key[c]].fresh
    /\ forcedHintFlight[key[c]] # NoCaller
    /\ waitsOn' = [waitsOn EXCEPT ![c] = forcedHintFlight[key[c]]]
    /\ GoTo(c, "wait")
    /\ UNCHANGED <<key, poolFirst, result, flightVars, hintVars, probeVars, elapsed>>

\* Mutant: the flight of another prober is overlooked.
RegisterOverAnother(c) ==
    /\ pc[c] = "lookup"
    /\ ~ forcedHintCache[key[c]].fresh
    /\ forcedHintFlight' = [forcedHintFlight EXCEPT ![key[c]] = c]
    /\ GoTo(c, "lookupOfficial")
    /\ UNCHANGED <<callVars, flightVars, forcedHintCache, probeVars, elapsed>>

\* Mutant: the older code, for which a nil answer was no answer.
RegisterAfterNil(c) ==
    /\ pc[c] = "lookup"
    /\ ~ forcedHintCache[key[c]].fresh \/ forcedHintCache[key[c]].ips = <<>>
    /\ forcedHintFlight[key[c]] = NoCaller
    /\ forcedHintFlight' = [forcedHintFlight EXCEPT ![key[c]] = c]
    /\ GoTo(c, "lookupOfficial")
    /\ UNCHANGED <<callVars, flightVars, forcedHintCache, probeVars, elapsed>>

Register(c) ==
    /\ pc[c] = "lookup"
    /\ ~ forcedHintCache[key[c]].fresh
    /\ forcedHintFlight[key[c]] = NoCaller
    /\ forcedHintFlight' = [forcedHintFlight EXCEPT ![key[c]] = c]
    /\ GoTo(c, "lookupOfficial")
    /\ UNCHANGED <<callVars, flightVars, forcedHintCache, probeVars, elapsed>>

-----------------------------------------------------------------------------
(* Probes.  Outcome(k, ip) is what a handshake test reports: a live        *)
(* verdict is reused, anything else is probed and the outcome cached.      *)

Fresh(v) == v \in {"ok", "bad"}

\* Mutant: a probe that failed is stored as a verdict nobody reads.
HandshakeUnread(k, ip, passed) ==
    echTestCache' = [echTestCache EXCEPT ![k][ip] = IF passed THEN "ok" ELSE "failed"]

\* echHandshakeOK: a true verdict lives 24 h, a false one 1 h.
Handshake(k, ip, passed) ==
    LET cached == echTestCache[k][ip]
    IN  /\ Fresh(cached) => passed = (cached = "ok")
        /\ echTestCache' = IF Fresh(cached) THEN echTestCache
                           ELSE [echTestCache EXCEPT ![k][ip] =
                                    IF passed THEN "ok" ELSE "bad"]

\* The pool's own check: any entry decides, an expired one says no.
PoolCheck(k, ip, passed) ==
    IF echTestCache[k][ip] = "none"
    THEN Handshake(k, ip, passed)
    ELSE /\ passed = (echTestCache[k][ip] = "ok")
         /\ UNCHANGED echTestCache

Prove(c, ip, passed) ==
    proven' = IF passed THEN [proven EXCEPT ![c] = @ \cup {ip}] ELSE proven

\* An empty list is completed by an upstream A query, which may find none.
LookupOfficial(c) ==
    /\ pc[c] = "lookupOfficial"
    /\ \E found \in OfficialAnswers \cup {{}} :
         official' = IF official[c] # {} THEN official
                     ELSE [official EXCEPT ![c] = found]
    /\ pending' = [pending EXCEPT ![c] = Pool]
    /\ poolOut' = [poolOut EXCEPT ![c] = <<>>]
    /\ accepted' = [accepted EXCEPT ![c] = <<>>]
    /\ out' = [out EXCEPT ![c] = <<>>]
    /\ proven' = [proven EXCEPT ![c] = {}]
    /\ GoTo(c, "probePool")
    /\ UNCHANGED <<callVars, todo, hintVars, probeVars, elapsed>>

PoolVerdict(c) ==
    /\ pc[c] = "probePool"
    /\ \E ip \in pending[c], passed \in BOOLEAN :
         /\ PoolCheck(key[c], ip, passed)
         /\ pending' = [pending EXCEPT ![c] = @ \ {ip}]
         /\ poolOut' = IF passed THEN [poolOut EXCEPT ![c] = Append(@, ip)]
                       ELSE poolOut
         /\ Prove(c, ip, passed)
    /\ UNCHANGED <<pc, callVars, official, accepted, todo, out, hintVars, stray, elapsed>>

\* Mutant: the older order, the pool before the official addresses for everyone.
PoolDoneFirst(c) ==
    /\ pc[c] = "probePool"
    /\ pending[c] = {}
    /\ todo' = [todo EXCEPT ![c] = poolOut[c]]
    /\ GoTo(c, "takeFirst")
    /\ UNCHANGED <<callVars, official, pending, poolOut, accepted, out, proven,
                   hintVars, probeVars, elapsed>>

PoolDone(c) ==
    /\ pc[c] = "probePool"
    /\ pending[c] = {}
    /\ todo' = [todo EXCEPT ![c] = IF poolFirst[c] THEN poolOut[c] ELSE <<>>]
    /\ GoTo(c, "takeFirst")
    /\ UNCHANGED <<callVars, official, pending, poolOut, accepted, out, proven,
                   hintVars, probeVars, elapsed>>

OfficialVerdict(c) ==
    /\ pc[c] = "probeOfficial"
    /\ \E ip \in pending[c], passed \in BOOLEAN :
         /\ Handshake(key[c], ip, passed)
         /\ pending' = [pending EXCEPT ![c] = @ \ {ip}]
         /\ accepted' = IF passed THEN [accepted EXCEPT ![c] = Append(@, ip)]
                        ELSE accepted
         /\ Prove(c, ip, passed)
    /\ UNCHANGED <<pc, callVars, official, poolOut, todo, out, hintVars, stray, elapsed>>

\* No official address passed: the stage contributes nothing.  Enough passed:
\* the first MaxHints of them.  Otherwise a few of the first one's /24 are tried.
OfficialDone(c) ==
    /\ pc[c] = "probeOfficial"
    /\ pending[c] = {}
    /\ IF Len(accepted[c]) \in 1 .. (MaxHints - 1)
       THEN /\ \E drawn \in SUBSET (Subnet[accepted[c][1]] \ ToSet(accepted[c])) :
                 /\ Cardinality(drawn) <= MaxDraws
                 /\ pending' = [pending EXCEPT ![c] = drawn]
            /\ GoTo(c, "sample")
            /\ UNCHANGED todo
       ELSE /\ todo' = [todo EXCEPT ![c] =
                          IF Len(accepted[c]) > MaxHints
                          THEN SubSeq(accepted[c], 1, MaxHints) ELSE accepted[c]]
            /\ GoTo(c, "takeOfficial")
            /\ UNCHANGED pending
    /\ UNCHANGED <<callVars, official, poolOut, accepted, out, proven,
                   hintVars, probeVars, elapsed>>

\* The first success ends the stage; the goroutines still out become stray.
Abandon(c, rest) ==
    /\ stray' = stray \cup ({key[c]} \X rest)
    /\ pending' = [pending EXCEPT ![c] = {}]

SampleVerdict(c) ==
    /\ pc[c] = "sample"
    /\ \E ip \in pending[c], passed \in BOOLEAN :
         /\ Handshake(key[c], ip, passed)
         /\ Prove(c, ip, passed)
         /\ IF passed
            THEN /\ accepted' = [accepted EXCEPT ![c] = Append(@, ip)]
                 /\ todo' = [todo EXCEPT ![c] = Append(accepted[c], ip)]
                 /\ Abandon(c, pending[c] \ {ip})
                 /\ GoTo(c, "takeOfficial")
            ELSE /\ pending' = [pending EXCEPT ![c] = @ \ {ip}]
                 /\ UNCHANGED <<pc, accepted, todo, stray>>
    /\ UNCHANGED <<callVars, official, poolOut, out, hintVars, elapsed>>

SampleDone(c) ==
    /\ pc[c] = "sample"
    /\ pending[c] = {}
    /\ todo' = [todo EXCEPT ![c] = accepted[c]]
    /\ GoTo(c, "takeOfficial")
    /\ UNCHANGED <<callVars, official, pending, poolOut, accepted, out, proven,
                   hintVars, probeVars, elapsed>>

\* echFilterPool returns at most one address.
ReachVerdict(c) ==
    /\ pc[c] = "probeReach"
    /\ \E ip \in pending[c], passed \in BOOLEAN :
         /\ Handshake(key[c], ip, passed)
         /\ Prove(c, ip, passed)
         /\ IF passed
            THEN /\ todo' = [todo EXCEPT ![c] = <<ip>>]
                 /\ Abandon(c, pending[c] \ {ip})
                 /\ GoTo(c, "takeReach")
            ELSE /\ pending' = [pending EXCEPT ![c] = @ \ {ip}]
                 /\ UNCHANGED <<pc, todo, stray>>
    /\ UNCHANGED <<callVars, official, poolOut, accepted, out, hintVars, elapsed>>

\* Mutant: the third level of lines 978-981, the reachable pool as it is.
ReachDoneUnproven(c) ==
    /\ pc[c] = "probeReach"
    /\ pending[c] = {}
    /\ todo' = [todo EXCEPT ![c] = SetToSeq(Reach)]
    /\ GoTo(c, "takeReach")
    /\ UNCHANGED <<callVars, official, pending, poolOut, accepted, out, proven,
                   hintVars, probeVars, elapsed>>

ReachDone(c) ==
    /\ pc[c] = "probeReach"
    /\ pending[c] = {}
    /\ GoTo(c, "takeReach")
    /\ UNCHANGED <<callVars, flightVars, hintVars, probeVars, elapsed>>

-----------------------------------------------------------------------------
(* Merging a list into out: append what is new, stop once out is full.     *)
(* The fullness test FOLLOWS the append, so a stage entered with a full    *)
(* list may still add one address.                                         *)

TakeNext(c) ==
    /\ pc[c] \in Taking
    /\ todo[c] # <<>>
    /\ LET ip    == Head(todo[c])
           grown == IF Contains(out[c], ip) THEN out[c] ELSE Append(out[c], ip)
       IN  /\ out' = [out EXCEPT ![c] = grown]
           /\ todo' = [todo EXCEPT ![c] = IF Len(grown) >= MaxHints
                                          THEN <<>> ELSE Tail(@)]
    /\ UNCHANGED <<pc, callVars, official, pending, poolOut, accepted, proven,
                   hintVars, probeVars, elapsed>>

FirstTaken(c) ==
    /\ pc[c] = "takeFirst"
    /\ todo[c] = <<>>
    /\ pending' = [pending EXCEPT ![c] = official[c]]
    /\ GoTo(c, "probeOfficial")
    /\ UNCHANGED <<callVars, official, poolOut, accepted, todo, out, proven,
                   hintVars, probeVars, elapsed>>

\* The reachable pool is only consulted when there is room left.
OfficialTaken(c) ==
    /\ pc[c] = "takeOfficial"
    /\ todo[c] = <<>>
    /\ IF Len(out[c]) < MaxHints
       THEN /\ pending' = [pending EXCEPT ![c] = Reach]
            /\ GoTo(c, "probeReach")
       ELSE /\ GoTo(c, "takeReach")
            /\ UNCHANGED pending
    /\ UNCHANGED <<callVars, official, poolOut, accepted, todo, out, proven,
                   hintVars, probeVars, elapsed>>

ReachTaken(c) ==
    /\ pc[c] = "takeReach"
    /\ todo[c] = <<>>
    /\ todo' = [todo EXCEPT ![c] = IF poolFirst[c] THEN poolOut[c] ELSE <<>>]
    /\ GoTo(c, "takeAgain")
    /\ UNCHANGED <<callVars, official, pending, poolOut, accepted, out, proven,
                   hintVars, probeVars, elapsed>>

\* Mutant: the spare addresses are added to a full list too.
AgainTakenFull(c) ==
    /\ pc[c] = "takeAgain"
    /\ todo[c] = <<>>
    /\ todo' = [todo EXCEPT ![c] = poolOut[c]]
    /\ GoTo(c, "takeSpare")
    /\ UNCHANGED <<callVars, official, pending, poolOut, accepted, out, proven,
                   hintVars, probeVars, elapsed>>

AgainTaken(c) ==
    /\ pc[c] = "takeAgain"
    /\ todo[c] = <<>>
    /\ todo' = [todo EXCEPT ![c] = IF Len(out[c]) < MaxHints
                                   THEN poolOut[c] ELSE <<>>]
    /\ GoTo(c, "takeSpare")
    /\ UNCHANGED <<callVars, official, pending, poolOut, accepted, out, proven,
                   hintVars, probeVars, elapsed>>

\* Mutant: the flight is unregistered before its answer is published.
SpareTakenUnmaps(c) ==
    /\ pc[c] = "takeSpare"
    /\ todo[c] = <<>>
    /\ forcedHintFlight' = [forcedHintFlight EXCEPT ![key[c]] = NoCaller]
    /\ GoTo(c, "publish")
    /\ UNCHANGED <<callVars, flightVars, forcedHintCache, probeVars, elapsed>>

SpareTaken(c) ==
    /\ pc[c] = "takeSpare"
    /\ todo[c] = <<>>
    /\ GoTo(c, "publish")
    /\ UNCHANGED <<callVars, flightVars, hintVars, probeVars, elapsed>>

-----------------------------------------------------------------------------
(* Leaving: the entry first, then the deferred unregister and wg.Done().   *)

\* An empty list is published too: the fail-closed negative entry.
Publish(c) ==
    /\ pc[c] = "publish"
    /\ LET e == [ips |-> out[c], fresh |-> TRUE]
       IN  /\ forcedHintCache' = [forcedHintCache EXCEPT ![key[c]] = e]
           /\ result' = [result EXCEPT ![c] = e]
    /\ GoTo(c, "unmap")
    /\ UNCHANGED <<key, poolFirst, waitsOn, flightVars, forcedHintFlight,
                   probeVars, elapsed>>

\* Mutant: the prober leaves without wg.Done().
UnmapAndLeave(c) ==
    /\ pc[c] = "unmap"
    /\ forcedHintFlight' = [forcedHintFlight EXCEPT ![key[c]] = NoCaller]
    /\ GoTo(c, "return")
    /\ UNCHANGED <<callVars, flightVars, forcedHintCache, probeVars, elapsed>>

Unmap(c) ==
    /\ pc[c] = "unmap"
    /\ forcedHintFlight' = [forcedHintFlight EXCEPT ![key[c]] = NoCaller]
    /\ GoTo(c, "done")
    /\ UNCHANGED <<callVars, flightVars, forcedHintCache, probeVars, elapsed>>

\* Mutant: one of the waiting goroutines is woken, as by a Signal.
WgDoneOne(c) ==
    LET waiting == {d \in Callers : pc[d] = "wait" /\ waitsOn[d] = c}
    IN  /\ pc[c] = "done"
        /\ IF waiting = {}
           THEN GoTo(c, "return") /\ UNCHANGED waitsOn
           ELSE \E d \in waiting :
                  /\ pc' = [pc EXCEPT ![c] = "return", ![d] = "lookup"]
                  /\ waitsOn' = [waitsOn EXCEPT ![d] = NoCaller]
        /\ UNCHANGED <<key, poolFirst, result, flightVars, hintVars, probeVars, elapsed>>

\* Every goroutine in wg.Wait() wakes and goes back to the lookup.
WgDone(c) ==
    /\ pc[c] = "done"
    /\ pc' = [d \in Callers |-> IF d = c THEN "return"
                                ELSE IF pc[d] = "wait" /\ waitsOn[d] = c
                                THEN "lookup" ELSE pc[d]]
    /\ waitsOn' = [d \in Callers |-> IF waitsOn[d] = c THEN NoCaller ELSE waitsOn[d]]
    /\ UNCHANGED <<key, poolFirst, result, flightVars, hintVars, probeVars, elapsed>>

\* The handler is answered.  The per-call values are dead from here on; they
\* are reset so that equal futures are equal states.
Return(c) ==
    /\ pc[c] = "return"
    /\ GoTo(c, "idle")
    /\ poolFirst' = [poolFirst EXCEPT ![c] = FALSE]
    /\ result' = [result EXCEPT ![c] = NoEntry]
    /\ poolOut' = [poolOut EXCEPT ![c] = <<>>]
    /\ accepted' = [accepted EXCEPT ![c] = <<>>]
    /\ out' = [out EXCEPT ![c] = <<>>]
    /\ official' = [official EXCEPT ![c] = {}]
    /\ proven' = [proven EXCEPT ![c] = {}]
    /\ UNCHANGED <<key, waitsOn, pending, todo, hintVars, probeVars, elapsed>>

-----------------------------------------------------------------------------
(* The environment: time, the merged caches, the goroutines left behind.   *)

Tick == elapsed < MaxElapsed /\ elapsed' = elapsed + 1

\* five minutes after its publication (forcedHintTTL)
ExpireHint(k) ==
    /\ Tick
    /\ forcedHintCache[k].fresh
    /\ forcedHintCache' = [forcedHintCache EXCEPT ![k] = NoEntry]
    /\ UNCHANGED <<pc, callVars, flightVars, forcedHintFlight, probeVars>>

AgeVerdict(k, ip) ==
    /\ Tick
    /\ Fresh(echTestCache[k][ip])
    /\ echTestCache' = [echTestCache EXCEPT ![k][ip] = "old"]
    /\ UNCHANGED <<pc, callVars, flightVars, hintVars, stray>>

\* LoadEchTestCache and cloudPull overwrite an entry with one from elsewhere.
MergeVerdict(k, ip, v) ==
    /\ Tick
    /\ echTestCache[k][ip] # v
    /\ echTestCache' = [echTestCache EXCEPT ![k][ip] = v]
    /\ UNCHANGED <<pc, callVars, flightVars, hintVars, stray>>

\* A goroutine whose result nobody waits for still writes the cache.  It looked for
\* a live entry before its handshake, not after: it overwrites what another has
\* written in the meantime, or it found an entry and writes nothing.
StrayVerdict(k, ip) ==
    /\ <<k, ip>> \in stray
    /\ stray' = stray \ {<<k, ip>>}
    /\ \/ \E v \in {"ok", "bad"} : echTestCache' = [echTestCache EXCEPT ![k][ip] = v]
       \/ echTestCache[k][ip] # "none" /\ UNCHANGED echTestCache
    /\ UNCHANGED <<pc, callVars, flightVars, hintVars, elapsed>>

Collect(c) ==
    \/ PoolVerdict(c) \/ PoolDone(c) \/ OfficialVerdict(c) \/ OfficialDone(c)
    \/ SampleVerdict(c) \/ SampleDone(c) \/ ReachVerdict(c) \/ ReachDone(c)

Assemble(c) ==
    \/ TakeNext(c) \/ FirstTaken(c) \/ OfficialTaken(c) \/ ReachTaken(c)
    \/ AgainTaken(c) \/ SpareTaken(c)

\* What a caller does of its own once it has been called.
Step(c) ==
    \/ Hit(c) \/ Join(c) \/ Register(c) \/ LookupOfficial(c)
    \/ Collect(c) \/ Assemble(c)
    \/ Publish(c) \/ Unmap(c) \/ WgDone(c) \/ Return(c)

Environment ==
    \/ \E k \in Keys : ExpireHint(k)
    \/ \E k \in Keys, ip \in IPs :
         \/ AgeVerdict(k, ip)
         \/ StrayVerdict(k, ip)
         \/ \E v \in {"ok", "bad"} : MergeVerdict(k, ip, v)

Next == (\E c \in Callers : Call(c) \/ Step(c)) \/ Environment

Spec == Init /\ [][Next]_vars

\* Goroutines are scheduled, and every probe ends by its three-second timeout.
FairSpec == Spec /\ \A c \in Callers : WF_vars(Step(c))

-----------------------------------------------------------------------------
(* Properties.                                                             *)

\* Single flight: the A, AAAA and HTTPS handlers of one domain never probe it
\* at the same time (line 990), and the flight table names exactly the prober.
SingleFlight ==
    \A c \in Callers : pc[c] \in Owning <=> forcedHintFlight[key[c]] = c

\* No lost wake-up: whoever is in wg.Wait() waits for a caller that has still
\* to call Done() on that very group, for the same domain.
WaitersHaveOwner ==
    \A c \in Callers : pc[c] = "wait" =>
        /\ waitsOn[c] \in Callers
        /\ pc[waitsOn[c]] \in Owning \cup {"done"}
        /\ key[waitsOn[c]] = key[c]

\* A domain with a live answer is not probed again, a nil answer included
\* (lines 1016-1019: the retries that log showed every query).
NoProbeWhileFresh ==
    \A c \in Callers : pc[c] \in Flying => ~ forcedHintCache[key[c]].fresh

\* Fail closed: every address of an answer passed a handshake in the flight
\* that built it, and the nil answer means that no candidate passed.
FailClosed ==
    \A c \in Callers : pc[c] = "publish" =>
        /\ ToSet(out[c]) \subseteq proven[c]
        /\ out[c] = <<>> => proven[c] = {}

\* The bound of line 995 as far as the code keeps it: the flight of a forced
\* domain never exceeds max, a poolFirst flight exceeds it by one at most;
\* no answer repeats an address.
FlightBounded ==
    \A c \in Callers : pc[c] \in Owning =>
        /\ Len(out[c]) <= MaxHints + (IF poolFirst[c] THEN 1 ELSE 0)
        /\ IsInjective(out[c])

\* The order of lines 1006-1009 within one flight: the pool addresses, up to
\* max of them, lead a poolFirst answer; no other address precedes an official
\* one in a forced one.
FlightOrder ==
    \A c \in Callers : pc[c] = "publish" =>
        IF poolFirst[c]
        THEN \A i \in 1 .. MaxHints :
               i <= Len(out[c]) /\ i <= Len(poolOut[c]) => out[c][i] = poolOut[c][i]
        ELSE \A i, j \in DOMAIN out[c] :
               i < j /\ out[c][j] \in ToSet(accepted[c]) => out[c][i] \in ToSet(accepted[c])

\* An answer once published is what everybody reads until it expires: it is
\* never replaced while it is live.
FreshEntryStable ==
    [][\A k \in Keys :
         forcedHintCache[k].fresh /\ forcedHintCache'[k].fresh
            => forcedHintCache'[k] = forcedHintCache[k]]_vars

\* Every call returns: no caller is left in the WaitGroup or in the loop.
CallsReturn == \A c \in Callers : pc[c] = "lookup" ~> pc[c] = "idle"
=============================================================================
