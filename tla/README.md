# A TLA+ model of echdoh

echdoh is a DNS-over-HTTPS server that runs inside an Android application. It answers the
browser's A, AAAA and HTTPS queries so that Cloudflare-hosted domains are reached over
addresses for which Encrypted Client Hello (ECH) works: it rewrites addresses, injects `ech=`
records, and probes candidates with real handshakes before it hands them out. All its state is
in package variables behind a dozen mutexes, shared by HTTP handlers, probing goroutines,
timers and the application's own threads. This directory models that state and its
interleavings, and that of the DoH resolver and ECH dialer the repository carries beside it, checks
it with TLC on small instances, and proves its safety with TLAPS.

File names below are relative to `src/echdoh/` unless they start with `src/`.

## 1. Inventory

| Component | Code | State | Operations |
|---|---|---|---|
| Forced hint service | `echdoh.go` 871-1246 | `forcedHintCache`, `forcedHintFlight` | `forcedHintIPsOpt`, `officialSubnetIPs`, `echFilterPool` |
| ECH verdict cache | `echdoh.go` 686-869 | `echTestCache`, `echTestPath`, its file, `lastSaveTs` | `echHandshakeOK`, `LoadEchTestCache`, `SaveEchTestCache`, the throttled save |
| Cloud cache | `cloudcache.go` | `cloudPending`, URL and token, the table `ech_probe` | `SetCloudCache`, `cloudSyncLoop`, push, pull, `cloudNote`, scan push and pull |
| DNS handler, response cache | `echdoh.go` 309-574, 1248-1482, `dnscache.go` | `respCache` | `handleDoH`, `writeResponse`, `queryUpstream`, rewriting and injection |
| Override rules | `echdoh.go` 34-137 | `overrideMap`, `overrideV6Map` | `SetOverride`, `SetOverrideV6`, matching |
| Cloud configuration | `cloudconfig.go` | `cloudForce`, `cloudPool`, `cloudRunning` | `StartCloudConfig`, `StopCloudConfig`, `fetchCloudConfigTXT` |
| Warm-up | `warmup.go` | writes `respCache` | `warmUpCache`, `processResponse` |
| Server lifecycle | `echdoh.go` 139-307 | `srv`, `running`, `lastErr` | `Start`, `Stop`, `IsRunning`, `LastError` |
| Force classification | `probe.go` | `probeCache`, `probeProbe`, its file | `shouldForceCF`, `probeDomain`, load, save |
| Lock order | all `Lock` calls of `src/echdoh` | 13 mutexes | 43 sequences of them |
| Scan and reachable pool | `scan.go` | `reachable` | `StartScanCFIPs`, sampling |
| Admin page | `admin.go` | none of its own | read-only pages, a refresh |
| Seed upstreams, certificate | `seed.go`, `r2cert.go` | `upstream` | one fetch at the start |
| Resolver | `src/internal/dns/resolver.go` | cache, overrides, endpoints, ECH file | `Lookup`, `SetOverrides`, `SetDoHURLs`, `FetchECHConfig` |
| Dialer | `src/internal/tlsconn/dialer.go` | a configuration; writes into results of the resolver | `DialContext`, `DialECH`, `ensureECH` |
| Preferred addresses, ranges, certificate utilities | `src/internal/...` | measurements, constants | pure functions for the most part |

How they interact. A handler takes a query through the response cache, the upstream, the
rules, the classification and the hint service, each behind a mutex of its own, and puts the
answer back into the response cache. The hint service probes through the verdict cache, which
saves to a file and notes for the cloud. The cloud configuration, the application and the
warm-up change rules and cache under the handlers' feet. `Start` launches all the background
goroutines; nothing ever stops them. A probe of the classification, and the application's own
connections, go through the dialer, which asks the resolver and writes the key it finds into the
result the resolver has cached.

What is hard. A handler reads a rule, spends seconds in the upstream exchange and in probes,
and then writes a cache that may have been cleared meanwhile. Three handlers of one domain (A,
AAAA, HTTPS) arrive together and must share one round of probes. Probe goroutines outlive the
round that started them. The serving goroutine reports the failure of a server that may no
longer be the current one. Thirteen mutexes are taken by functions that call each other. A dial
goes through addresses, keys, rejections and fallbacks while other dials share its data. The
process is killed whenever Android likes.

What makes each component correct:

* Hint service: one round of probes per domain, nobody left waiting, nothing handed out that
  did not pass, the documented order and number of addresses, answers stable until they expire.
* Verdict cache and cloud cache: a verdict is what a handshake said, however it travels; later
  verdicts win; what was found survives a restart.
* Handler: one answer per query; an answer follows from rules in force when it was asked, or
  not long before; a forced domain never shows its own addresses.
* Lifecycle: `running` is said of the current server, every server is closed, errors surface.
* Classification and cloud configuration: one probe per name, verdicts that a probe gave, names
  kept; the list published last comes into force.
* Locks: no two operations block each other, no guarded variable is touched without its mutex.
* Resolver and dialer: answers of the configuration in force; no Cloudflare host without ECH
  before every address was tried with it, and not at all unless that is allowed.

`PROJECT.json` lists the components with what is modelled of each, and the hazards with the
properties that would notice them.

## 2. Modules

| Module | Models | Extended by |
|---|---|---|
| `ForcedHints` | the hint service with the probes and the two caches it uses | `HintRefinement`, `ForcedHintsProofs` |
| `HintOracle` | what the hint service owes its callers | instantiated in `HintRefinement` |
| `HintRefinement` | the mapping of `ForcedHints` to `HintOracle` | `MCForcedHints`, `HintRefinementProofs` |
| `DohServer` | handler, response cache, rules, one cloud refresh, warm-up | `MCDohServer`, `DohServerProofs` |
| `Lifecycle` | `Start`, `Stop`, the serving goroutine | `MCLifecycle`, `LifecycleProofs` |
| `Verdicts` | the verdict cache's life outside a flight: memory, file, pending set, cloud | `MCVerdicts`, `VerdictsProofs` |
| `Classification` | `shouldForceCF`, its probes and file, the loops of the cloud configuration | `MCClassification`, `ClassificationProofs` |
| `LockOrder` | goroutines that run any scripts over mutexes and variables | `MCPackageLocks`, `LockOrderProofs` |
| `PackageLocks` | the scripts of `src/echdoh` | `MCPackageLocks` |
| `Resolver` | the resolver and its key chain for one host | `Dialer` |
| `Dialer` | the dialer on top of it | `MCDialer`, `DialerProofs` |

Each is parameterised by constants with named assumptions, has one action per critical section
or per message received, and states its properties at the end. Definitions called *Mutant* are
variants of an action with a plausible bug (an older version of the code where its comments
tell of one; the scripts of `PackageLocks` call them changes). `PROJECT.json` pairs each with the property that must notice it when it takes the
place of the real action; no specification uses them otherwise.

### ForcedHints

`pc[c]` is where a caller is in `forcedHintIPsOpt`. `lookup` is the loop under `forcedHintMu`,
with the outcomes `Hit`, `Join` (someone else is probing: wait and look again) and `Register`.
A registered caller looks official addresses up if it was given none (`LookupOfficial`), and
collects: `PoolVerdict`/`PoolDone`, `OfficialVerdict`/`OfficialDone`,
`SampleVerdict`/`SampleDone`/`Abandon`, `ReachVerdict`/`ReachDone`. The lists are merged by the
`*Taken` actions, one per loop, whose fullness tests are those of the code: after the append in
some, before it in others. `Publish` writes the cache; the two deferred calls are `Unmap` and
`WgDone`, in that order.

A probe is one action, taken when the collector receives the verdict: the goroutine wrote the
cache before it sent, and no step in between reads what it wrote. When the first of the sampled
addresses succeeds the others are abandoned, and go on in `stray`: they write the verdict cache
at any later time, over whatever is there, since they looked before their handshakes. A goroutine
that is waited for looks and writes in one step (`Handshake`): what the cloud puts into the cache
between the two is reused in the model and overwritten in the code, with the outcome reported
either way. `Verdicts` has the two steps apart. Verdicts arrive in every order. `PoolCheck` is the pool's way of accepting a
cached true verdict. `ExpireHint`, `AgeVerdict` and `MergeVerdict` are time and the cloud.

### HintOracle and HintRefinement

The oracle has no cache, mutex, wait group or goroutine: per domain either nothing is known or one
answer is live; who asks is told it; when there is none, one asker conducts a round and concludes
it with addresses that passed, an empty answer only if none did. The mapping takes a flight that
is testing or merging (`Flying`) for a round, what passed in it for `passed`, a cached entry within
its TTL for the live answer, and a caller past its reading or its publishing for answered. Hence
`Publish`, not the later `Unmap`, is the step that concludes, and a caller still waiting in `Join`
is merely asking. The oracle's limit is `MaxHints + 1`, as in the code.

### DohServer

A handler's path is `lookup`, `upstream`, (`v6`,) `override`, (`overrideAAAA`,) `force`,
`plain`, `write`, `done`: one label per lock it takes. Message contents are abstracted to what
an answer section shows: the upstream's own records, a rule's addresses, vetted hints, an
injected record, nothing. Outcomes the rest of the program decides (does the upstream answer,
has it `ech=`, were hints found, is the public key at hand, is the domain hosted on Cloudflare)
are free choices, per query. `Refresh` is `fetchCloudConfigTXT`, one lock at a time: a table the
TXT record does not carry is skipped, a table it carries without one valid rule empties the
rules. `Reclassify` flips the verdict of `shouldForceCF`, whoever did it. `WarmUp` is
`processResponse` and its write into the cache.

Time is a clock of coarse ticks. An entry is served for `ResponseTTL` ticks, and `Tick` does
not pass while a handler would exceed `MaxService`; the code bounds its exchanges and probes by
timeouts. `lastRule`, `lastV6` and `lastForced` are history: when a value was last in force.
`Tick` forgets what nothing can refer to any more.

Left abstract: the text syntax of rules, and which of several matching suffix rules wins (Go's
map order decides; `override[n]` is the rule that matches `n`).

### Lifecycle

Threads of the application call `Start` and `Stop`; `mu` is held through `Start`, so it is one
action, except where it locks `mu` again (line 241) and stays there with the lock. `Stop`
detaches under `mu` and closes afterwards. Servers are numbered; the serving goroutine of each
binds its port, fails, accepts, fails later or is closed, and reports (`ServeReports`) under
`mu`, without looking whether its server is still `srv`.

### Verdicts

A prober misses (`Miss`), handshakes and writes memory (`Probe`), saves unless a save was made
within the second (`SaveThrottled`), and notes for the cloud (`Note`): three locks in turn.
`Load` overwrites memory by what the file still has to say; `SavePool` is the save after a
successful pool round. The loop pushes (`PushTake`, `Push`) and pulls (`PullSend`, `PullFetch`,
`PullMerge`, `PullSave`); each start of the server pulls too, beside the loop. `OtherDevice`
writes the shared table. `Crash` ends the process, in the middle of a write if one is due.
`DiskFails` lets reads and writes fail: a write may leave the old file or an unreadable one, and a
read that fails (`ReadFails`), of an intact file too, leaves memory as it is with the path known, so
the next save writes over a file nobody has read. `unread` is history and says when that may
happen: it is true from the start of the process until a read returns or memory is written. The
clock counts whole seconds, which is what the file and the table keep; the clocks of all devices agree.

### Classification

A handler reads the remote list under `cloudMu` (`AskCloud`) and the cache under `probeMu`
afterwards (`AskKnown`, `AskUnknown`). A probe writes its verdict and saves in one critical section
(`Verdict`) and unmarks the name in another, deferred one (`Leave`). What `probeDomain` does in
between ends with a yes or a no, a free choice: no network, no key and a wrong certificate are all
a no. `LoadProbeCache` replaces the map; a read or a write may fail as in `Verdicts`, with the same
`unread`. The remote list goes through versions the operator publishes. A fetcher is a goroutine in `fetchCloudConfigTXT`, of a loop or of the admin page: it asks (`Fetch`),
gets a version or nothing (`FetchAnswered`, `FetchFails`) and applies it under `cloudMu`
(`Apply`). `StopCloudConfig` clears the flag and no loop notices, as in the code.

### LockOrder and PackageLocks

`LockOrder` knows nothing of the package: an operation is a sequence of steps that lock or unlock
a mutex or read or write a variable, and any number of goroutines run any operations.
`Disciplined` says what a script has to keep: a mutex locked under others lies deeper than they do
(or is one of them: a goroutine that locks what it holds), only held mutexes are unlocked, a
variable is touched under its guard, nothing stays locked at the end; all of it up to the first
relock, which no goroutine passes.

`PackageLocks` writes the package's operations down in that form, a call inside a critical section
in place and a call outside one as an operation of its own. Branches that touch the same variables
are one script; a branch that does not is left to the script that does more, except the failing
certificate of `Start`. `Protects` lists what is declared beside each mutex. `Unguarded` names the
variables that have no mutex or are touched outside it: those are races the code does have, and
`RaceFree` makes no claim about them.

### Resolver and Dialer

One host. A result is an object: the cache and any number of callers point to it, and `ensureECH`
writes into it without a lock (`FillKey`). Addresses are Cloudflare's or others', keys have names
and ages. `Lookup` reads the cache, reads the override or queries, and stores later
(`LookupStore`), by whatever configuration it began with; `found.current` remembers whether that
one is still in force. The three queries and their endpoints are one answer, with `dohURLs` read at
its time; the outer name that goes with a key is left out.

A dial completes the result (`ensureECH`: a key from the file, or else, when it has none or cannot
be read (`FetchMiss`), from `cloudflare-ech.com` or the host, or the built-in one, for results with
a Cloudflare address), goes through the candidates
(`NextCandidate`), may be answered with a newer key (`Rejected`, `RetryConnects`, `RetrySink`) and
may end in the plain round. The candidates are a fixed number of addresses; one attempt stands for
utls and, on the same address, crypto/tls. `RejectionSeen` is whether the error of a rejection is
of the type `DialECH` looks for, which depends on the libraries' versions; the run takes the case
with more behaviour, and the theorems hold for both.

## 3. Runs

All passing runs check deadlock freedom too, except `lifecycle`, where a `Start` stuck on its own
lock, or an application that has stopped for good, really is the end, and `locks`, where goroutines
that lock what they hold stop everything; `HangIsRelock` says there that nothing else does.

| Run | Instance | Shows |
|---|---|---|
| `hints_flight` | 3 callers, 1 domain, official addresses only, 1 expiry | one prober; every waiter has a live owner; no probing while an answer is live (a nil answer too); a live answer is never replaced; every call returns; the oracle is implemented, progress included |
| `hints_answer` | 1 caller; 2 pool, 2 official, 2 subnet, 2 reachable addresses; max 2 | `FailClosed`, `FlightBounded`, `FlightOrder` and the oracle's idea of an answer over every pattern and order of verdicts |
| `doh_answers` | 2 handlers of A queries, one IPv4 rule, refresh, application, warm-up; TTL 2, 3 ticks, 2 changes | every answer follows from rules in force within the last `ResponseTTL + MaxService - 1` ticks; a domain forced for longer does not show its own addresses |
| `doh_records` | 1 handler of AAAA and HTTPS queries, IPv4 and IPv6 rules; TTL 1, 2 ticks | answers follow from the rules in these branches too, and every query gets exactly one answer in the end |
| `lifecycle` | 3 threads, 3 servers, good and bad certificates | `RunningHasServer`, `ClosedOnce`, `FailureSurfaces`, `StopReleases` |
| `verdicts` | 1 prober, 2 pulls, other devices, 1 key, 2 different outcomes, 2 ticks, failing reads and writes, 1 crash | `GenuineVerdicts`, `NewerWins`; `FileKeeps` for a file that has been read or written |
| `locks` | 2 goroutines, all 43 operations, 13 mutexes | the discipline, and what follows from it: only a relock hangs, no race for a guarded variable, every operation ends unless somebody has relocked |
| `dialer` | 2 callers, 3 result objects, 2 keys, 2 candidates, changes, rotations | `CleanAfterChange`, `ProtectedNeverPlain`, `PlainIsLast`, `ResultsKeepKeys` |
| `background` | 1 handler, 1 name, 2 probes, 2 fetchers, 2 versions of the list, failing reads and writes, 1 crash | `OneProbePerName`, `GenuineClasses`, `AskedIsClassified`, `LastListStays`; `FileKeepsNames` for a file that has been read or written |

Why the bounds are enough to be of interest. Three callers are the three handlers of one page
load, the least that has a prober, a waiter and a late comer who may register a second flight.
With two addresses per source and a maximum of two, each source can be empty, contribute,
fill the answer or find it full; the maximum of the code (6) only moves the same tests. Two
handlers are one that fills the cache late and one that is served from it; `doh_answers` lasts
longer than `Window`, so an answer that outlives its rule by one tick would be seen. In
`lifecycle` a third server is needed for the first one's report to hit the second and the
third to overwrite it. In `verdicts` two outcomes are a verdict and the one that contradicts it,
the file may be cut short and false verdicts expire before true ones; with more than one prober
of one key nothing new can happen between the locks but a reversal of the notes, which reaches
the pending set only. In `locks` two goroutines meet in every pair of operations; a cycle of three
is excluded by the theorem, whose premise the run checks for every script. In `dialer` two callers
are one that shares the other's result, and three objects are the cached one and one for each. In
`background` a second probe and a second fetcher are what a repeated mark and a restarted loop
need. The query type "OTHER" is in the model but asked in no run: it passes every branch unchanged,
and what it writes to the cache is never read from it.

Runs that find a disagreement:

| Run | Says | Happens |
|---|---|---|
| `doh_refresh` | `cloudconfig.go` 167: an override change invalidates the response cache | a handler that matched the old rule stores its answer after the clear |
| `life_stop` | `echdoh.go` 282: `Stop` closes the server | the late report of an old server clears `running` of the new one; the next `Start` overwrites `srv`; the overwritten server listens on |
| `locks_admin` | `admin.go` 2: opened in the browser it is the console | `handleAdmin` locks `cloudMu` and calls two helpers that lock it again; the page never comes, and `cloudMu` stays locked |

Seen while reading, carried by no run of its own; where a model has the behaviour, it is named:

* `forcedHintCache` has no `poolFirst` in its key, so a forced domain may get a pool-first answer,
  against `echdoh.go` 1008-1009 (`ForcedHints`); such an answer may hold max + 1 addresses, line 995
  says at most max (`FlightBounded` states what the code keeps).
* With no public key at hand a forced HTTPS answer keeps the upstream's records, against
  `echdoh.go` 1301-1303 (`DohServer`).
* A bad certificate makes `Start` lock `mu` twice (`echdoh.go` 241); `LastError` (302) never tells
  (`Lifecycle`, `PackageLocks`).
* The throttle skips saves and nobody makes up for it, against `echdoh.go` 845 and 689-691
  (`Verdicts`).
* A read of an intact file that fails leaves memory empty and the path known, so the next save
  writes over all the file held: `echdoh.go` 711-715 against 689-691, `probe.go` 38-42 against 2
  (`Verdicts`, `Classification`). `FileKeeps` and `FileKeepsNames` leave that one write out.
* `StopCloudConfig` stops nothing, against `cloudconfig.go` 61 (`Classification`).
* `DialECH` looks for an error of utls where `dialTLS` returns one of crypto/tls, against
  `resolver.go` 559-560; a rejected key stays in the memory of the resolver, against `dialer.go`
  187; hosts with a Cloudflare override are dialled with ECH, against `resolver.go` 98-100; a lookup
  under way stores after `SetOverrides` has cleared, against 100-101 (`Resolver`, `Dialer`).
* `upstream`, `echKeyCache` and `overrideMap` are read outside the mutex they are written under
  (`echdoh.go` 1518 and 1569, `warmup.go` 22, `admin.go` 198; `Unguarded` of `PackageLocks`).
* `SetOverride` splits at commas, so of a rule with several addresses (`echdoh.go` 46) the first
  remains. `probeDomain` says no to a handshake that succeeded by crypto/tls (`probe.go` 188).
  `preferred.go` 59 varies the third octet where 37 speaks of different /16. `handleAdminRefresh`
  reports a refreshed seed and drops it (`admin.go` 184). `resolver.go` 6 says twelve hours, 481 five.
* A cached answer goes out with the id of the query it was made for (`echdoh.go` 354, against
  `handler_test.go` 102-103). `processResponse` says it has the logic of `handleDoH` (`warmup.go`
  46) but lacks the branch of an IPv6 rule on its own, which is why `ReplyExplained` exempts AAAA
  entries of the warm-up. `cloudPushPending` builds statements in another form than `tursoExec`
  does for every other request; a push that fails has already emptied the pending set.

## 4. Fairness

* `ForcedHints`: weak fairness of each caller's own steps. A goroutine is scheduled, and every
  probe or lookup it waits for ends by a timeout (3 s handshakes and the like) with some
  verdict. Calls, expiries, merges and stray probes are not fair.
* `DohServer`: weak fairness of each handler after it has received its query, for the same
  reason. Nothing is assumed of the application, the refresh or the warm-up.
* `Lifecycle`: `StopClose` and the serving goroutines run; nobody has to call anything, and an
  accept error need not occur. The runs for safety need none of it.
* `HintOracle`: weak fairness of `Serve`, nobody is left asking while something can be done. It is
  implemented under the fairness of `ForcedHints` above: a round ends because its prober runs.
* `LockOrder`: strong fairness of each goroutine's step. A mutex is free again and again while
  others come and go, and Go's mutex hands itself to a waiter that has been passed over for a
  millisecond (starvation mode). Nobody has to begin anything.
* `Classification`: weak fairness of a probe's verdict and unmarking (everything it waits for has
  a timeout), of the timer of a loop and of `Apply`; strong fairness of `FetchAnswered`: of ever
  new queries one succeeds. Crashes, restarts and publications are bounded, not fair.
* `Verdicts`, `Dialer`: no fairness; their properties are about safety.

## 5. What is proved

TLAPS proves, for all values of the constants that satisfy the named assumptions of the modules:

| Theorem | Module | States |
|---|---|---|
| `TypeCorrect` | `ForcedHintsProofs` | `Spec => []TypeOK` |
| `OneProber` | `ForcedHintsProofs` | `Spec => []SingleFlight` |
| `NoLostWakeup` | `ForcedHintsProofs` | `Spec => []WaitersHaveOwner` |
| `NoRedundantProbe` | `ForcedHintsProofs` | `Spec => []NoProbeWhileFresh` |
| `AnswersAreStable` | `ForcedHintsProofs` | `Spec => FreshEntryStable` |
| `AnswersArePassed` | `ForcedHintsProofs` | `Spec => []FailClosed` |
| `AnswersAreBounded` | `ForcedHintsProofs` | `Spec => []FlightBounded` |
| `AnswersKeepOrder` | `ForcedHintsProofs` | `Spec => []FlightOrder` |
| `HintsKeepPromise` | `HintRefinementProofs` | `Spec => ImplementsOracleSafely`, which is `Oracle!Spec` |
| `CallersGetProperAnswers` | `HintRefinementProofs` | `Spec => []AnswersProper` |
| `TypeCorrect` | `DohServerProofs` | `Spec => []TypeOK` |
| `RepliesExplained` | `DohServerProofs` | `Spec => []ReplyExplained` |
| `ForcedStaysClosed` | `DohServerProofs` | `Spec => []ForcedClosed` |
| `EachAnsweredOnce` | `DohServerProofs` | `Spec => []AnsweredOnce` |
| `WrittenSinceArrival` | `DohServerProofs` | `Spec => []SinceArrival` |
| `CacheExplained` | `DohServerProofs` | `Spec => []CacheGood` |
| `NoRaces` | `LockOrderProofs` | `Disciplined` implies `Spec => []RaceFree` |
| `HangsAreRelocks` | `LockOrderProofs` | `Disciplined` implies `Spec => []HangIsRelock` |
| `DisciplineReached` | `LockOrderProofs` | `Disciplined` implies `Spec => []InDiscipline` |
| `OwnersUnlock` | `LockOrderProofs` | `Disciplined` implies `Spec => []UnlocksOwn` |
| `DialTypeCorrect` | `DialerProofs` | `Spec => []TypeOK` |
| `NoDowngrade` | `DialerProofs` | `Spec => []ProtectedNeverPlain` |
| `PlainComesLast` | `DialerProofs` | `Spec => []PlainIsLast` |
| `SharedResultsKeepKeys` | `DialerProofs` | `Spec => ResultsKeepKeys` |
| `CacheCleanAfterChange` | `DialerProofs` | `Spec => []CleanAfterChange` |
| `ClassesTypeCorrect` | `ClassificationProofs` | `Spec => []TypeOK` |
| `OneProbe` | `ClassificationProofs` | `Spec => []OneProbePerName` |
| `VerdictsAreGenuine` | `ClassificationProofs` | `Spec => []GenuineClasses` |
| `NamesAreKept` | `ClassificationProofs` | `Spec => FileKeepsNames` |
| `LifecycleTypeCorrect` | `LifecycleProofs` | `Spec => []TypeOK` |
| `RunningIsTrue` | `LifecycleProofs` | `Spec => []RunningHasServer` |
| `OneClose` | `LifecycleProofs` | `Spec => []ClosedOnce` |
| `StopsUnlessReported` | `LifecycleProofs` | `Spec => [](Unreported => StopCloses)` |
| `VerdictsTypeCorrect` | `VerdictsProofs` | `Spec => []TypeOK` |
| `VerdictsTravelUnchanged` | `VerdictsProofs` | `Spec => []GenuineVerdicts` |
| `FileNeverAhead` | `VerdictsProofs` | `Spec => []KeepInv` |
| `MemoryKeepsNewer` | `VerdictsProofs` | `Spec => NewerWins` |
| `FileKeepsLive` | `VerdictsProofs` | `Spec => FileKeeps` |

The arguments.

*Hints.* The assumptions are that `NoCaller` is not a caller, that pool, reachable pool, official
answers and subnets consist of addresses, that the maximum is positive. `SingleFlight` alone is not
inductive: when a flight is unmapped, nothing says that the entry was that caller's, or that an
entry belongs to somebody who will ever remove it. `FlightInv` adds the converse, `Registered`: a
registered flight has an owner that is probing *that* domain. With it, `Register` finds no other
owner because the table holds `NoCaller`, `Unmap` removes the caller's own entry, and `Join` waits
for an owner. `NoProbeWhileFresh` then follows because only a registered caller publishes, so no
other flight of the domain can be under way when an entry becomes live, and `Hit` stands before
`Register`. The ten or so collecting and merging actions neither leave `Flying` nor touch the
tables; the lemma `CollectIsQuiet` says so once and `QuietKeepsFlightInv` preserves the invariant
for all of them. `FreshEntryStable` follows since only `Publish` replaces an entry, from `Flying`,
where `NoProbeWhileFresh` says that there is no live one.

*Answers.* A flight is its caller's alone, so the invariant `AnswerInv` speaks of one caller at a
time, as a predicate on the values of its flight, and the lemmas about the actions are about those
values. `Merging` says that the answer is a beginning of the list being merged and the rest is still
to come or does not fit, from which `PoolLeads` and `OfficialLeads` follow when the list ends. `Room`
is the bound: a list is merged where there is room for one more; the exceptions are the official
stage of a poolFirst flight, which may begin with a full list (hence max + 1), and the second
merging of its pool, where a full list already has the first of the pool. `OnItsWay` says that what
has passed lies in some list that is merged or will be, so an empty answer means that nothing has.

*Refinement.* `InitImage` and one lemma per visible action, named for its image (`CallImage` is
`Ask`, `HitImage` `Tell`, `RegisterImage` `Begin`, `PublishImage` `Conclude` and so on), say that the
mapped variables take the oracle's step; `HiddenImage` says that waiting, unmapping and waking change
none of them. They use `FlightInv` (the conductor of a round is who the table names), the answer's
theorems (`Conclude` asks for a justified list) and `Untested`: a flight that begins has proven
nothing, which is what lets `Begin` start with an empty round. `CallersGetProperAnswers` carries the
bound from the flight to whoever is told: `Publish` puts a bounded answer into the cache, `Hit` reads
nothing else, and no other step touches either.

*Handler.* Which rules an answer follows from is hard to say while they change: the handler reads
them under one lock after another, and the warm-up reads them in another order again. The invariant
`IInv` therefore keeps one time for every answer, on its way, in the cache or delivered, and says that
the answer is `Due` to values each of which was in force at that time or later (`Past(n, t)`, read
off the history of when a value was last in force). For a handler and a warm-up it is the arrival of the query,
`Readings` saying at each label what has been found so far: no rule, not forced, an answer due. For
an entry it is some time at most `MaxService` before it was stored (`EntryGood`), as a handler
stores within `MaxService` of its arrival. For a delivered answer it is at most `Window` ago
(`Current`): an entry is served for less than `ResponseTTL` ticks, and `Window` is `ResponseTTL +
MaxService - 1`. A change of the rules takes nothing away from any `Past(n, t)` (`Grows`), because the value
that leaves is recorded with the present time; hence everybody who was under way stays explained.
Time is the hard step. `Tick` forgets times older than `Window`, which no invariant needs any more, and
the bound on service keeps arrivals recent, so what is due stays due. `RepliesExplained` and
`ForcedStaysClosed` then follow for a delivered answer, since what was in force at most `Window` ago
is what `Recent` collects, and no branch explains a forced domain's own addresses. The other three
say directly what the invariant has: one response per handler, the answer about to be written, the
entry as stored. The candidate was checked by TLC first, on the instances of `doh_answers`
(2.1 million states) and `doh_records` (0.9 million).

*Locks.* The inductive invariant ties owners to scripts: a goroutine owns exactly what `HeldAt`
says of its place (`OwnersHold`), and no goroutine is past a relock (`NobodyRelocked`). A race would
put one guard in two hands. For the hang, `WaitsDeeper`: who waits for a mutex waits for one
deeper than any it holds. Of goroutines that block each other take the one that waits for the
deepest mutex (depths are natural numbers, so there is one): its owner waits too, for a deeper one
still, unless it waits for itself (`NoCycle`). The premise `Disciplined` is about
scripts alone, the theorems about any number of goroutines; `InDiscipline` of run `locks` evaluates
the premise at every step of every script of the package that a goroutine reaches, and
`DisciplineReached` says that running the scripts together asks nothing more of them. `OwnersUnlock` is
what the discipline gives `Unlock`: never a mutex that is free or somebody else's.

*Dialer.* `Holding` (a caller past its lookup holds an object) and `Good(c)`, what its place says of
the kind of its result, its key and the candidates refused, are inductive with the types. The hard
case is a step of another caller that writes into the shared object: `HeldStep` says that such a
step changes neither the addresses of a held object nor takes its key, whence `OtherGood` and
`ResultsKeepKeys`. `ProtectedNeverPlain` rests on `FetchECHConfig` never ending without a key, which
is what the built-in one is for. For `CleanAfterChange`, `Clean`: unless the last change met a
lookup on its way, every lookup on its way began after it. The claim about the cache is not
inductive without it, as a lookup decides with its first step what its last one will store.

*Classification.* For `OneProbePerName`, `OneJob`: a probe is testing or leaving, not both, so the
mark a `Leave` removes is nobody else's. For `FileKeepsNames`, `Covered`: memory has every name of a
file that has been read or written, as loading replaces memory, every write is a copy of it, and
nothing but a load takes a name out. That the path is known would not do, since a read may fail;
hence `unread`.

*Lifecycle.* `InUse`: a server that is current or being closed was created, so an unused one that
`Start` takes is neither, and is not closed already. `StopsUnlessReported` is the part of the refuted
`StopCloses` that does hold. Its `StopInv` accounts for every server that may hold the port: it is
current, or in the hands of a `Stop`. `Start` would break that by overwriting `srv`, which
it does where `running` is not set; without a report that means that `srv` is empty.

*Verdicts.* `JobsGenuine`: what a prober carries through the save to the note was probed.
`AllGenuine` is the claim in the form the steps use, entry by entry, for memory, pending set, batch,
cloud, fetched rows and file. `KeepInv` adds that nobody has probed in the future (`ProbedPast`), so a
fresh verdict is the latest, and that memory has whatever a file that has been read or written
would still load, or something later (`FileInMem`). A load that reads brings memory up to the file, a
save that writes makes the file a copy of memory, and in between memory only gains; a failed read
or write changes neither memory nor `unread`. `NewerWins` exempts a load and a crash, as the code
does; `FileKeeps` exempts neither, only what the process has neither read nor written.

Every invariant and every action property of a passing run is the subject of a theorem. Only
model-checked are the liveness properties, which the prover cannot reach (nor `ENABLED`, on which
fairness rests): `CallsReturn`, `QueryAnswered`, `FailureSurfaces`, `StopReleases`,
`OperationsEnd`, `AskedIsClassified`, `LastListStays`, and the progress in `ImplementsOracle`; freedom from
deadlock in the runs that check it; and that the 43 scripts of the package keep the discipline, a
finite evaluation. The safety half of `QueryAnswered` is `EachAnsweredOnce`, that of `CallsReturn`
`NoLostWakeup`, that of `OperationsEnd` `HangsAreRelocks`. The modules declare no recursive operator, so
all of them can be proved about.

Assumptions on the constants say no more than what they are: sets of names, rules and addresses,
markers that are not among them (`NoRule`, `None`, `NoCaller` and the like), a life of at least one
tick for a cached response, bounds that are numbers.

## 6. Not modelled

* The rendering of the admin page, seed upstreams and the certificate download: read-only or a
  single assignment. Their locks are in `PackageLocks`.
* The scan of reachable addresses and the preferred addresses: random samples and measurements,
  put into one variable or one file. `ForcedHints` takes the reachable addresses as a constant.
* Byte-level functions (request signing, decryption, PEM, DNS packing, rule syntax).
* What a data race does. `RaceFree` says which variables have none and `Unguarded` which do; the
  other modules read and write each variable atomically.
* A panic in `processResponse` on an upstream message without a question.
* `FetchTxt` and the wire parsing of the resolver, its other hosts, and `SetCustomIPs` while a dial
  is under way.
* The address ranges and the certificate utilities: pure functions.

## 7. What could follow

* `ScanPool`: the scan, its file and the exchange of scanned addresses, with the reachable pool of
  `ForcedHints` as a variable.
* `Classification` in the place of `Reclassify` in `DohServer`, one specification of both.
