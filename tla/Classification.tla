------------------------------ MODULE Classification ------------------------------
(***************************************************************************)
(* Which domains are forced onto Cloudflare: shouldForceCF with its probe  *)
(* goroutines and their cache (probe.go), and the remote list with the     *)
(* loops that refresh it (cloudconfig.go).                                 *)
(*                                                                         *)
(* A handler reads the remote list under cloudMu and then the cache under  *)
(* probeMu.  A probe ends with either verdict: an upstream, the public key *)
(* or the edge being away is a negative one.  The TXT record goes through  *)
(* the versions 1 to MaxVersion, Listed[v] is the list in version v, and 0 *)
(* stands for none.  The file is the map it holds, or Unreadable (absent,  *)
(* cut short).                                                             *)
(***************************************************************************)
EXTENDS Naturals

CONSTANTS
    Handlers,
    Names,              \* domains that are not in forceCFRoots
    NoName,
    Probes,             \* goroutines in probeDomain
    Fetchers,           \* goroutines in fetchCloudConfigTXT
    Listed,
    Unknown,            \* the name is not in the map
    Unreadable,
    MaxVersion,
    DiskFails,          \* a read or a write may fail
    MaxCrashes

ASSUME NameAssumption == NoName \notin Names
ASSUME VersionAssumption ==
    /\ MaxVersion \in Nat \ {0}
    /\ Listed \in [0 .. MaxVersion -> SUBSET Names]
    /\ Listed[0] = {}
ASSUME UnknownAssumption == Unknown \notin BOOLEAN
ASSUME UnreadableAssumption == Unreadable \notin [Names -> BOOLEAN \cup {Unknown}]
ASSUME FaultAssumption == DiskFails \in BOOLEAN /\ MaxCrashes \in Nat

VARIABLES
    asking,             \* the name a handler is about to look up in the cache
    probeCache,
    probeProbe,         \* names being tested
    probePath,          \* the path of the file is known
    testing,            \* the name a probe is testing
    leaving,            \* the name it has yet to take out of probeProbe
    file,
    unread,             \* history: the file may hold what this process has neither
                        \* read nor written
    published,          \* version of the TXT record
    cloudCfg,           \* version whose list is in force
    cloudRunning,
    loops,              \* fetchers in the loop of StartCloudConfig
    fetching,           \* fetchers whose query is on its way
    got,                \* the version a fetcher is about to apply
    said,               \* history: verdicts of probes, and of the file at first
    crashes

probeVars == <<asking, probeCache, probeProbe, probePath, testing, leaving, file, unread, said>>
cloudVars == <<cloudCfg, cloudRunning, loops, fetching, got>>
vars == <<probeVars, published, cloudVars, crashes>>

Map == [Names -> BOOLEAN \cup {Unknown}]
Empty == [n \in Names |-> Unknown]
Nothing == MaxVersion + 1

TypeOK ==
    /\ asking \in [Handlers -> Names \cup {NoName}]
    /\ probeCache \in Map
    /\ probeProbe \subseteq Names
    /\ probePath \in BOOLEAN
    /\ testing \in [Probes -> Names \cup {NoName}]
    /\ leaving \in [Probes -> Names \cup {NoName}]
    /\ file \in Map \cup {Unreadable}
    /\ unread \in BOOLEAN
    /\ published \in 1 .. MaxVersion
    /\ cloudCfg \in 0 .. MaxVersion
    /\ cloudRunning \in BOOLEAN
    /\ loops \subseteq Fetchers
    /\ fetching \subseteq Fetchers
    /\ got \in [Fetchers -> 0 .. Nothing]
    /\ said \subseteq Names \X BOOLEAN
    /\ crashes \in 0 .. MaxCrashes

Verdicts(map) == {e \in Names \X BOOLEAN : map[e[1]] = e[2]}

Init ==
    /\ asking = [h \in Handlers |-> NoName]
    /\ probeCache = Empty
    /\ probeProbe = {}
    /\ probePath = FALSE
    /\ testing = [p \in Probes |-> NoName]
    /\ leaving = [p \in Probes |-> NoName]
    /\ file \in Map \cup {Unreadable}
    /\ unread = TRUE
    /\ published = 1
    /\ cloudCfg = 0
    /\ cloudRunning = FALSE
    /\ loops = {}
    /\ fetching = {}
    /\ got = [f \in Fetchers |-> Nothing]
    /\ said = IF file = Unreadable THEN {} ELSE Verdicts(file)
    /\ crashes = 0

-----------------------------------------------------------------------------
(* shouldForceCF.                                                          *)

\* The remote list does not have the name; if it has, the answer is yes.
AskCloud(h, n) ==
    /\ asking[h] = NoName
    /\ n \notin Listed[cloudCfg]
    /\ asking' = [asking EXCEPT ![h] = n]
    /\ UNCHANGED <<probeCache, probeProbe, probePath, testing, leaving, file, unread, said, published, cloudVars, crashes>>

Answered(h) == asking' = [asking EXCEPT ![h] = NoName]

\* The cache has it, or somebody is testing it.
AskKnown(h) ==
    /\ asking[h] # NoName
    /\ probeCache[asking[h]] # Unknown \/ asking[h] \in probeProbe
    /\ Answered(h)
    /\ UNCHANGED <<probeCache, probeProbe, probePath, testing, leaving, file, unread, said, published, cloudVars, crashes>>

\* Mutant: the test of probeProbe is left out.
AskUnknownAgain(h) ==
    /\ asking[h] # NoName
    /\ probeCache[asking[h]] = Unknown
    /\ probeProbe' = probeProbe \cup {asking[h]}
    /\ \E p \in Probes :
          /\ testing[p] = NoName /\ leaving[p] = NoName
          /\ testing' = [testing EXCEPT ![p] = asking[h]]
    /\ Answered(h)
    /\ UNCHANGED <<probeCache, probePath, leaving, file, unread, said, published, cloudVars, crashes>>

AskUnknown(h) ==
    /\ asking[h] # NoName
    /\ probeCache[asking[h]] = Unknown /\ asking[h] \notin probeProbe
    /\ probeProbe' = probeProbe \cup {asking[h]}
    /\ \E p \in Probes :
          /\ testing[p] = NoName /\ leaving[p] = NoName
          /\ testing' = [testing EXCEPT ![p] = asking[h]]
    /\ Answered(h)
    /\ UNCHANGED <<probeCache, probePath, leaving, file, unread, said, published, cloudVars, crashes>>

-----------------------------------------------------------------------------
(* probeDomain, LoadProbeCache, SaveProbeCache.                            *)

Saved(map) ==
    \/ ~ probePath /\ UNCHANGED <<file, unread>>
    \/ /\ probePath
       /\ file' \in {map} \cup (IF DiskFails THEN {file, Unreadable} ELSE {})
       /\ unread' = (unread /\ file' # map)

Verdict(p) ==
    /\ testing[p] # NoName
    /\ \E v \in BOOLEAN :
          /\ probeCache' = [probeCache EXCEPT ![testing[p]] = v]
          /\ said' = said \cup {<<testing[p], v>>}
    /\ Saved(probeCache')
    /\ leaving' = [leaving EXCEPT ![p] = testing[p]]
    /\ testing' = [testing EXCEPT ![p] = NoName]
    /\ UNCHANGED <<asking, probeProbe, probePath, published, cloudVars, crashes>>

\* Mutant: the mark is left behind.
LeaveMarked(p) ==
    /\ leaving[p] # NoName
    /\ leaving' = [leaving EXCEPT ![p] = NoName]
    /\ UNCHANGED <<asking, probeCache, probeProbe, probePath, testing, file, unread, said, published, cloudVars, crashes>>

\* The deferred function.
Leave(p) ==
    /\ leaving[p] # NoName
    /\ probeProbe' = probeProbe \ {leaving[p]}
    /\ leaving' = [leaving EXCEPT ![p] = NoName]
    /\ UNCHANGED <<asking, probeCache, probePath, testing, file, unread, said, published, cloudVars, crashes>>

ReadFails == DiskFails /\ UNCHANGED <<probeCache, unread>>

\* Mutant: a name the file does not have gets a negative verdict.
LoadProbeCacheFilled ==
    /\ probePath' = TRUE
    /\ \/ /\ probeCache' = IF file = Unreadable THEN probeCache
                            ELSE [n \in Names |-> IF file[n] = Unknown THEN FALSE ELSE file[n]]
          /\ unread' = FALSE
       \/ ReadFails
    /\ UNCHANGED <<asking, probeProbe, testing, leaving, file, said, published, cloudVars, crashes>>

\* Mutant: negative verdicts are not taken over.
LoadProbeCacheYes ==
    /\ probePath' = TRUE
    /\ \/ /\ probeCache' = IF file = Unreadable THEN probeCache
                            ELSE [n \in Names |-> IF file[n] = FALSE THEN Unknown ELSE file[n]]
          /\ unread' = FALSE
       \/ ReadFails
    /\ UNCHANGED <<asking, probeProbe, testing, leaving, file, said, published, cloudVars, crashes>>

\* The map in memory is replaced by the file's, not joined with it.  A read that
\* fails, of whatever file, leaves the map as it is; the path is known all the same.
LoadProbeCache ==
    /\ probePath' = TRUE
    /\ \/ /\ probeCache' = IF file = Unreadable THEN probeCache ELSE file
          /\ unread' = FALSE
       \/ ReadFails
    /\ UNCHANGED <<asking, probeProbe, testing, leaving, file, said, published, cloudVars, crashes>>

SaveProbeCache ==
    /\ probePath
    /\ Saved(probeCache)
    /\ UNCHANGED <<asking, probeCache, probeProbe, probePath, testing, leaving, said, published, cloudVars, crashes>>

-----------------------------------------------------------------------------
(* StartCloudConfig, StopCloudConfig, fetchCloudConfigTXT.                 *)

Free(f) == f \notin loops /\ f \notin fetching /\ got[f] = Nothing

\* The first fetch comes before the loop, in the same goroutine or its child.
StartCloudConfig(f) ==
    /\ Free(f)
    /\ ~ cloudRunning
    /\ cloudRunning' = TRUE
    /\ loops' = loops \cup {f}
    /\ fetching' = fetching \cup {f}
    /\ UNCHANGED <<probeVars, published, cloudCfg, got, crashes>>

\* Only the flag: no loop reads it.
StopCloudConfig ==
    /\ cloudRunning
    /\ cloudRunning' = FALSE
    /\ UNCHANGED <<probeVars, published, cloudCfg, loops, fetching, got, crashes>>

\* handleAdminRefresh, or the next round of a loop.
Fetch(f) ==
    /\ f \notin fetching /\ got[f] = Nothing
    /\ fetching' = fetching \cup {f}
    /\ UNCHANGED <<probeVars, published, cloudCfg, cloudRunning, loops, got, crashes>>

FetchAnswered(f) ==
    /\ f \in fetching
    /\ fetching' = fetching \ {f}
    /\ got' = [got EXCEPT ![f] = published]
    /\ UNCHANGED <<probeVars, published, cloudCfg, cloudRunning, loops, crashes>>

\* Mutant: a failure ends the loop.
FetchFailsEnds(f) ==
    /\ f \in fetching
    /\ fetching' = fetching \ {f}
    /\ loops' = loops \ {f}
    /\ UNCHANGED <<probeVars, published, cloudCfg, cloudRunning, got, crashes>>

\* An error, or no fields: everything stays as it is.
FetchFails(f) ==
    /\ f \in fetching
    /\ fetching' = fetching \ {f}
    /\ UNCHANGED <<probeVars, published, cloudCfg, cloudRunning, loops, got, crashes>>

\* Mutant: without an answer.
ApplyNothing(f) ==
    /\ f \in loops
    /\ cloudCfg' = got[f]
    /\ got' = [got EXCEPT ![f] = Nothing]
    /\ UNCHANGED <<probeVars, published, cloudRunning, loops, fetching, crashes>>

\* The list is replaced, by the empty one too.
Apply(f) ==
    /\ got[f] # Nothing
    /\ cloudCfg' = got[f]
    /\ got' = [got EXCEPT ![f] = Nothing]
    /\ UNCHANGED <<probeVars, published, cloudRunning, loops, fetching, crashes>>

Publish ==
    /\ published < MaxVersion
    /\ published' = published + 1
    /\ UNCHANGED <<probeVars, cloudVars, crashes>>

-----------------------------------------------------------------------------
\* The process ends, perhaps in the middle of a write, and starts again.
Crash ==
    /\ crashes < MaxCrashes
    /\ crashes' = crashes + 1
    /\ asking' = [h \in Handlers |-> NoName]
    /\ probeCache' = Empty
    /\ probeProbe' = {}
    /\ probePath' = FALSE
    /\ unread' = TRUE
    /\ testing' = [p \in Probes |-> NoName]
    /\ leaving' = [p \in Probes |-> NoName]
    /\ file' \in {file} \cup (IF probePath THEN {Unreadable} ELSE {})
    /\ cloudCfg' = 0
    /\ cloudRunning' = FALSE
    /\ loops' = {}
    /\ fetching' = {}
    /\ got' = [f \in Fetchers |-> Nothing]
    /\ UNCHANGED <<said, published>>

Next ==
    \/ \E h \in Handlers : (\E n \in Names : AskCloud(h, n)) \/ AskKnown(h) \/ AskUnknown(h)
    \/ \E p \in Probes : Verdict(p) \/ Leave(p)
    \/ LoadProbeCache \/ SaveProbeCache
    \/ \E f \in Fetchers : StartCloudConfig(f) \/ Fetch(f) \/ FetchAnswered(f) \/ FetchFails(f) \/ Apply(f)
    \/ StopCloudConfig \/ Publish \/ Crash

Spec == Init /\ [][Next]_vars

\* Goroutines run, and whatever they wait for has a timeout; the timer of a
\* loop goes off, and its query succeeds now and then.
FairSpec ==
    /\ Spec
    /\ \A p \in Probes : WF_vars(Verdict(p)) /\ WF_vars(Leave(p))
    /\ \A f \in Fetchers :
          /\ WF_vars(f \in loops /\ Fetch(f))
          /\ SF_vars(FetchAnswered(f))
          /\ WF_vars(Apply(f))

-----------------------------------------------------------------------------
(* Properties.                                                             *)

\* A name is tested by one goroutine at a time, and marked for as long as
\* one is there and no longer: a mark left behind would keep the name from
\* ever being tested.
OneProbePerName ==
    /\ \A n \in Names :
          n \in probeProbe <=> \E p \in Probes : testing[p] = n \/ leaving[p] = n
    /\ \A p, q \in Probes : \A n \in Names :
          n \in {testing[p], leaving[p]} /\ n \in {testing[q], leaving[q]} => p = q

\* Whatever was loaded, saved, half written or forgotten: a verdict is what a
\* probe of that name has said ("缓存记录 → 按记录").
GenuineClasses ==
    /\ Verdicts(probeCache) \subseteq said
    /\ file # Unreadable => Verdicts(file) \subseteq said

\* The file forgets no name: once it has been read, or written, the map that is
\* written over it has them all, whichever reads and writes fail (the results are
\* kept, "下次直接查").  A file whose read has failed is left out until the first
\* write over it: the path is known then, and the names it held are lost.
FileKeepsNames ==
    [][\A n \in Names :
          (~ unread /\ file # Unreadable /\ file' # Unreadable) =>
              (file[n] # Unknown => file'[n] # Unknown)]_vars

Asks(n) == \E h \in Handlers : asking[h] = n /\ (AskKnown(h) \/ AskUnknown(h))

\* A name that is asked for again and again is classified again and again,
\* whatever is loaded in between.
AskedIsClassified ==
    \A n \in Names :
        []<> <<Asks(n)>>_vars => []<> (probeCache[n] # Unknown)

\* Failures, two loops and an operator's refresh notwithstanding, what the TXT
\* record says last is what is in force ("定时刷新，失败保留旧配置").
LastListStays == <>[](cloudRunning => cloudCfg = published)
=============================================================================
