------------------------------ MODULE PackageLocks ------------------------------
(***************************************************************************)
(* The mutexes of the package echdoh: what each operation locks, and which *)
(* shared variables it touches, in the order of the code.                  *)
(*                                                                         *)
(* A call is written out where it is made under a lock; calls made with no *)
(* lock held are operations of their own, for a goroutine may be anywhere  *)
(* between them.  Branches that touch the same variables are one script.   *)
(***************************************************************************)
EXTENDS Sequences

Section(l, body) == <<<<"lock", l>>>> \o body \o <<<<"unlock", l>>>>
Read(v) == <<<<"read", v>>>>
Write(v) == <<<<"write", v>>>>

slog == Section("logBufMu", Write("logBuf"))
PollLogs == Section("logBufMu", Read("logBuf") \o Write("logPos"))

\* The override tables and the response cache.
SetOverride == Section("overrideMu", Write("overrideMap") \o slog)
SetOverrideV6 == Section("overrideV6Mu", Write("overrideV6Map") \o slog)
matchOverride == Section("overrideMu", Read("overrideMap"))
matchOverrideV6 == Section("overrideV6Mu", Read("overrideV6Map"))
respCacheGet == Section("respCacheMu", Read("respCache"))
respCachePut == Section("respCacheMu", Write("respCache"))
respCacheClear == respCachePut \o slog

\* The server.  The second Start is the one whose certificate does not parse.
StartHead == Read("running") \o Write("upstream") \o slog
Start == Section("mu", StartHead \o Write("srv") \o Write("running") \o Write("lastErr"))
StartNoCert == Section("mu", StartHead \o Section("mu", Write("lastErr")))
SeedArrives == Section("mu", Write("upstream")) \o slog
ServeReports == Section("mu", Write("lastErr") \o Write("running"))
Stop == Section("mu", Read("srv") \o Write("srv") \o Write("running"))
IsRunning == Section("mu", Read("running"))
LastError == Section("mu", Read("lastErr"))
handleDoH == Write("queryCount")
queryUpstream == Section("mu", Read("upstream")) \o Write("lastUpstreamErr")

\* The cloud configuration.
StartCloudConfig == Section("cloudMu", Read("cloudRunning") \o Write("cloudRunning"))
StopCloudConfig == Section("cloudMu", Write("cloudRunning"))
fetchCloudConfigTXT == Section("cloudMu", Write("cloudCfg") \o Write("cloudExtra"))
cloudForceCF == Section("cloudMu", Read("cloudCfg"))
cloudPoolIPs == Section("cloudMu", Read("cloudExtra"))
cloudOverridesStr == Section("cloudMu", Read("overrideMap"))
warmUpCache == Section("cloudMu", Read("overrideMap"))

\* The verdicts, their file and the cloud cache.
LoadEchTestCache == Section("echTestMu", Write("echTestPath") \o Write("echTestCache") \o slog)
SaveEchTestCache == Section("echTestMu", Read("echTestPath") \o Read("echTestCache") \o slog)
saveEchTestCacheThrottled ==
    Section("saveThrottleMu", Read("lastSaveTs") \o Write("lastSaveTs") \o SaveEchTestCache)
\* A change that saves before it unlocks, and one that reads the entry back
\* after it.
echHandshakeOKSavesInside ==
    Section("echTestMu", Read("echTestCache"))
        \o Section("echTestMu", Write("echTestCache") \o saveEchTestCacheThrottled)
echHandshakeOKReadsLate ==
    Section("echTestMu", Read("echTestCache"))
        \o Section("echTestMu", Write("echTestCache")) \o Read("echTestCache")
echHandshakeOK ==
    Section("echTestMu", Read("echTestCache")) \o Section("echTestMu", Write("echTestCache"))
SetCloudCache == Section("ccMu", Write("cloudToken") \o Write("cloudStarted"))
cloudEnabled == Section("ccMu", Read("cloudToken"))
\* A change that forgets the unlock of the early return.
cloudPushPendingReturns == <<<<"lock", "ccMu">>>> \o Read("cloudPending")
cloudPushPending == Section("ccMu", Read("cloudPending") \o Write("cloudPending") \o Read("cloudToken"))
cloudNote == Section("ccMu", Write("cloudPending"))
cloudPull ==
    Section("ccMu", Read("cloudToken"))
        \o Section("echTestMu", Read("echTestCache") \o Write("echTestCache")) \o slog

\* Hints, the public key and the scan.
forcedHintIPsOpt ==
    Section("forcedHintMu", Read("forcedHintCache") \o Write("forcedHintFlight"))
        \o Section("forcedHintMu", Write("forcedHintCache")) \o slog
        \o Section("forcedHintMu", Write("forcedHintFlight"))
fetchCFPublicECH ==
    Section("echKeyMu", Read("echKeyCache")) \o Read("echKeyCache")
        \o Section("echKeyMu", Write("echKeyCache"))
StartScanCFIPs == Section("reachableMu", Write("reachableIPs")) \o Read("scanCachePath")
SetScanCachePath == Write("scanCachePath")
fetchDohEndpointIPv4s == cloudPoolIPs \o Section("reachableMu", Read("reachableIPs")) \o Read("upstream")

\* The classification of names.
LoadProbeCache == Section("probeMu", Write("probePath") \o Write("probeCache") \o slog)
SaveProbeCache == Section("probeMu", Read("probePath") \o Read("probeCache") \o slog)
ProbeCacheLen == Section("probeMu", Read("probeCache"))
shouldForceCF == Section("probeMu", Read("probeCache") \o Write("probeProbe"))
probeDomain ==
    Section("probeMu", Write("probeCache") \o Read("probePath") \o slog)
        \o Section("probeMu", Write("probeProbe"))

\* The admin pages.
handleAdmin ==
    Section("mu", Read("lastUpstreamErr") \o Read("queryCount"))
        \o Section("cloudMu", cloudPoolIPs \o cloudOverridesStr \o Read("cloudCfg"))
        \o PollLogs
handleAdminStatus ==
    Section("mu", Read("upstream") \o Read("queryCount") \o ProbeCacheLen)
        \o Section("cloudMu", Read("cloudCfg") \o cloudPoolIPs \o cloudOverridesStr)
        \o Read("lastUpstreamErr")

PackageScript == [
    PollLogs |-> PollLogs, SetOverride |-> SetOverride, SetOverrideV6 |-> SetOverrideV6,
    matchOverride |-> matchOverride, matchOverrideV6 |-> matchOverrideV6,
    respCacheGet |-> respCacheGet, respCachePut |-> respCachePut,
    respCacheClear |-> respCacheClear,
    Start |-> Start, StartNoCert |-> StartNoCert, SeedArrives |-> SeedArrives,
    ServeReports |-> ServeReports, Stop |-> Stop, IsRunning |-> IsRunning,
    LastError |-> LastError, handleDoH |-> handleDoH, queryUpstream |-> queryUpstream,
    StartCloudConfig |-> StartCloudConfig, StopCloudConfig |-> StopCloudConfig,
    fetchCloudConfigTXT |-> fetchCloudConfigTXT, cloudForceCF |-> cloudForceCF,
    cloudPoolIPs |-> cloudPoolIPs, warmUpCache |-> warmUpCache,
    LoadEchTestCache |-> LoadEchTestCache, SaveEchTestCache |-> SaveEchTestCache,
    saveEchTestCacheThrottled |-> saveEchTestCacheThrottled,
    echHandshakeOK |-> echHandshakeOK, SetCloudCache |-> SetCloudCache,
    cloudEnabled |-> cloudEnabled, cloudPushPending |-> cloudPushPending,
    cloudNote |-> cloudNote, cloudPull |-> cloudPull,
    forcedHintIPsOpt |-> forcedHintIPsOpt, fetchCFPublicECH |-> fetchCFPublicECH,
    StartScanCFIPs |-> StartScanCFIPs, SetScanCachePath |-> SetScanCachePath,
    fetchDohEndpointIPv4s |-> fetchDohEndpointIPv4s,
    LoadProbeCache |-> LoadProbeCache, SaveProbeCache |-> SaveProbeCache,
    shouldForceCF |-> shouldForceCF, probeDomain |-> probeDomain,
    handleAdmin |-> handleAdmin, handleAdminStatus |-> handleAdminStatus]

Touched(kinds) ==
    UNION {{s[i][2] : i \in {j \in DOMAIN s : s[j][1] \in kinds}} :
           s \in {PackageScript[o] : o \in DOMAIN PackageScript}}

PackageMutexes == Touched({"lock", "unlock"})
PackageVariables == Touched({"read", "write"})

\* What each mutex is there for: the variables declared beside it.
Protects == [
    mu |-> {"running", "srv", "lastErr"},
    logBufMu |-> {"logBuf", "logPos"},
    overrideMu |-> {},
    overrideV6Mu |-> {"overrideV6Map"},
    respCacheMu |-> {"respCache"},
    cloudMu |-> {"cloudCfg", "cloudExtra", "cloudRunning"},
    echTestMu |-> {"echTestCache", "echTestPath"},
    saveThrottleMu |-> {"lastSaveTs"},
    ccMu |-> {"cloudToken", "cloudStarted", "cloudPending"},
    forcedHintMu |-> {"forcedHintCache", "forcedHintFlight"},
    echKeyMu |-> {},
    reachableMu |-> {"reachableIPs"},
    probeMu |-> {"probeCache", "probeProbe", "probePath"}]

\* Variables that some operation touches without the mutex others touch them
\* under, or that have none: warmUpCache and cloudOverridesStr read
\* overrideMap under cloudMu, fetchDohEndpointIPv4s reads upstream bare,
\* fetchCFPublicECH returns echKeyCache after the unlock.
Unguarded == {"overrideMap", "upstream", "echKeyCache", "lastUpstreamErr",
              "queryCount", "scanCachePath"}

\* mu is held around probeMu, saveThrottleMu around echTestMu, and any around
\* logBufMu.
PackageDepth ==
    [l \in PackageMutexes |-> CASE l = "logBufMu" -> 0
                                [] l \in {"echTestMu", "probeMu"} -> 1
                                [] OTHER -> 2]

=============================================================================
