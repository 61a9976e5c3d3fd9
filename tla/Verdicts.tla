-------------------------------- MODULE Verdicts --------------------------------
(***************************************************************************)
(* The life of a handshake verdict outside the flight that probed it:      *)
(* echTestCache in memory, its file, the set pending for the cloud and the *)
(* shared table in the cloud (echdoh/echdoh.go, echdoh/cloudcache.go).     *)
(*                                                                         *)
(* Probers write memory, then the file at most once a second, then the     *)
(* pending set, under three locks in turn.  A loop pushes what is pending  *)
(* and pulls what other devices have found; each start of the server pulls *)
(* once more, beside the loop.  The process may end at any moment, in the  *)
(* middle of writing the file too; memory and pending are gone then, and   *)
(* the application loads the file again once the server is up.             *)
(*                                                                         *)
(* The clock counts whole seconds, what the file and the cloud keep of a   *)
(* time; lives of a day and an hour are scaled down.  All devices' clocks  *)
(* agree.                                                                  *)
(***************************************************************************)
EXTENDS Naturals, FiniteSets

CONSTANTS
    Probers,        \* goroutines in echHandshakeOK
    Keys,           \* "host|ip" keys of the caches
    None,           \* no verdict
    Torn,           \* the content of a file whose writing was cut short
    DiskFails,      \* whether os.ReadFile and os.WriteFile may return an error
    TrueTTL,        \* life of a true verdict in ticks (24 h)
    FalseTTL,       \* life of a false verdict in ticks (1 h)
    PullWindow,     \* age of what a pull asks for in ticks (25 h)
    MaxTicks,       \* bound: ticks of a behaviour
    MaxProbes,      \* bound: different outcomes of handshakes, on all devices
    MaxCrashes      \* bound: ends of the process

ASSUME KeyAssumption == Keys # {}
ASSUME BoundAssumption == MaxTicks \in Nat /\ MaxProbes \in Nat /\ MaxCrashes \in Nat
ASSUME DiskAssumption == DiskFails \in BOOLEAN
ASSUME LifeAssumption == TrueTTL \in Nat /\ FalseTTL \in Nat /\ PullWindow \in Nat

VARIABLES
    pc, job,        \* where each prober is, its key and its verdict
    mem,            \* echTestCache
    path,           \* echTestPath is set: LoadEchTestCache was called
    recent,         \* lastSaveTs is less than a second ago
    file,           \* the content of echtest-cache.json
    unread,         \* history: the file may hold what this process has neither
                    \* read nor written
    pending,        \* cloudPending
    enabled,        \* SetCloudCache has set a URL and a token
    batch,          \* what cloudPushPending is sending, Nothing when it is not
    pull, rows,     \* where each cloudPull is, what it has been answered
    cloud,          \* the table ech_probe
    clock, crashes,
    probed          \* history: every outcome of a handshake

proberVars == <<pc, job>>
diskVars   == <<path, recent, file, unread>>
cloudVars  == <<pending, enabled, batch, pull, rows, cloud>>
vars == <<proberVars, mem, diskVars, cloudVars, clock, crashes, probed>>

\* cloudSyncLoop calls one cloudPull, a start of the server the other.
Pullers == {"loop", "start"}

Verdict  == [ok : BOOLEAN, ts : 0 .. MaxTicks]
ASSUME NoneAssumption == None \notin Verdict

Nothing  == [k \in Keys |-> None]
Table    == [Keys -> Verdict \cup {None}]
Known(t) == {k \in Keys : t[k] # None}

Life(e) == IF e.ok THEN TrueTTL ELSE FalseTTL
Age(e)  == clock - e.ts

TypeOK ==
    /\ pc \in [Probers -> {"idle", "probe", "save", "note"}]
    /\ job \in [Probers -> [key : Keys, verdict : Verdict]]
    /\ mem \in Table
    /\ path \in BOOLEAN /\ recent \in BOOLEAN /\ enabled \in BOOLEAN
    /\ unread \in BOOLEAN
    /\ file \in Table \cup {Torn}
    /\ pending \in Table /\ batch \in Table /\ cloud \in Table
    /\ pull \in [Pullers -> {"off", "idle", "push", "fetch", "query", "merge", "save"}]
    /\ rows \in [Pullers -> Table]
    /\ clock \in 0 .. MaxTicks
    /\ crashes \in 0 .. MaxCrashes
    /\ probed \in SUBSET (Keys \X Verdict)

NoJob == [p \in Probers |-> [key |-> CHOOSE k \in Keys : TRUE,
                             verdict |-> [ok |-> FALSE, ts |-> 0]]]
NoPull == [u \in Pullers |-> IF u = "loop" THEN "off" ELSE "idle"]

\* The first start: no file yet, nothing in the cloud.
Init ==
    /\ pc = [p \in Probers |-> "idle"] /\ job = NoJob
    /\ mem = Nothing /\ file = Nothing
    /\ path = FALSE /\ recent = FALSE /\ unread = TRUE
    /\ enabled = FALSE /\ pending = Nothing /\ batch = Nothing
    /\ pull = NoPull /\ rows = [u \in Pullers |-> Nothing]
    /\ cloud = Nothing
    /\ clock = 0 /\ crashes = 0
    /\ probed = {}

-----------------------------------------------------------------------------
(* The file.                                                               *)

\* SaveEchTestCache: the whole of memory, in place of what was there.  A write
\* that fails may leave the old file or the beginning of the new one.
Save ==
    \/ ~ path /\ UNCHANGED <<file, unread>>
    \/ /\ path
       /\ file' \in {mem} \cup (IF DiskFails THEN {file, Torn} ELSE {})
       /\ unread' = (unread /\ file' # mem)

\* LoadEchTestCache: what has outlived its life is dropped, the rest overwrites
\* what memory holds.  A file that cannot be parsed changes nothing, nor does a read
\* that fails, of whatever file; the path is known from then on all the same.
Loadable(k) == file[k] # None /\ Age(file[k]) <= Life(file[k])

ReadFails == DiskFails /\ UNCHANGED <<mem, unread>>

\* Mutant: the error of the parser is overlooked.
LoadTorn ==
    /\ path' = TRUE
    /\ \/ /\ mem' = IF file = Torn THEN [k \in Keys |-> Torn]
                     ELSE [k \in Keys |-> IF Loadable(k) THEN file[k] ELSE mem[k]]
          /\ unread' = FALSE
       \/ ReadFails
    /\ UNCHANGED <<proberVars, recent, file, cloudVars, clock, crashes, probed>>

\* Mutant: the older code, which loaded true verdicts only.
LoadTrue ==
    /\ path' = TRUE
    /\ \/ /\ mem' = IF file = Torn THEN mem
                     ELSE [k \in Keys |-> IF Loadable(k) /\ file[k].ok THEN file[k] ELSE mem[k]]
          /\ unread' = FALSE
       \/ ReadFails
    /\ UNCHANGED <<proberVars, recent, file, cloudVars, clock, crashes, probed>>

\* Mutant: loaded verdicts count from the time of loading.
LoadStamped ==
    /\ path' = TRUE
    /\ \/ /\ mem' = IF file = Torn THEN mem
                     ELSE [k \in Keys |-> IF Loadable(k) THEN [file[k] EXCEPT !.ts = clock]
                                          ELSE mem[k]]
          /\ unread' = FALSE
       \/ ReadFails
    /\ UNCHANGED <<proberVars, recent, file, cloudVars, clock, crashes, probed>>

\* The application loads when it has started the server, each time it does.
Load ==
    /\ path' = TRUE
    /\ \/ /\ mem' = IF file = Torn THEN mem
                     ELSE [k \in Keys |-> IF Loadable(k) THEN file[k] ELSE mem[k]]
          /\ unread' = FALSE
       \/ ReadFails
    /\ UNCHANGED <<proberVars, recent, file, cloudVars, clock, crashes, probed>>

\* forcedHintIPsOpt saves without a throttle after a successful pool round.
SavePool ==
    /\ Save
    /\ UNCHANGED <<proberVars, mem, path, recent, cloudVars, clock, crashes, probed>>

-----------------------------------------------------------------------------
(* A prober.  The handshake itself lies between Miss and Probe.            *)

Outcome(k, e) ==
    /\ probed' = probed \cup {<<k, e>>}
    /\ Cardinality(probed') <= MaxProbes

Unknown == {k \in Keys : mem[k] = None \/ Age(mem[k]) >= Life(mem[k])}

Miss(p) ==
    /\ pc[p] = "idle"
    /\ \E k \in Unknown : job' = [job EXCEPT ![p].key = k]
    /\ pc' = [pc EXCEPT ![p] = "probe"]
    /\ UNCHANGED <<mem, diskVars, cloudVars, clock, crashes, probed>>

Probe(p) ==
    /\ pc[p] = "probe"
    /\ \E ok \in BOOLEAN :
         LET k == job[p].key
             e == [ok |-> ok, ts |-> clock]
         IN  /\ mem' = [mem EXCEPT ![k] = e]
             /\ job' = [job EXCEPT ![p].verdict = e]
             /\ Outcome(k, e)
    /\ pc' = [pc EXCEPT ![p] = "save"]
    /\ UNCHANGED <<diskVars, cloudVars, clock, crashes>>

\* saveEchTestCacheThrottled: a second save within the second is skipped, and
\* nobody makes up for it.
SaveThrottled(p) ==
    /\ pc[p] = "save"
    /\ \/ recent /\ UNCHANGED <<file, unread>>
       \/ ~ recent /\ Save
    /\ recent' = TRUE
    /\ pc' = [pc EXCEPT ![p] = "note"]
    /\ UNCHANGED <<job, mem, path, cloudVars, clock, crashes, probed>>

Note(p) ==
    /\ pc[p] = "note"
    /\ pending' = [pending EXCEPT ![job[p].key] = job[p].verdict]
    /\ pc' = [pc EXCEPT ![p] = "idle"]
    /\ job' = [job EXCEPT ![p] = NoJob[p]]
    /\ UNCHANGED <<mem, diskVars, enabled, batch, pull, rows, cloud, clock, crashes,
                   probed>>

\* The second of the throttle is over.
SecondPasses ==
    /\ recent
    /\ recent' = FALSE
    /\ UNCHANGED <<proberVars, mem, path, file, unread, cloudVars, clock, crashes, probed>>

-----------------------------------------------------------------------------
(* The cloud.                                                              *)

\* The first call that enables it starts the loop; an empty URL disables it.
SetCloudCache ==
    /\ enabled' = ~ enabled
    /\ pull' = [pull EXCEPT !["loop"] = IF @ = "off" THEN "idle" ELSE @]
    /\ UNCHANGED <<proberVars, mem, diskVars, pending, batch, rows, cloud, clock,
                   crashes, probed>>

\* cloudPushPending takes all that is pending before it knows of any success; a
\* request without a URL has failed already.
PushTake ==
    /\ pull["loop"] = "idle"
    /\ pending' = Nothing
    /\ \E sent \in BOOLEAN :
         /\ sent <=> enabled /\ Known(pending) # {}
         /\ batch' = IF sent THEN pending ELSE Nothing
         /\ pull' = [pull EXCEPT !["loop"] = IF sent THEN "push" ELSE "fetch"]
    /\ UNCHANGED <<proberVars, mem, diskVars, enabled, rows, cloud, clock, crashes, probed>>

\* INSERT OR REPLACE, whichever row is there.
Replaced(table, new) == [k \in Keys |-> IF new[k] # None THEN new[k] ELSE table[k]]

\* A push that fails may have reached the table all the same; its batch is gone.
Push ==
    /\ pull["loop"] = "push"
    /\ cloud' \in {cloud, Replaced(cloud, batch)}
    /\ batch' = Nothing
    /\ pull' = [pull EXCEPT !["loop"] = "fetch"]
    /\ UNCHANGED <<proberVars, mem, diskVars, pending, enabled, rows, clock, crashes, probed>>

StartPull ==
    /\ pull["start"] = "idle"
    /\ pull' = [pull EXCEPT !["start"] = "fetch"]
    /\ UNCHANGED <<proberVars, mem, diskVars, pending, enabled, batch, rows, cloud,
                   clock, crashes, probed>>

\* A pull with the cloud enabled is sent, and stays on its way when it is disabled.
PullSend(u) ==
    /\ pull[u] = "fetch"
    /\ enabled
    /\ pull' = [pull EXCEPT ![u] = "query"]
    /\ UNCHANGED <<proberVars, mem, diskVars, pending, enabled, batch, rows, cloud,
                   clock, crashes, probed>>

\* The rows as the cloud holds them now; memory may change before they are used.
PullFetch(u) ==
    /\ pull[u] = "query"
    /\ rows' = [rows EXCEPT ![u] =
                  [k \in Keys |-> IF cloud[k] # None /\ Age(cloud[k]) < PullWindow
                                  THEN cloud[k] ELSE None]]
    /\ pull' = [pull EXCEPT ![u] = IF Known(rows'[u]) = {} THEN "idle" ELSE "merge"]
    /\ UNCHANGED <<proberVars, mem, diskVars, pending, enabled, batch, cloud, clock,
                   crashes, probed>>

\* Disabled, or no answer.
PullFails(u) ==
    /\ pull[u] = "query" \/ (pull[u] = "fetch" /\ ~ enabled)
    /\ pull' = [pull EXCEPT ![u] = "idle"]
    /\ UNCHANGED <<proberVars, mem, diskVars, pending, enabled, batch, rows, cloud,
                   clock, crashes, probed>>

Newer(u) == {k \in Known(rows[u]) : mem[k] = None \/ rows[u][k].ts > mem[k].ts}

\* Mutant: what the cloud holds is taken, whatever its time.
PullMergeAll(u) ==
    /\ pull[u] = "merge"
    /\ mem' = Replaced(mem, rows[u])
    /\ rows' = [rows EXCEPT ![u] = Nothing]
    /\ pull' = [pull EXCEPT ![u] = "save"]
    /\ UNCHANGED <<proberVars, diskVars, pending, enabled, batch, cloud, clock,
                   crashes, probed>>

PullMerge(u) ==
    /\ pull[u] = "merge"
    /\ mem' = [k \in Keys |-> IF k \in Newer(u) THEN rows[u][k] ELSE mem[k]]
    /\ rows' = [rows EXCEPT ![u] = Nothing]
    /\ pull' = [pull EXCEPT ![u] = IF Newer(u) = {} THEN "idle" ELSE "save"]
    /\ UNCHANGED <<proberVars, diskVars, pending, enabled, batch, cloud, clock,
                   crashes, probed>>

PullSave(u) ==
    /\ pull[u] = "save"
    /\ Save
    /\ pull' = [pull EXCEPT ![u] = "idle"]
    /\ UNCHANGED <<proberVars, mem, path, recent, pending, enabled, batch, rows, cloud,
                   clock, crashes, probed>>

\* Another device has pushed what it found, now or a while ago.
OtherDevice(k) ==
    /\ \E e \in Verdict :
         /\ e.ts <= clock
         /\ cloud' = [cloud EXCEPT ![k] = e]
         /\ Outcome(k, e)
    /\ UNCHANGED <<proberVars, mem, diskVars, pending, enabled, batch, pull, rows,
                   clock, crashes>>

-----------------------------------------------------------------------------
(* Time, and the end of the process.                                       *)

Tick ==
    /\ clock < MaxTicks
    /\ clock' = clock + 1
    /\ UNCHANGED <<proberVars, mem, diskVars, cloudVars, crashes, probed>>

\* Everything but the file is gone.  os.WriteFile empties the file before it fills it.
Saving ==
    /\ path
    /\ \/ \E u \in Pullers : pull[u] = "save"
       \/ \E p \in Probers : pc[p] = "save" /\ ~ recent

Crash ==
    /\ crashes < MaxCrashes
    /\ crashes' = crashes + 1
    /\ file' \in {file} \cup (IF Saving THEN {Torn} ELSE {})
    /\ pc' = [p \in Probers |-> "idle"] /\ job' = NoJob
    /\ mem' = Nothing
    /\ path' = FALSE /\ recent' = FALSE /\ unread' = TRUE
    /\ enabled' = FALSE /\ pending' = Nothing /\ batch' = Nothing
    /\ pull' = NoPull /\ rows' = [u \in Pullers |-> Nothing]
    /\ UNCHANGED <<cloud, clock, probed>>

Next ==
    \/ \E p \in Probers : Miss(p) \/ Probe(p) \/ SaveThrottled(p) \/ Note(p)
    \/ Load \/ SavePool \/ SecondPasses
    \/ SetCloudCache \/ PushTake \/ Push \/ StartPull
    \/ \E u \in Pullers :
         PullSend(u) \/ PullFetch(u) \/ PullFails(u) \/ PullMerge(u) \/ PullSave(u)
    \/ \E k \in Keys : OtherDevice(k)
    \/ Tick \/ Crash

Spec == Init /\ [][Next]_vars

-----------------------------------------------------------------------------
(* Correctness.                                                            *)

Entries(t) == {<<k, t[k]>> : k \in Known(t)}

\* Wherever a verdict travels, through the file, the cloud and back, it is one a
\* handshake gave for that key at that time: no path makes a verdict younger, turns
\* it round or takes it to another key.
GenuineVerdicts ==
    /\ \A t \in {mem, pending, batch, cloud} \cup {rows[u] : u \in Pullers} :
         Entries(t) \subseteq probed
    /\ file # Torn => Entries(file) \subseteq probed

\* Of two verdicts on a key memory keeps the later one, although pulled rows are
\* merged long after they were fetched and beside the probers.  Only loading the
\* file, which overwrites, and the end of the process take memory back.
NewerWins ==
    [][\A k \in Keys :
         mem[k] # None /\ ~ Load /\ ~ Crash => mem'[k] # None /\ mem'[k].ts >= mem[k].ts]_vars

\* What a file holds and a start would still load is in the next file, or something
\* later for the same key is: once it has been read, or written, a file never forgets
\* a live verdict by being rewritten, whatever the order of loading, probing, pulling
\* and saving, and whichever reads and writes fail.  A file whose read has failed is
\* left out until the first write over it: the path is known then, memory is not
\* filled, and what the file held is lost.
FileKeeps ==
    [][\A k \in Keys :
         ~ unread /\ file # Torn /\ file' # Torn /\ Loadable(k)
             => file'[k] # None /\ file'[k].ts >= file[k].ts]_vars
=============================================================================
