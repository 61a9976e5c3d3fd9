------------------------------ MODULE VerdictsProofs ------------------------------
(***************************************************************************)
(* Proofs about Verdicts: for any probers, keys, lives and bounds, every   *)
(* verdict in memory, in the file, pending, under way or in the cloud is   *)
(* one that some handshake gave for that key at that time.                 *)
(*                                                                         *)
(* The claim is not inductive by itself: a prober notes a verdict long     *)
(* after it found it, so JobsGenuine says that what it carries through the *)
(* save was probed.  Typing is needed for the steps that copy one entry.   *)
(*                                                                         *)
(* What memory and the file keep rests on KeepInv: nobody has probed in    *)
(* the future, so a new verdict is the latest; and memory is never behind  *)
(* a file that has been read or written, so a save takes nothing live      *)
(* away.  Reads may fail: that the path is known says nothing of memory,   *)
(* which is why the history variable unread is in FileInMem.               *)
(***************************************************************************)
EXTENDS Verdicts, TLAPS

USE KeyAssumption, BoundAssumption, DiskAssumption, LifeAssumption

\* Every entry of a table was probed; the form in which the steps use it.
Genuine(t) == \A k \in Keys : t[k] # None => <<k, t[k]>> \in probed

JobsGenuine ==
    \A p \in Probers : pc[p] \in {"save", "note"} => <<job[p].key, job[p].verdict>> \in probed

AllGenuine ==
    /\ Genuine(mem) /\ Genuine(pending) /\ Genuine(batch) /\ Genuine(cloud)
    /\ \A u \in Pullers : Genuine(rows[u])
    /\ file # Torn => Genuine(file)

IInv == TypeOK /\ JobsGenuine /\ AllGenuine

LEMMA NothingIsTable == Nothing \in Table /\ Genuine(Nothing)
  BY DEF Nothing, Table, Genuine

LEMMA NoJobType == NoJob \in [Probers -> [key : Keys, verdict : Verdict]]
<1>1. (CHOOSE k \in Keys : TRUE) \in Keys
  OBVIOUS
<1>2. 0 \in 0 .. MaxTicks
  OBVIOUS
<1> QED
  BY <1>1, <1>2 DEF NoJob, Verdict

LEMMA NoPullType == NoPull \in [Pullers -> {"off", "idle", "push", "fetch", "query", "merge", "save"}]
  BY DEF NoPull

\* What a write may leave is a table of the same verdicts, or torn.
LEMMA SaveKeeps ==
    ASSUME IInv, Save, Genuine(mem)
    PROVE  /\ file' \in Table \cup {Torn}
           /\ unread' \in BOOLEAN
           /\ file' # Torn => file' = mem \/ file' = file
  BY DEF IInv, TypeOK, Save

\* A table whose entries come from two tables of probed verdicts is one.
LEMMA ReplacedKeeps ==
    ASSUME NEW t \in Table, NEW n \in Table, Genuine(t), Genuine(n)
    PROVE  Replaced(t, n) \in Table /\ Genuine(Replaced(t, n))
  BY DEF Replaced, Table, Genuine

LEMMA InitIInv == Init => IInv
<1> SUFFICES ASSUME Init PROVE IInv
  OBVIOUS
<1>1. TypeOK
  <2>1. /\ pc \in [Probers -> {"idle", "probe", "save", "note"}]
        /\ rows \in [Pullers -> Table]
    BY NothingIsTable DEF Init
  <2>2. clock \in 0 .. MaxTicks /\ crashes \in 0 .. MaxCrashes
    BY DEF Init
  <2>3. /\ job \in [Probers -> [key : Keys, verdict : Verdict]]
        /\ pull \in [Pullers -> {"off", "idle", "push", "fetch", "query", "merge", "save"}]
    BY NoJobType, NoPullType, Zenon DEF Init
  <2>4. /\ mem \in Table /\ file \in Table \cup {Torn}
        /\ pending \in Table /\ batch \in Table /\ cloud \in Table
    BY NothingIsTable, Zenon DEF Init
  <2>5. probed \in SUBSET (Keys \X Verdict) /\ path \in BOOLEAN /\ recent \in BOOLEAN
        /\ enabled \in BOOLEAN /\ unread \in BOOLEAN
    BY DEF Init
  <2> QED
    BY <2>1, <2>2, <2>3, <2>4, <2>5 DEF TypeOK
<1>2. JobsGenuine
  BY DEF Init, JobsGenuine
<1>3. AllGenuine
  BY NothingIsTable DEF Init, AllGenuine
<1> QED
  BY <1>1, <1>2, <1>3 DEF IInv

-----------------------------------------------------------------------------
(* A prober.                                                               *)

\* An outcome is recorded, and nothing recorded is lost.
LEMMA OutcomeGrows ==
    ASSUME NEW k \in Keys, NEW e \in Verdict, probed \subseteq Keys \X Verdict, Outcome(k, e)
    PROVE  probed \subseteq probed' /\ <<k, e>> \in probed' /\ probed' \subseteq Keys \X Verdict
  BY DEF Outcome

LEMMA MissIInv ==
    ASSUME IInv, NEW p \in Probers, Miss(p)
    PROVE  IInv'
<1> USE DEF Miss, diskVars, cloudVars
<1>1. PICK k \in Unknown : job' = [job EXCEPT ![p].key = k]
  OBVIOUS
<1>2. k \in Keys
  BY <1>1 DEF Unknown
<1>3. TypeOK'
  BY <1>1, <1>2 DEF IInv, TypeOK
<1>4. JobsGenuine'
  BY <1>1 DEF IInv, TypeOK, JobsGenuine
<1>5. AllGenuine'
  BY DEF IInv, AllGenuine, Genuine
<1> QED
  BY <1>3, <1>4, <1>5 DEF IInv

LEMMA ProbeIInv ==
    ASSUME IInv, NEW p \in Probers, Probe(p)
    PROVE  IInv'
<1> DEFINE k == job[p].key
<1>1. PICK ok \in BOOLEAN :
         /\ mem' = [mem EXCEPT ![k] = [ok |-> ok, ts |-> clock]]
         /\ job' = [job EXCEPT ![p].verdict = [ok |-> ok, ts |-> clock]]
         /\ Outcome(k, [ok |-> ok, ts |-> clock])
  BY DEF Probe
<1> DEFINE e == [ok |-> ok, ts |-> clock]
<1>2. k \in Keys /\ e \in Verdict
  BY DEF IInv, TypeOK, Verdict
<1>3. probed \subseteq probed' /\ <<k, e>> \in probed' /\ probed' \subseteq Keys \X Verdict
  BY <1>1, <1>2, OutcomeGrows DEF IInv, TypeOK
<1>4. mem' \in Table /\ Genuine(mem)'
  <2>1. \A i \in Keys : mem'[i] = IF i = k THEN e ELSE mem[i]
    BY <1>1 DEF IInv, TypeOK, Table
  <2>2. mem' \in Table
    BY <1>1, <1>2 DEF IInv, TypeOK, Table
  <2> QED
    BY <2>1, <2>2, <1>3 DEF IInv, AllGenuine, Genuine
<1>5. job' \in [Probers -> [key : Keys, verdict : Verdict]]
  BY <1>1, <1>2 DEF IInv, TypeOK
<1>6. TypeOK'
  BY <1>3, <1>4, <1>5 DEF IInv, TypeOK, Probe, diskVars, cloudVars
<1>7. JobsGenuine'
  <2>1. job'[p].key = k /\ job'[p].verdict = e
    BY <1>1 DEF IInv, TypeOK
  <2>2. \A q \in Probers \ {p} : job'[q] = job[q] /\ pc'[q] = pc[q]
    BY <1>1 DEF IInv, TypeOK, Probe
  <2> QED
    BY <2>1, <2>2, <1>3 DEF IInv, JobsGenuine
<1>8. AllGenuine'
  BY <1>3, <1>4 DEF IInv, AllGenuine, Genuine, Probe, diskVars, cloudVars
<1> QED
  BY <1>6, <1>7, <1>8 DEF IInv

LEMMA SaveThrottledIInv ==
    ASSUME IInv, NEW p \in Probers, SaveThrottled(p)
    PROVE  IInv'
<1> USE DEF SaveThrottled, cloudVars
<1>1. /\ file' \in Table \cup {Torn} /\ unread' \in BOOLEAN
      /\ file' # Torn => file' = mem \/ file' = file
  BY SaveKeeps DEF IInv, AllGenuine, TypeOK
<1>2. TypeOK'
  BY <1>1 DEF IInv, TypeOK
<1>3. JobsGenuine'
  BY DEF IInv, TypeOK, JobsGenuine
<1>4. AllGenuine'
  BY <1>1 DEF IInv, AllGenuine, Genuine
<1> QED
  BY <1>2, <1>3, <1>4 DEF IInv

LEMMA NoteIInv ==
    ASSUME IInv, NEW p \in Probers, Note(p)
    PROVE  IInv'
<1> USE DEF Note, diskVars
<1> DEFINE k == job[p].key
<1>1. k \in Keys /\ job[p].verdict \in Verdict /\ <<k, job[p].verdict>> \in probed
  BY DEF IInv, TypeOK, JobsGenuine
<1>2. pending' \in Table /\ \A i \in Keys : pending'[i] = IF i = k THEN job[p].verdict ELSE pending[i]
  BY <1>1 DEF IInv, TypeOK, Table
<1>3. job' \in [Probers -> [key : Keys, verdict : Verdict]]
  BY NoJobType DEF IInv, TypeOK
<1>4. TypeOK'
  BY <1>2, <1>3 DEF IInv, TypeOK
<1>5. JobsGenuine'
  <2>1. \A q \in Probers \ {p} : job'[q] = job[q] /\ pc'[q] = pc[q]
    BY DEF IInv, TypeOK
  <2>2. pc'[p] = "idle"
    BY DEF IInv, TypeOK
  <2> QED
    BY <2>1, <2>2 DEF IInv, JobsGenuine
<1>6. AllGenuine'
  BY <1>1, <1>2 DEF IInv, AllGenuine, Genuine
<1> QED
  BY <1>4, <1>5, <1>6 DEF IInv

-----------------------------------------------------------------------------
(* The file.                                                               *)

LEMMA FileIInv ==
    ASSUME IInv, Load \/ SavePool \/ SecondPasses
    PROVE  IInv'
<1>1. CASE Load
  <2> USE <1>1 DEF Load, proberVars, cloudVars
  <2>1. mem' \in Table /\ Genuine(mem)' /\ unread' \in BOOLEAN
    <3>1. CASE ReadFails
      BY <3>1 DEF ReadFails, IInv, TypeOK, AllGenuine, Genuine
    <3>2. CASE file = Torn /\ mem' = mem /\ unread' = FALSE
      BY <3>2 DEF IInv, TypeOK, AllGenuine, Genuine
    <3>3. CASE /\ file # Torn /\ unread' = FALSE
               /\ mem' = [k \in Keys |-> IF Loadable(k) THEN file[k] ELSE mem[k]]
      BY <3>3 DEF IInv, TypeOK, AllGenuine, Genuine, Table
    <3> QED
      BY <3>1, <3>2, <3>3
  <2>2. TypeOK'
    BY <2>1 DEF IInv, TypeOK
  <2>3. JobsGenuine'
    BY DEF IInv, JobsGenuine
  <2>4. AllGenuine'
    BY <2>1 DEF IInv, AllGenuine, Genuine
  <2> QED
    BY <2>2, <2>3, <2>4 DEF IInv
<1>2. CASE SavePool
  <2> USE <1>2 DEF SavePool, proberVars, cloudVars
  <2>1. /\ file' \in Table \cup {Torn} /\ unread' \in BOOLEAN
        /\ file' # Torn => file' = mem \/ file' = file
    BY SaveKeeps DEF IInv, AllGenuine
  <2>2. TypeOK'
    BY <2>1 DEF IInv, TypeOK
  <2>3. JobsGenuine'
    BY DEF IInv, JobsGenuine
  <2>4. AllGenuine'
    BY <2>1 DEF IInv, AllGenuine, Genuine
  <2> QED
    BY <2>2, <2>3, <2>4 DEF IInv
<1>3. CASE SecondPasses
  <2> USE <1>3 DEF SecondPasses, proberVars, cloudVars
  <2>1. TypeOK'
    BY DEF IInv, TypeOK
  <2>2. JobsGenuine'
    BY DEF IInv, JobsGenuine
  <2>3. AllGenuine'
    BY DEF IInv, AllGenuine, Genuine
  <2> QED
    BY <2>1, <2>2, <2>3 DEF IInv
<1> QED
  BY <1>1, <1>2, <1>3

-----------------------------------------------------------------------------
(* The cloud.                                                              *)

\* What the cloud's steps leave alone keeps jobs and file as they were.
LEMMA JobsStay ==
    ASSUME IInv, UNCHANGED <<pc, job>>, probed \subseteq probed'
    PROVE  JobsGenuine'
  BY DEF IInv, JobsGenuine

LEMMA PushIInv ==
    ASSUME IInv, SetCloudCache \/ PushTake \/ Push \/ StartPull
    PROVE  IInv'
<1>1. CASE SetCloudCache
  <2> USE <1>1 DEF SetCloudCache, proberVars, diskVars
  <2>1. TypeOK'
    BY DEF IInv, TypeOK, Pullers
  <2>2. AllGenuine'
    BY DEF IInv, AllGenuine, Genuine
  <2> QED
    BY <2>1, <2>2, JobsStay DEF IInv
<1>2. CASE PushTake
  <2> USE <1>2 DEF PushTake, proberVars, diskVars
  <2>1. batch' = pending \/ batch' = Nothing
    OBVIOUS
  <2>2. batch' \in Table /\ Genuine(batch)' /\ pending' \in Table /\ Genuine(pending)'
    BY <2>1, NothingIsTable DEF IInv, TypeOK, AllGenuine, Genuine
  <2>3. TypeOK'
    BY <2>2 DEF IInv, TypeOK, Pullers
  <2>4. AllGenuine'
    BY <2>2 DEF IInv, AllGenuine, Genuine
  <2> QED
    BY <2>3, <2>4, JobsStay DEF IInv
<1>3. CASE Push
  <2> USE <1>3 DEF Push, proberVars, diskVars
  <2>1. Replaced(cloud, batch) \in Table /\ Genuine(Replaced(cloud, batch))
    BY ReplacedKeeps DEF IInv, TypeOK, AllGenuine
  <2>2. cloud' \in Table /\ Genuine(cloud)' /\ batch' \in Table /\ Genuine(batch)'
    BY <2>1, NothingIsTable DEF IInv, TypeOK, AllGenuine, Genuine
  <2>3. TypeOK'
    BY <2>2 DEF IInv, TypeOK, Pullers
  <2>4. AllGenuine'
    BY <2>2 DEF IInv, AllGenuine, Genuine
  <2> QED
    BY <2>3, <2>4, JobsStay DEF IInv
<1>4. CASE StartPull
  <2> USE <1>4 DEF StartPull, proberVars, diskVars
  <2>1. TypeOK'
    BY DEF IInv, TypeOK, Pullers
  <2>2. AllGenuine'
    BY DEF IInv, AllGenuine, Genuine
  <2> QED
    BY <2>1, <2>2, JobsStay DEF IInv
<1> QED
  BY <1>1, <1>2, <1>3, <1>4

LEMMA PullIInv ==
    ASSUME IInv, NEW u \in Pullers,
           PullSend(u) \/ PullFetch(u) \/ PullFails(u) \/ PullMerge(u) \/ PullSave(u)
    PROVE  IInv'
<1>1. CASE PullFetch(u)
  <2> USE <1>1 DEF PullFetch, proberVars, diskVars
  <2> DEFINE r == [k \in Keys |-> IF cloud[k] # None /\ Age(cloud[k]) < PullWindow
                                 THEN cloud[k] ELSE None]
  <2>1. rows' = [rows EXCEPT ![u] = r]
    OBVIOUS
  <2>2. r \in Table /\ Genuine(r)
    BY DEF IInv, TypeOK, AllGenuine, Genuine, Table
  <2> HIDE DEF r
  <2>3. \A v \in Pullers : rows'[v] = IF v = u THEN r ELSE rows[v]
    BY <2>1 DEF IInv, TypeOK
  <2>4. rows' \in [Pullers -> Table]
    BY <2>1, <2>2 DEF IInv, TypeOK
  <2>5. pull' \in [Pullers -> {"off", "idle", "push", "fetch", "query", "merge", "save"}]
    BY DEF IInv, TypeOK
  <2>6. TypeOK'
    BY <2>4, <2>5 DEF IInv, TypeOK
  <2>7. AllGenuine'
    BY <2>2, <2>3 DEF IInv, AllGenuine, Genuine
  <2> QED
    BY <2>6, <2>7, JobsStay DEF IInv
<1>2. CASE PullSend(u) \/ PullFails(u)
  <2> USE <1>2 DEF PullSend, PullFails, proberVars, diskVars
  <2>1. TypeOK'
    BY DEF IInv, TypeOK
  <2>2. AllGenuine'
    BY DEF IInv, AllGenuine, Genuine
  <2> QED
    BY <2>1, <2>2, JobsStay DEF IInv
<1>3. CASE PullMerge(u)
  <2> USE <1>3 DEF PullMerge, proberVars, diskVars
  <2>1. rows[u] \in Table /\ Genuine(rows[u])
    BY DEF IInv, TypeOK, AllGenuine
  <2>2. mem' \in Table /\ Genuine(mem)'
    BY <2>1 DEF IInv, TypeOK, AllGenuine, Genuine, Table, Newer, Known
  <2>3. \A v \in Pullers : rows'[v] = IF v = u THEN Nothing ELSE rows[v]
    BY DEF IInv, TypeOK
  <2>4. rows' \in [Pullers -> Table]
    BY NothingIsTable DEF IInv, TypeOK
  <2>5. pull' \in [Pullers -> {"off", "idle", "push", "fetch", "query", "merge", "save"}]
    BY DEF IInv, TypeOK
  <2>6. TypeOK'
    BY <2>2, <2>4, <2>5 DEF IInv, TypeOK
  <2>7. \A v \in Pullers : Genuine(rows[v])'
    BY <2>3, NothingIsTable DEF IInv, AllGenuine, Genuine
  <2>8. AllGenuine'
    BY <2>2, <2>7 DEF IInv, AllGenuine, Genuine
  <2> QED
    BY <2>6, <2>8, JobsStay DEF IInv
<1>4. CASE PullSave(u)
  <2> USE <1>4 DEF PullSave, proberVars
  <2>1. /\ file' \in Table \cup {Torn} /\ unread' \in BOOLEAN
        /\ file' # Torn => file' = mem \/ file' = file
    BY SaveKeeps DEF IInv, AllGenuine
  <2>2. TypeOK'
    BY <2>1 DEF IInv, TypeOK
  <2>3. AllGenuine'
    BY <2>1 DEF IInv, AllGenuine, Genuine
  <2> QED
    BY <2>2, <2>3, JobsStay DEF IInv
<1> QED
  BY <1>1, <1>2, <1>3, <1>4

LEMMA OtherDeviceIInv ==
    ASSUME IInv, NEW k \in Keys, OtherDevice(k)
    PROVE  IInv'
<1> USE DEF OtherDevice, proberVars, diskVars
<1>1. PICK e \in Verdict : cloud' = [cloud EXCEPT ![k] = e] /\ Outcome(k, e)
  OBVIOUS
<1>2. probed \subseteq probed' /\ <<k, e>> \in probed' /\ probed' \subseteq Keys \X Verdict
  BY <1>1, OutcomeGrows DEF IInv, TypeOK
<1>3. cloud' \in Table /\ \A i \in Keys : cloud'[i] = IF i = k THEN e ELSE cloud[i]
  BY <1>1 DEF IInv, TypeOK, Table
<1>4. TypeOK'
  BY <1>2, <1>3 DEF IInv, TypeOK
<1>5. AllGenuine'
  BY <1>2, <1>3 DEF IInv, AllGenuine, Genuine
<1> QED
  BY <1>2, <1>4, <1>5, JobsStay DEF IInv

-----------------------------------------------------------------------------
(* Time, and the end of the process.                                       *)

LEMMA TickIInv == ASSUME IInv, Tick PROVE IInv'
<1> USE DEF Tick, proberVars, diskVars, cloudVars
<1>1. TypeOK'
  BY DEF IInv, TypeOK
<1>2. AllGenuine'
  BY DEF IInv, AllGenuine, Genuine
<1> QED
  BY <1>1, <1>2, JobsStay DEF IInv

LEMMA CrashIInv == ASSUME IInv, Crash PROVE IInv'
<1> USE DEF Crash
<1>1. file' = file \/ file' = Torn
  OBVIOUS
<1>2. /\ pc' \in [Probers -> {"idle", "probe", "save", "note"}]
      /\ rows' \in [Pullers -> Table]
  BY NothingIsTable
<1>3. /\ job' \in [Probers -> [key : Keys, verdict : Verdict]]
      /\ pull' \in [Pullers -> {"off", "idle", "push", "fetch", "query", "merge", "save"}]
  BY NoJobType, NoPullType, Zenon
<1>4. mem' \in Table /\ pending' \in Table /\ batch' \in Table
  BY NothingIsTable, Zenon
<1>5. crashes' \in 0 .. MaxCrashes
  BY DEF IInv, TypeOK
<1>6. file' \in Table \cup {Torn}
  BY <1>1 DEF IInv, TypeOK
<1>7. path' \in BOOLEAN /\ recent' \in BOOLEAN /\ enabled' \in BOOLEAN /\ unread' \in BOOLEAN
  OBVIOUS
<1>8. TypeOK'
  BY <1>2, <1>3, <1>4, <1>5, <1>6, <1>7 DEF IInv, TypeOK
<1>9. JobsGenuine'
  BY DEF JobsGenuine
<1>10. Genuine(Nothing)'
  BY DEF Genuine, Nothing
<1>11. Genuine(mem)' /\ Genuine(pending)' /\ Genuine(batch)'
  BY <1>10 DEF Genuine
<1>12. \A u \in Pullers : Genuine(rows[u])'
  BY <1>10 DEF Genuine
<1>13. Genuine(cloud)' /\ (file' # Torn => Genuine(file)')
  BY <1>1 DEF IInv, AllGenuine, Genuine
<1> QED
  BY <1>8, <1>9, <1>11, <1>12, <1>13 DEF IInv, AllGenuine

\* The inductive invariant holds throughout.
THEOREM VerdictsInvariant == Spec => []IInv
<1>1. IInv /\ [Next]_vars => IInv'
  <2> SUFFICES ASSUME IInv, [Next]_vars PROVE IInv'
    OBVIOUS
  <2>1. CASE UNCHANGED vars
    <3> USE <2>1 DEF vars, proberVars, diskVars, cloudVars
    <3>1. TypeOK'
      BY DEF IInv, TypeOK
    <3>2. AllGenuine'
      BY DEF IInv, AllGenuine, Genuine
    <3> QED
      BY <3>1, <3>2, JobsStay DEF IInv
  <2>2. CASE Next
    BY <2>2, MissIInv, ProbeIInv, SaveThrottledIInv, NoteIInv, FileIInv, PushIInv,
       PullIInv, OtherDeviceIInv, TickIInv, CrashIInv DEF Next
  <2> QED
    BY <2>1, <2>2
<1> QED
  BY InitIInv, <1>1, PTL DEF Spec

\* Every table, timer and prober keeps its type, an unreadable file included.
THEOREM VerdictsTypeCorrect == Spec => []TypeOK
<1>1. IInv => TypeOK
  BY DEF IInv
<1> QED
  BY VerdictsInvariant, <1>1, PTL

\* No path through memory, file, pending set and cloud falsifies a verdict,
\* whatever crashes, failing writes and failing pushes come in between.
THEOREM VerdictsTravelUnchanged == Spec => []GenuineVerdicts
<1>1. IInv => GenuineVerdicts
  <2> SUFFICES ASSUME IInv PROVE GenuineVerdicts
    OBVIOUS
  <2>1. ASSUME NEW t, Genuine(t) PROVE Entries(t) \subseteq probed
    BY <2>1 DEF Entries, Known, Genuine
  <2>2. \A t \in {mem, pending, batch, cloud} \cup {rows[u] : u \in Pullers} : Genuine(t)
    BY DEF IInv, AllGenuine
  <2>3. file # Torn => Genuine(file)
    BY DEF IInv, AllGenuine
  <2> QED
    BY <2>1, <2>2, <2>3 DEF GenuineVerdicts
<1> QED
  BY VerdictsInvariant, <1>1, PTL
-----------------------------------------------------------------------------
(* What memory and the file keep.                                          *)

\* Nobody has probed in the future.
ProbedPast == \A x \in probed : x[2].ts <= clock

\* What the application has read, or a save has written, is in memory, or something
\* later is: a save never takes a live verdict from such a file.
FileInMem ==
    ~ unread /\ file # Torn =>
        \A k \in Keys : Loadable(k) => mem[k] # None /\ mem[k].ts >= file[k].ts

KeepInv == IInv /\ ProbedPast /\ FileInMem

\* Memory gives a verdict up for a later one only.
MemKeeps(k) == mem[k] # None => mem'[k] # None /\ mem'[k].ts >= mem[k].ts

LEMMA EntryTypes ==
    ASSUME IInv, NEW k \in Keys
    PROVE  /\ mem[k] # None => mem[k] \in Verdict /\ mem[k].ts \in Nat /\ <<k, mem[k]>> \in probed
           /\ file # Torn /\ file[k] # None =>
                file[k] \in Verdict /\ file[k].ts \in Nat /\ Life(file[k]) \in Nat
           /\ clock \in Nat /\ clock \in 0 .. MaxTicks
<1>1. mem \in Table /\ file \in Table \cup {Torn} /\ clock \in 0 .. MaxTicks /\ clock \in Nat
  BY DEF IInv, TypeOK
<1>2. mem[k] # None => mem[k] \in Verdict /\ <<k, mem[k]>> \in probed
  BY <1>1 DEF IInv, AllGenuine, Genuine, Table
<1>3. file # Torn /\ file[k] # None => file[k] \in Verdict
  BY <1>1 DEF Table
<1>4. \A e \in Verdict : e.ts \in Nat /\ e.ok \in BOOLEAN
  BY DEF Verdict
<1>5. \A e \in Verdict : Life(e) \in Nat
  BY <1>4 DEF Life
<1> QED
  BY <1>1, <1>2, <1>3, <1>4, <1>5

LEMMA ProbedStep ==
    ASSUME IInv, ProbedPast, [Next]_vars
    PROVE  ProbedPast' /\ clock' \in Nat /\ clock' >= clock
<1>1. clock \in Nat
  BY DEF IInv, TypeOK
<1>2. ASSUME UNCHANGED <<probed, clock>> PROVE ProbedPast' /\ clock' \in Nat /\ clock' >= clock
  BY <1>1, <1>2 DEF ProbedPast
<1>3. ASSUME NEW p \in Probers, Probe(p) PROVE ProbedPast' /\ clock' \in Nat /\ clock' >= clock
  <2>1. PICK ok \in BOOLEAN :
           probed' = probed \cup {<<job[p].key, [ok |-> ok, ts |-> clock]>>}
    BY <1>3 DEF Probe, Outcome
  <2>2. clock' = clock
    BY <1>3 DEF Probe
  <2> QED
    BY <1>1, <2>1, <2>2 DEF ProbedPast
<1>4. ASSUME NEW k \in Keys, OtherDevice(k)
      PROVE  ProbedPast' /\ clock' \in Nat /\ clock' >= clock
  <2>1. PICK e \in Verdict : e.ts <= clock /\ probed' = probed \cup {<<k, e>>}
    BY <1>4 DEF OtherDevice, Outcome
  <2>2. clock' = clock
    BY <1>4 DEF OtherDevice
  <2> QED
    BY <1>1, <2>1, <2>2 DEF ProbedPast
<1>5. ASSUME Tick PROVE ProbedPast' /\ clock' \in Nat /\ clock' >= clock
  <2>1. clock' = clock + 1 /\ probed' = probed
    BY <1>5 DEF Tick
  <2>2. \A x \in probed : x[2].ts \in Nat
    BY DEF IInv, TypeOK, Verdict
  <2> QED
    BY <1>1, <2>1, <2>2 DEF ProbedPast
<1> QED
  BY <1>2, <1>3, <1>4, <1>5 DEF Next, Miss, SaveThrottled, Note, Load, SavePool, SecondPasses,
     SetCloudCache, PushTake, Push, StartPull, PullSend, PullFetch, PullFails, PullMerge, PullSave, Crash, vars

\* Every way memory changes: by a probe, a merge, a load or the end of the process.
LEMMA MemStep ==
    ASSUME KeepInv, [Next]_vars
    PROVE  Load \/ Crash \/ \A k \in Keys : MemKeeps(k)
<1>1. IInv /\ \A k \in Keys : mem[k] # None => mem[k].ts \in Nat /\ mem[k].ts <= clock
  <2>1. IInv
    BY DEF KeepInv
  <2>2. ASSUME NEW k \in Keys, mem[k] # None PROVE mem[k].ts \in Nat /\ mem[k].ts <= clock
    <3>1. <<k, mem[k]>> \in probed /\ mem[k].ts \in Nat
      BY <2>1, <2>2, EntryTypes
    <3> QED
      BY <3>1 DEF KeepInv, ProbedPast
  <2> QED
    BY <2>1, <2>2
<1>2. ASSUME UNCHANGED mem, NEW k \in Keys PROVE MemKeeps(k)
  BY <1>1, <1>2 DEF MemKeeps
<1>3. ASSUME NEW p \in Probers, Probe(p), NEW k \in Keys PROVE MemKeeps(k)
  <2>1. PICK ok \in BOOLEAN : mem' = [mem EXCEPT ![job[p].key] = [ok |-> ok, ts |-> clock]]
    BY <1>3 DEF Probe
  <2>2. mem \in [Keys -> Verdict \cup {None}] /\ clock \in Nat /\ clock \in 0 .. MaxTicks
    BY <1>1 DEF IInv, TypeOK, Table
  <2>3. [ok |-> ok, ts |-> clock] \in Verdict
    BY <2>2 DEF Verdict
  <2>4. [ok |-> ok, ts |-> clock] # None
    BY <2>3, NoneAssumption
  <2>5. k = job[p].key => mem'[k] # None /\ mem'[k].ts = clock
    BY <2>1, <2>2, <2>4
  <2>6. k # job[p].key => mem'[k] = mem[k]
    BY <2>1, <2>2
  <2> QED
    BY <1>1, <2>2, <2>5, <2>6 DEF MemKeeps
<1>4. ASSUME NEW u \in Pullers, PullMerge(u), NEW k \in Keys PROVE MemKeeps(k)
  <2>1. mem'[k] = IF k \in Newer(u) THEN rows[u][k] ELSE mem[k]
    BY <1>4 DEF PullMerge
  <2>2. k \in Newer(u) => rows[u][k] # None /\ (mem[k] = None \/ rows[u][k].ts > mem[k].ts)
    BY DEF Newer, Known
  <2>3. rows[u][k] # None => rows[u][k].ts \in Nat
    <3>1. rows[u] \in Table
      BY <1>1 DEF IInv, TypeOK
    <3> QED
      BY <3>1 DEF Table, Verdict
  <2>4. CASE k \in Newer(u)
    BY <1>1, <2>1, <2>2, <2>3, <2>4 DEF MemKeeps
  <2>5. CASE k \notin Newer(u)
    BY <1>1, <2>1, <2>5 DEF MemKeeps
  <2> QED
    BY <2>4, <2>5
<1> QED
  BY <1>2, <1>3, <1>4 DEF Next, Miss, SaveThrottled, Note, SavePool, SecondPasses,
     SetCloudCache, PushTake, Push, StartPull, PullSend, PullFetch, PullFails, PullSave, OtherDevice, Tick, vars

\* Every way the file changes: by a save, whole or torn, or by the end of the process.
\* It counts as read once a read has returned, or when it is what memory is.
LEMMA FileStep ==
    ASSUME IInv, [Next]_vars
    PROVE  /\ file' = file \/ file' = Torn \/ file' = mem
           /\ Load \/ Crash \/ file' = mem \/ unread' = unread
<1>1. Save => /\ file' = file \/ file' = Torn \/ file' = mem
              /\ file' = mem \/ unread' = unread
  <2>1. unread \in BOOLEAN
    BY DEF IInv, TypeOK
  <2> QED
    BY <2>1 DEF Save
<1>2. CASE Crash
  BY <1>2 DEF Crash
<1>3. CASE UNCHANGED vars
  BY <1>3 DEF vars, diskVars
<1>4. CASE \E p \in Probers : Miss(p) \/ Probe(p) \/ SaveThrottled(p) \/ Note(p)
  BY <1>1, <1>4 DEF Miss, Probe, SaveThrottled, Note, diskVars
<1>5. CASE Load \/ SavePool \/ SecondPasses
  BY <1>1, <1>5 DEF Load, SavePool, SecondPasses
<1>6. CASE SetCloudCache \/ PushTake \/ Push \/ StartPull
  BY <1>6 DEF SetCloudCache, PushTake, Push, StartPull, diskVars
<1>7. CASE \E u \in Pullers : PullSend(u) \/ PullFetch(u) \/ PullFails(u) \/ PullMerge(u) \/ PullSave(u)
  BY <1>1, <1>7 DEF PullSend, PullFetch, PullFails, PullMerge, PullSave, diskVars
<1>8. CASE Tick \/ \E k \in Keys : OtherDevice(k)
  BY <1>8 DEF Tick, OtherDevice, diskVars
<1> QED
  BY <1>2, <1>3, <1>4, <1>5, <1>6, <1>7, <1>8 DEF Next

LEMMA FileInMemStep ==
    ASSUME KeepInv, IInv', [Next]_vars
    PROVE  FileInMem'
<1>1. CASE Crash
  BY <1>1 DEF Crash, FileInMem
<1>2. CASE Load
  <2>1. UNCHANGED <<file, clock>>
    BY <1>2 DEF Load
  <2>2. CASE ReadFails
    BY <2>1, <2>2 DEF ReadFails, KeepInv, FileInMem, Loadable, Age
  <2>3. CASE ~ ReadFails
    <3> SUFFICES ASSUME file # Torn, NEW k \in Keys, Loadable(k)
                 PROVE  mem'[k] # None /\ mem'[k].ts >= file[k].ts
      BY <2>1 DEF FileInMem, Loadable, Age
    <3>1. mem'[k] = file[k] /\ file[k] # None
      BY <1>2, <2>3 DEF Load, Loadable
    <3>2. file[k].ts \in Nat
      BY <3>1, EntryTypes DEF KeepInv
    <3> QED
      BY <3>1, <3>2
  <2> QED
    BY <2>2, <2>3
<1>3. CASE ~ Crash /\ ~ Load
  <2>1. /\ \A k \in Keys : MemKeeps(k)
        /\ file' = file \/ file' = Torn \/ file' = mem
        /\ file' = mem \/ unread' = unread
    BY <1>3, FileStep, MemStep DEF KeepInv
  <2> SUFFICES ASSUME ~ unread', file' # Torn, NEW k \in Keys, Loadable(k)'
               PROVE  mem'[k] # None /\ mem'[k].ts >= file'[k].ts
    BY DEF FileInMem
  <2>2. MemKeeps(k) /\ clock' >= clock /\ clock' \in Nat /\ clock \in Nat
    BY <2>1, ProbedStep, EntryTypes DEF KeepInv
  <2>3. mem'[k] # None => mem'[k].ts \in Nat
    <3>1. mem' \in Table
      BY DEF IInv, TypeOK
    <3> QED
      BY <3>1 DEF Table, Verdict
  <2>4. CASE file' = mem
    BY <2>2, <2>4 DEF Loadable, MemKeeps
  <2>5. CASE file' = file /\ unread' = unread
    <3>1. file # Torn /\ file[k] # None /\ clock' - file[k].ts <= Life(file[k])
      BY <2>5 DEF Loadable, Age, Life
    <3>2. file[k].ts \in Nat /\ Life(file[k]) \in Nat
      BY <3>1, EntryTypes DEF KeepInv
    <3>3. clock - file[k].ts <= Life(file[k])
      BY <2>2, <3>1, <3>2
    <3>4. Loadable(k)
      BY <3>1, <3>3 DEF Loadable, Age
    <3>5. mem[k] # None /\ mem[k].ts >= file[k].ts
      <4>1. ~ unread
        BY <2>5, Zenon
      <4> QED
        BY <3>1, <3>4, <4>1 DEF KeepInv, FileInMem
    <3>6. mem[k].ts \in Nat
      BY <3>5, EntryTypes DEF KeepInv
    <3> QED
      BY <2>2, <2>3, <2>5, <3>2, <3>5, <3>6 DEF MemKeeps
  <2> QED
    BY <2>1, <2>4, <2>5
<1> QED
  BY <1>1, <1>2, <1>3

\* Memory is never behind a file that the process has read or written, however many
\* reads and writes have failed.
THEOREM FileNeverAhead == Spec => []KeepInv
<1>1. Init => ProbedPast /\ FileInMem
  BY DEF Init, ProbedPast, FileInMem
<1>2. IInv /\ IInv' /\ ProbedPast /\ FileInMem /\ [Next]_vars => ProbedPast' /\ FileInMem'
  BY ProbedStep, FileInMemStep DEF KeepInv
<1> QED
  BY <1>1, <1>2, VerdictsInvariant, PTL DEF Spec, KeepInv

\* Of two verdicts on a key memory keeps the later one, however long a pulled row
\* lies before it is merged beside the probers; only a load and the end of the
\* process take memory back (cloudPull, echHandshakeOK, LoadEchTestCache).
THEOREM MemoryKeepsNewer == Spec => NewerWins
<1>1. KeepInv /\ [Next]_vars =>
        [\A k \in Keys :
           mem[k] # None /\ ~ Load /\ ~ Crash => mem'[k] # None /\ mem'[k].ts >= mem[k].ts]_vars
  BY MemStep DEF MemKeeps
<1> QED
  BY <1>1, FileNeverAhead, PTL DEF Spec, NewerWins

\* A file that has been read or written never forgets a verdict that a start would
\* still load by being rewritten, whatever the order of loading, probing, pulling,
\* saving and crashing (SaveEchTestCache replaces the file by the whole of memory).
THEOREM FileKeepsLive == Spec => FileKeeps
<1>1. ASSUME KeepInv, [Next]_vars, NEW k \in Keys, ~ unread, file # Torn, file' # Torn,
             Loadable(k)
      PROVE  file'[k] # None /\ file'[k].ts >= file[k].ts
  <2>1. file[k] # None /\ file[k].ts \in Nat
    BY <1>1, EntryTypes DEF Loadable, KeepInv
  <2>2. CASE file' = file
    BY <2>1, <2>2
  <2>3. CASE file' = mem
    BY <1>1, <2>3 DEF KeepInv, FileInMem
  <2> QED
    BY <1>1, <2>2, <2>3, FileStep DEF KeepInv
<1>2. KeepInv /\ [Next]_vars =>
        [\A k \in Keys :
           ~ unread /\ file # Torn /\ file' # Torn /\ Loadable(k)
               => file'[k] # None /\ file'[k].ts >= file[k].ts]_vars
  BY <1>1
<1> QED
  BY <1>2, FileNeverAhead, PTL DEF Spec, FileKeeps
=============================================================================
