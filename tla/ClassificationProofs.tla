--------------------------- MODULE ClassificationProofs ---------------------------
(***************************************************************************)
(* Proofs about Classification, for any handlers, names, goroutines and    *)
(* versions of the TXT record.                                             *)
(***************************************************************************)
EXTENDS Classification, TLAPS

USE NameAssumption, VersionAssumption, UnknownAssumption, UnreadableAssumption, FaultAssumption

\* A probe is testing or leaving, not both.
OneJob == \A p \in Probes : testing[p] = NoName \/ leaving[p] = NoName

\* Memory has every name of a file that has been read or written: what is loaded
\* replaces memory, and every write is a copy of it.  That the path is known is not
\* enough, since a read may fail.
Covered ==
    ~ unread /\ file # Unreadable =>
        \A n \in Names : file[n] # Unknown => probeCache[n] # Unknown

IInv == TypeOK /\ OneProbePerName /\ OneJob /\ GenuineClasses /\ Covered

\* A type-correct step keeps the types.
LEMMA TypeStep == TypeOK /\ [Next]_vars => TypeOK'
<1> SUFFICES ASSUME TypeOK, [Next]_vars PROVE TypeOK'
  OBVIOUS
<1>1. ASSUME NEW h \in Handlers, NEW n \in Names, AskCloud(h, n) PROVE TypeOK'
  BY <1>1 DEF AskCloud, cloudVars, TypeOK, Map, Nothing
<1>2. ASSUME NEW h \in Handlers, AskKnown(h) PROVE TypeOK'
  BY <1>2 DEF AskKnown, Answered, cloudVars, TypeOK, Map, Nothing
<1>3. ASSUME NEW h \in Handlers, AskUnknown(h) PROVE TypeOK'
  BY <1>3 DEF AskUnknown, Answered, cloudVars, TypeOK, Map, Nothing
<1>4. ASSUME NEW p \in Probes, Verdict(p) PROVE TypeOK'
  <2>1. PICK v \in BOOLEAN : /\ probeCache' = [probeCache EXCEPT ![testing[p]] = v]
                             /\ said' = said \cup {<<testing[p], v>>}
    BY <1>4 DEF Verdict
  <2>2. testing[p] \in Names
    BY <1>4 DEF Verdict, TypeOK
  <2>3. probeCache' \in Map /\ said' \subseteq Names \X BOOLEAN
    BY <2>1, <2>2 DEF TypeOK, Map
  <2>4. file' \in Map \cup {Unreadable} /\ unread' \in BOOLEAN
    BY <2>3, <1>4 DEF Verdict, Saved, TypeOK
  <2> QED
    BY <2>2, <2>3, <2>4, <1>4 DEF Verdict, cloudVars, TypeOK, Map, Nothing
<1>5. ASSUME NEW p \in Probes, Leave(p) PROVE TypeOK'
  BY <1>5 DEF Leave, cloudVars, TypeOK, Map, Nothing
<1>6. CASE LoadProbeCache
  <2>1. probeCache' \in Map /\ unread' \in BOOLEAN
    <3>1. CASE ReadFails
      BY <3>1 DEF ReadFails, TypeOK
    <3>2. CASE ~ ReadFails
      BY <1>6, <3>2 DEF LoadProbeCache, TypeOK
    <3> QED
      BY <3>1, <3>2
  <2> QED
    BY <1>6, <2>1 DEF LoadProbeCache, cloudVars, TypeOK
<1>7. CASE SaveProbeCache
  BY <1>7 DEF SaveProbeCache, Saved, cloudVars, TypeOK, Map, Nothing
<1>8. ASSUME NEW f \in Fetchers, StartCloudConfig(f) PROVE TypeOK'
  BY <1>8 DEF StartCloudConfig, probeVars, TypeOK, Map, Nothing
<1>9. ASSUME NEW f \in Fetchers, Fetch(f) PROVE TypeOK'
  BY <1>9 DEF Fetch, probeVars, TypeOK, Map, Nothing
<1>10. ASSUME NEW f \in Fetchers, FetchAnswered(f) PROVE TypeOK'
  BY <1>10 DEF FetchAnswered, probeVars, TypeOK, Map, Nothing
<1>11. ASSUME NEW f \in Fetchers, FetchFails(f) PROVE TypeOK'
  BY <1>11 DEF FetchFails, probeVars, TypeOK, Map, Nothing
<1>12. ASSUME NEW f \in Fetchers, Apply(f) PROVE TypeOK'
  <2>1. got[f] \in 0 .. MaxVersion /\ Nothing \in 0 .. Nothing
    <3>1. MaxVersion \in Nat
      OBVIOUS
    <3>2. got[f] \in 0 .. Nothing /\ got[f] # Nothing
      BY <1>12 DEF Apply, TypeOK
    <3> QED
      BY <3>1, <3>2 DEF Nothing
  <2>2. cloudCfg' \in 0 .. MaxVersion /\ got' \in [Fetchers -> 0 .. Nothing]
    BY <1>12, <2>1 DEF Apply, TypeOK
  <2> QED
    BY <1>12, <2>2 DEF Apply, probeVars, TypeOK
<1>13. CASE StopCloudConfig
  BY <1>13 DEF StopCloudConfig, probeVars, TypeOK, Map, Nothing
<1>14. CASE Publish
  BY <1>14 DEF Publish, probeVars, cloudVars, TypeOK, Map, Nothing
<1>15. CASE Crash
  <2>1. /\ probeCache' \in Map /\ file' \in Map \cup {Unreadable}
        /\ cloudCfg' \in 0 .. MaxVersion /\ crashes' \in 0 .. MaxCrashes
    BY <1>15 DEF Crash, Empty, TypeOK, Map
  <2>2. got' \in [Fetchers -> 0 .. Nothing]
    BY <1>15 DEF Crash, Nothing
  <2> QED
    BY <1>15, <2>1, <2>2 DEF Crash, TypeOK
<1>16. CASE UNCHANGED vars
  BY <1>16 DEF vars, probeVars, cloudVars, TypeOK, Map, Nothing
<1> QED
  BY <1>1, <1>2, <1>3, <1>4, <1>5, <1>6, <1>7, <1>8, <1>9, <1>10, <1>11, <1>12,
     <1>13, <1>14, <1>15, <1>16 DEF Next

\* The steps that leave probes, map and file alone.
LEMMA CloudStep ==
    (\E f \in Fetchers : StartCloudConfig(f) \/ Fetch(f) \/ FetchAnswered(f) \/ FetchFails(f) \/ Apply(f))
        \/ StopCloudConfig \/ Publish => UNCHANGED probeVars
BY DEF StartCloudConfig, Fetch, FetchAnswered, FetchFails, Apply, StopCloudConfig, Publish

\* The marks stay where a probe is, and only there.
LEMMA MarkStep == TypeOK /\ OneProbePerName /\ OneJob /\ [Next]_vars => OneProbePerName' /\ OneJob'
<1> SUFFICES ASSUME TypeOK, OneProbePerName, OneJob, [Next]_vars
             PROVE OneProbePerName' /\ OneJob'
  OBVIOUS
<1> DEFINE Quiet == UNCHANGED <<probeProbe, testing, leaving>>
<1>1. ASSUME Quiet PROVE OneProbePerName' /\ OneJob'
  BY <1>1 DEF OneProbePerName, OneJob
<1>2. ASSUME NEW h \in Handlers, AskUnknown(h) PROVE OneProbePerName' /\ OneJob'
  <2> DEFINE n == asking[h]
  <2>1. n \in Names /\ n \notin probeProbe
    BY <1>2 DEF AskUnknown, TypeOK
  <2>2. PICK p \in Probes : testing[p] = NoName /\ leaving[p] = NoName
                            /\ testing' = [testing EXCEPT ![p] = n]
    BY <1>2 DEF AskUnknown
  <2>3. leaving' = leaving /\ probeProbe' = probeProbe \cup {n}
    BY <1>2 DEF AskUnknown
  <2>4. \A q \in Probes : testing[q] # n /\ leaving[q] # n
    BY <2>1 DEF OneProbePerName
  <2>5. testing'[p] = n /\ \A q \in Probes : q # p => testing'[q] = testing[q]
    BY <2>2 DEF TypeOK
  <2> HIDE DEF n
  <2>6. OneJob'
    BY <2>2, <2>3, <2>5 DEF OneJob
  <2>7. ASSUME NEW m \in Names
        PROVE m \in probeProbe' <=> \E q \in Probes : testing'[q] = m \/ leaving'[q] = m
    <3>1. CASE m = n
      BY <3>1, <2>2, <2>3, <2>5
    <3>2. CASE m # n
      <4>1. m \in probeProbe' <=> \E q \in Probes : testing[q] = m \/ leaving[q] = m
        BY <3>2, <2>3, <2>7 DEF OneProbePerName
      <4>2. testing[p] # m /\ leaving[p] # m
        BY <2>2
      <4>3. \A q \in Probes : testing'[q] = m \/ leaving'[q] = m <=> testing[q] = m \/ leaving[q] = m
        BY <4>2, <3>2, <2>3, <2>5
      <4> QED
        BY <4>1, <4>3
    <3> QED
      BY <3>1, <3>2
  <2>8. ASSUME NEW q \in Probes, NEW r \in Probes, NEW m \in Names,
               m \in {testing'[q], leaving'[q]}, m \in {testing'[r], leaving'[r]}
        PROVE q = r
    BY <2>2, <2>3, <2>4, <2>5, <2>8 DEF OneProbePerName
  <2> QED
    BY <2>6, <2>7, <2>8 DEF OneProbePerName
<1>3. ASSUME NEW p \in Probes, Verdict(p) PROVE OneProbePerName' /\ OneJob'
  <2>1. testing[p] # NoName /\ leaving[p] = NoName
    BY <1>3 DEF Verdict, OneJob
  <2>2. /\ leaving'[p] = testing[p] /\ testing'[p] = NoName
        /\ \A q \in Probes : q # p => leaving'[q] = leaving[q] /\ testing'[q] = testing[q]
        /\ probeProbe' = probeProbe
    BY <1>3 DEF Verdict, TypeOK
  <2>3. OneJob'
    BY <2>2 DEF OneJob
  <2>4. \A q \in Probes : \A m \in Names :
           m \in {testing'[q], leaving'[q]} <=> m \in {testing[q], leaving[q]}
    BY <2>1, <2>2
  <2> QED
    BY <2>2, <2>3, <2>4 DEF OneProbePerName
<1>4. ASSUME NEW p \in Probes, Leave(p) PROVE OneProbePerName' /\ OneJob'
  <2> DEFINE n == leaving[p]
  <2>1. n \in Names /\ testing[p] = NoName
    BY <1>4 DEF Leave, TypeOK, OneJob
  <2>2. /\ leaving'[p] = NoName /\ testing' = testing
        /\ \A q \in Probes : q # p => leaving'[q] = leaving[q]
        /\ probeProbe' = probeProbe \ {n}
    BY <1>4 DEF Leave, TypeOK
  <2>3. OneJob'
    BY <2>2 DEF OneJob
  <2>4. \A q \in Probes : q # p => testing[q] # n /\ leaving[q] # n
    BY <2>1 DEF OneProbePerName
  <2> HIDE DEF n
  <2>5. ASSUME NEW q \in Probes, NEW m \in Names
        PROVE m \in {testing'[q], leaving'[q]} <=> m # n /\ m \in {testing[q], leaving[q]}
    <3>1. CASE q = p
      <4>1. leaving[q] = n
        BY <3>1 DEF n
      <4> QED
        BY <3>1, <4>1, <2>1, <2>2
    <3>2. CASE q # p
      BY <3>2, <2>2, <2>4
    <3> QED
      BY <3>1, <3>2
  <2> QED
    BY <2>2, <2>3, <2>5 DEF OneProbePerName
<1>5. CASE Crash
  BY <1>5 DEF Crash, OneProbePerName, OneJob
<1>6. ASSUME NEW h \in Handlers, AskKnown(h) PROVE Quiet
  BY <1>6 DEF AskKnown
<1>7. ASSUME NEW h \in Handlers, NEW n \in Names, AskCloud(h, n) PROVE Quiet
  BY <1>7 DEF AskCloud
<1>8. ASSUME LoadProbeCache \/ SaveProbeCache PROVE Quiet
  BY <1>8 DEF LoadProbeCache, SaveProbeCache
<1>9. ASSUME UNCHANGED probeVars PROVE Quiet
  BY <1>9 DEF probeVars
<1>10. UNCHANGED vars => UNCHANGED probeVars
  BY DEF vars
<1> QED
  BY <1>1, <1>2, <1>3, <1>4, <1>5, <1>6, <1>7, <1>8, <1>9, <1>10, CloudStep DEF Next

\* Memory and file hold what was said, and memory has the file's names.
LEMMA FileStep ==
    TypeOK /\ GenuineClasses /\ Covered /\ [Next]_vars => GenuineClasses' /\ Covered'
<1> SUFFICES ASSUME TypeOK, GenuineClasses, Covered, [Next]_vars
             PROVE GenuineClasses' /\ Covered'
  OBVIOUS
<1> DEFINE Quiet == UNCHANGED <<probeCache, file, said, unread>>
<1>1. ASSUME Quiet PROVE GenuineClasses' /\ Covered'
  BY <1>1 DEF GenuineClasses, Covered, Verdicts
<1>2. ASSUME NEW p \in Probes, Verdict(p) PROVE GenuineClasses' /\ Covered'
  <2> DEFINE n == testing[p]
  <2>1. PICK v \in BOOLEAN : /\ probeCache' = [probeCache EXCEPT ![n] = v]
                             /\ said' = said \cup {<<n, v>>}
    BY <1>2 DEF Verdict
  <2>2. n \in Names
    BY <1>2 DEF Verdict, TypeOK
  <2>3. probeCache'[n] = v /\ \A m \in Names : m # n => probeCache'[m] = probeCache[m]
    BY <2>1, <2>2 DEF TypeOK, Map
  <2>4. /\ file' \in {probeCache', file, Unreadable}
        /\ file' = probeCache' \/ unread' = unread
    BY <1>2 DEF Verdict, Saved, TypeOK
  <2> HIDE DEF n
  <2>5. Verdicts(probeCache') \subseteq said'
    BY <2>1, <2>3 DEF GenuineClasses, Verdicts
  <2>6. Verdicts(file) \subseteq said' \/ file = Unreadable
    BY <2>1 DEF GenuineClasses
  <2>7. GenuineClasses'
    <3>1. CASE file' = probeCache'
      BY <3>1, <2>5 DEF GenuineClasses, Verdicts
    <3>2. CASE file' = file
      BY <3>2, <2>5, <2>6 DEF GenuineClasses, Verdicts
    <3>3. CASE file' = Unreadable
      BY <3>3, <2>5 DEF GenuineClasses, Verdicts
    <3> QED
      BY <3>1, <3>2, <3>3, <2>4
  <2>8. \A m \in Names : probeCache[m] # Unknown => probeCache'[m] # Unknown
    BY <2>3
  <2>9. Covered'
    <3>1. CASE file' = probeCache'
      BY <3>1 DEF Covered
    <3>2. CASE file' \in {file, Unreadable} /\ unread' = unread
      BY <3>2, <2>8 DEF Covered
    <3> QED
      BY <3>1, <3>2, <2>4
  <2> QED
    BY <2>7, <2>9
<1>3. CASE LoadProbeCache
  <2>1. CASE ReadFails
    BY <1>3, <2>1 DEF LoadProbeCache, ReadFails, GenuineClasses, Covered, Verdicts
  <2>2. CASE ~ ReadFails
    BY <1>3, <2>2 DEF LoadProbeCache, GenuineClasses, Covered, Verdicts
  <2> QED
    BY <2>1, <2>2
<1>4. CASE SaveProbeCache
  <2>1. /\ UNCHANGED <<probeCache, said>> /\ file' \in {probeCache, file, Unreadable}
        /\ file' = probeCache \/ unread' = unread
    BY <1>4 DEF SaveProbeCache, Saved, TypeOK
  <2>2. CASE file' = probeCache
    BY <2>1, <2>2 DEF GenuineClasses, Covered, Verdicts
  <2>3. CASE file' \in {file, Unreadable} /\ unread' = unread
    BY <2>1, <2>3 DEF GenuineClasses, Covered, Verdicts
  <2> QED
    BY <2>1, <2>2, <2>3
<1>5. CASE Crash
  <2>1. Verdicts(Empty) = {}
    BY DEF Verdicts, Empty
  <2>2. probeCache' = Empty /\ unread' = TRUE /\ said' = said /\ file' \in {file, Unreadable}
    BY <1>5 DEF Crash
  <2> QED
    BY <2>1, <2>2 DEF GenuineClasses, Covered, Verdicts
<1>6. ASSUME NEW h \in Handlers, AskKnown(h) \/ AskUnknown(h) PROVE Quiet
  BY <1>6 DEF AskKnown, AskUnknown
<1>7. ASSUME NEW h \in Handlers, NEW n \in Names, AskCloud(h, n) PROVE Quiet
  BY <1>7 DEF AskCloud
<1>8. ASSUME NEW p \in Probes, Leave(p) PROVE Quiet
  BY <1>8 DEF Leave
<1>9. ASSUME UNCHANGED probeVars PROVE Quiet
  BY <1>9 DEF probeVars
<1>10. UNCHANGED vars => UNCHANGED probeVars
  BY DEF vars
<1> QED
  BY <1>1, <1>2, <1>3, <1>4, <1>5, <1>6, <1>7, <1>8, <1>9, <1>10, CloudStep DEF Next

\* The file is only ever replaced by a copy of a map that covers it.
LEMMA KeepStep ==
    TypeOK /\ Covered /\ [Next]_vars =>
        \A n \in Names : (~ unread /\ file # Unreadable /\ file' # Unreadable) =>
            (file[n] # Unknown => file'[n] # Unknown)
<1> SUFFICES ASSUME TypeOK, Covered, [Next]_vars, NEW n \in Names,
                    ~ unread, file # Unreadable, file' # Unreadable, file[n] # Unknown
             PROVE file'[n] # Unknown
  OBVIOUS
<1>1. ASSUME NEW p \in Probes, Verdict(p) PROVE file'[n] # Unknown
  <2>1. PICK v \in BOOLEAN : probeCache' = [probeCache EXCEPT ![testing[p]] = v]
    BY <1>1 DEF Verdict
  <2>2. file' = file \/ file' = probeCache'
    BY <1>1 DEF Verdict, Saved
  <2>3. probeCache[n] # Unknown
    BY DEF Covered
  <2>4. probeCache[n] # Unknown => probeCache'[n] # Unknown
    BY <2>1 DEF TypeOK, Map
  <2> QED
    BY <2>2, <2>3, <2>4
<1>2. CASE SaveProbeCache
  BY <1>2 DEF SaveProbeCache, Saved, Covered
<1>3. CASE Crash
  BY <1>3 DEF Crash
<1>4. CASE LoadProbeCache
  BY <1>4 DEF LoadProbeCache
<1>5. ASSUME NEW h \in Handlers, AskKnown(h) \/ AskUnknown(h) PROVE file' = file
  BY <1>5 DEF AskKnown, AskUnknown
<1>6. ASSUME NEW h \in Handlers, NEW m \in Names, AskCloud(h, m) PROVE file' = file
  BY <1>6 DEF AskCloud
<1>7. ASSUME NEW p \in Probes, Leave(p) PROVE file' = file
  BY <1>7 DEF Leave
<1>8. UNCHANGED probeVars => file' = file
  BY DEF probeVars
<1>9. UNCHANGED vars => UNCHANGED probeVars
  BY DEF vars
<1> QED
  BY <1>1, <1>2, <1>3, <1>4, <1>5, <1>6, <1>7, <1>8, <1>9, CloudStep DEF Next

LEMMA InitIInv == Init => IInv
<1> SUFFICES ASSUME Init PROVE IInv
  OBVIOUS
<1>1. TypeOK
  <2>1. Empty \in Map
    BY DEF Empty, Map
  <2>2. said \subseteq Names \X BOOLEAN
    BY DEF Init, Verdicts
  <2>3. 0 \in 0 .. MaxVersion /\ 1 \in 1 .. MaxVersion /\ Nothing \in 0 .. Nothing
    BY DEF Nothing
  <2>4. published \in 1 .. MaxVersion /\ cloudCfg \in 0 .. MaxVersion
        /\ got \in [Fetchers -> 0 .. Nothing] /\ crashes \in 0 .. MaxCrashes
    BY <2>3 DEF Init
  <2> QED
    BY <2>1, <2>2, <2>4 DEF Init, TypeOK
<1>2. OneProbePerName /\ OneJob
  BY DEF Init, OneProbePerName, OneJob
<1>3. Verdicts(Empty) = {}
  BY DEF Verdicts, Empty
<1>4. GenuineClasses /\ Covered
  BY <1>3 DEF Init, GenuineClasses, Covered
<1> QED
  BY <1>1, <1>2, <1>4 DEF IInv

LEMMA NextIInv == IInv /\ [Next]_vars => IInv'
BY TypeStep, MarkStep, FileStep DEF IInv

\* All parts of the invariant, for every instance.
THEOREM ClassesInvariant == Spec => []IInv
BY InitIInv, NextIInv, PTL DEF Spec

\* Every variable keeps its type (shouldForceCF, probeDomain, the loops).
THEOREM ClassesTypeCorrect == Spec => []TypeOK
<1>1. IInv => TypeOK
  BY DEF IInv
<1> QED
  BY <1>1, ClassesInvariant, PTL

\* A name is tested by one goroutine at a time and marked exactly as long
\* (shouldForceCF and the deferred function of probeDomain).
THEOREM OneProbe == Spec => []OneProbePerName
<1>1. IInv => OneProbePerName
  BY DEF IInv
<1> QED
  BY <1>1, ClassesInvariant, PTL

\* Loading, saving, failing writes and restarts make no verdict up
\* (LoadProbeCache, saveProbeCacheLocked).
THEOREM VerdictsAreGenuine == Spec => []GenuineClasses
<1>1. IInv => GenuineClasses
  BY DEF IInv
<1> QED
  BY <1>1, ClassesInvariant, PTL

\* A file that has been read or written never loses a name to a later write,
\* whichever reads and writes fail and wherever the process ends
\* (LoadProbeCache, saveProbeCacheLocked).
THEOREM NamesAreKept == Spec => FileKeepsNames
<1>1. IInv /\ [Next]_vars =>
        [\A n \in Names : (~ unread /\ file # Unreadable /\ file' # Unreadable) =>
              (file[n] # Unknown => file'[n] # Unknown)]_vars
  BY KeepStep DEF IInv
<1> QED
  BY <1>1, ClassesInvariant, PTL DEF Spec, FileKeepsNames
=============================================================================
