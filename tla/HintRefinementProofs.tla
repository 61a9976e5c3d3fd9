-------------------------- MODULE HintRefinementProofs --------------------------
(***************************************************************************)
(* The safety half of the refinement: every step of ForcedHints is a step  *)
(* of HintOracle or changes nothing the oracle speaks of, for any number   *)
(* of callers, domains and addresses.                                      *)
(***************************************************************************)
EXTENDS HintRefinement, ForcedHintsProofs

\* Nothing is proven before a flight begins to probe.
Untested == \A c \in Callers :
    pc[c] \in {"idle", "lookup", "wait", "lookupOfficial"} => proven[c] = {}

LEMMA FlyingLabels ==
    /\ Flying = {"lookupOfficial", "probePool", "probeOfficial", "sample", "probeReach",
                 "takeFirst", "takeOfficial", "takeReach", "takeAgain", "takeSpare", "publish"}
    /\ Owning = Flying \cup {"unmap"}
  BY DEF Owning, Flying, Probing, Taking

\* Collecting and merging: nothing but passed moves, and it only grows.
LEMMA CollectPasses ==
    ASSUME TypeOK, Untested, NEW c \in Callers, LookupOfficial(c) \/ Collect(c) \/ Assemble(c)
    PROVE  /\ UNCHANGED result
           /\ \/ UNCHANGED proven
              \/ \E ip \in IPs : proven' = [proven EXCEPT ![c] = @ \cup {ip}]
<1>1. CASE LookupOfficial(c)
  <2>1. UNCHANGED result /\ proven' = [proven EXCEPT ![c] = {}]
    BY <1>1 DEF LookupOfficial, callVars
  <2>2. proven[c] = {}
    BY <1>1 DEF LookupOfficial, Untested
  <2> QED
    BY <2>1, <2>2 DEF TypeOK
<1>2. CASE PoolVerdict(c)
  <2>1. UNCHANGED result
    BY <1>2 DEF PoolVerdict, callVars
  <2>2. PICK ip \in pending[c], passed \in BOOLEAN : Prove(c, ip, passed)
    BY <1>2 DEF PoolVerdict
  <2>3. ip \in IPs
    BY DEF TypeOK
  <2> QED
    BY <2>1, <2>2, <2>3 DEF Prove
<1>3. CASE OfficialVerdict(c)
  <2>1. UNCHANGED result
    BY <1>3 DEF OfficialVerdict, callVars
  <2>2. PICK ip \in pending[c], passed \in BOOLEAN : Prove(c, ip, passed)
    BY <1>3 DEF OfficialVerdict
  <2>3. ip \in IPs
    BY DEF TypeOK
  <2> QED
    BY <2>1, <2>2, <2>3 DEF Prove
<1>4. CASE SampleVerdict(c)
  <2>1. UNCHANGED result
    BY <1>4 DEF SampleVerdict, callVars
  <2>2. PICK ip \in pending[c], passed \in BOOLEAN : Prove(c, ip, passed)
    BY <1>4 DEF SampleVerdict
  <2>3. ip \in IPs
    BY DEF TypeOK
  <2> QED
    BY <2>1, <2>2, <2>3 DEF Prove
<1>5. CASE ReachVerdict(c)
  <2>1. UNCHANGED result
    BY <1>5 DEF ReachVerdict, callVars
  <2>2. PICK ip \in pending[c], passed \in BOOLEAN : Prove(c, ip, passed)
    BY <1>5 DEF ReachVerdict
  <2>3. ip \in IPs
    BY DEF TypeOK
  <2> QED
    BY <2>1, <2>2, <2>3 DEF Prove
<1>6. CASE PoolDone(c) \/ OfficialDone(c) \/ SampleDone(c) \/ ReachDone(c)
  BY <1>6 DEF PoolDone, OfficialDone, SampleDone, ReachDone, callVars, flightVars
<1>7. CASE Assemble(c)
  BY <1>7 DEF Assemble, TakeNext, FirstTaken, OfficialTaken, ReachTaken, AgainTaken, SpareTaken,
     callVars, flightVars
<1> QED
  BY <1>1, <1>2, <1>3, <1>4, <1>5, <1>6, <1>7 DEF Collect

LEMMA UntestedInvariant == Spec => []Untested
<1>1. Init => Untested
  BY DEF Init, Untested
<1>2. TypeOK /\ Untested /\ [Next]_vars => Untested'
  <2> SUFFICES ASSUME TypeOK, Untested, [Next]_vars PROVE Untested'
    OBVIOUS
  <2>1. ASSUME NEW c \in Callers, LookupOfficial(c) \/ Collect(c) \/ Assemble(c) PROVE Untested'
    <3>0. Quiet(c)
      BY <2>1, CollectIsQuiet
    <3>3. \A d \in Callers \ {c} : proven'[d] = proven[d]
      BY <2>1, CollectPasses DEF TypeOK
    <3>4. \A d \in Callers \ {c} : pc'[d] = pc[d]
      BY <3>0 DEF Quiet, TypeOK
    <3>1. pc'[c] \notin {"idle", "lookup", "wait"}
      BY <3>0, FlyingLabels DEF Quiet, TypeOK
    <3>2. pc'[c] # "lookupOfficial"
      BY <2>1 DEF TypeOK, LookupOfficial, Collect, PoolVerdict, PoolDone, OfficialVerdict, OfficialDone,
         SampleVerdict, SampleDone, ReachVerdict, ReachDone, Assemble, TakeNext, FirstTaken,
         OfficialTaken, ReachTaken, AgainTaken, SpareTaken, GoTo, Taking
    <3> QED
      BY <3>1, <3>2, <3>3, <3>4 DEF Untested
  <2>2. ASSUME NEW c \in Callers, Call(c) \/ Hit(c) \/ Join(c) \/ Register(c) \/ Publish(c) \/ Unmap(c)
        PROVE Untested'
    BY <2>2 DEF TypeOK, Untested, Call, Hit, Join, Register, Publish, Unmap, GoTo, flightVars
  <2>3. ASSUME NEW c \in Callers, WgDone(c) PROVE Untested'
    BY <2>3 DEF TypeOK, Untested, WgDone, flightVars
  <2>4. ASSUME NEW c \in Callers, Return(c) PROVE Untested'
    BY <2>4 DEF TypeOK, Untested, Return, GoTo
  <2>5. CASE Environment \/ UNCHANGED vars
    <3>1. UNCHANGED <<pc, proven>>
      BY <2>5 DEF Environment, ExpireHint, AgeVerdict, StrayVerdict, MergeVerdict, vars, flightVars
    <3> QED
      BY <3>1 DEF Untested
  <2> QED
    BY <2>1, <2>2, <2>3, <2>4, <2>5 DEF Next, Step
<1> QED
  BY <1>1, <1>2, TypeCorrect, PTL DEF Spec

-----------------------------------------------------------------------------
(* The image of a step.                                                    *)

\* Who conducts a round, read off the flight table.
LEMMA Conductor ==
    ASSUME TypeOK, NEW k \in Keys
    PROVE  RoundOf(k) = IF forcedHintFlight[k] # NoCaller /\ pc[forcedHintFlight[k]] \in Flying
                        THEN forcedHintFlight[k] ELSE NoCaller
<1>1. forcedHintFlight[k] \in Callers \cup {NoCaller}
  BY DEF TypeOK
<1> QED
  BY <1>1, NoCallerAssumption DEF RoundOf, Conducting

\* A step under which everything the oracle speaks of stays.
LEMMA Unseen ==
    ASSUME \A c \in Callers : StatusOf(c)' = StatusOf(c),
           \A k \in Keys : RoundOf(k)' = RoundOf(k),
           \A k \in Keys : PassedOf(k)' = PassedOf(k),
           UNCHANGED <<key, result, forcedHintCache>>
    PROVE  UNCHANGED Oracle!vars
  BY DEF Oracle!vars, Told

LEMMA CollectImage ==
    ASSUME TypeOK, TypeOK', FlightInv, Untested, NEW c \in Callers,
           LookupOfficial(c) \/ Collect(c) \/ Assemble(c)
    PROVE  [Oracle!Next]_(Oracle!vars)
<1>1. Quiet(c)
  BY CollectIsQuiet
<1>2. forcedHintFlight[key[c]] = c /\ key[c] \in Keys /\ pc[c] \in Flying
  BY <1>1 DEF Quiet, FlightInv, SingleFlight, Owning, TypeOK
<1>3. \A d \in Callers : pc'[d] \in Flying <=> pc[d] \in Flying
  BY <1>1 DEF Quiet, TypeOK
<1>4. \A k \in Keys : RoundOf(k)' = RoundOf(k)
  <2>1. ASSUME NEW k \in Keys PROVE RoundOf(k)' = RoundOf(k)
    BY <1>1, <1>3 DEF Quiet, RoundOf, Conducting
  <2> QED
    BY <2>1
<1>5. RoundOf(key[c]) = c
  BY <1>2, NoCallerAssumption, Conductor
<1>6. \A d \in Callers : StatusOf(d)' = StatusOf(d)
  <2>1. ASSUME NEW d \in Callers PROVE StatusOf(d)' = StatusOf(d)
    <3>1. CASE d = c
      BY <1>2, <1>3, <3>1, FlyingLabels DEF StatusOf
    <3>2. CASE d # c
      BY <1>1, <3>2 DEF Quiet, StatusOf, TypeOK
    <3> QED
      BY <3>1, <3>2
  <2> QED
    BY <2>1
<1>7. UNCHANGED <<key, result, forcedHintCache>>
  BY <1>1, CollectPasses DEF Quiet
<1>8. CASE UNCHANGED proven
  <2>1. \A k \in Keys : PassedOf(k)' = PassedOf(k)
    BY <1>4, <1>8 DEF PassedOf
  <2> QED
    BY <1>4, <1>6, <1>7, <2>1, Unseen
<1>9. ASSUME NEW ip \in IPs, proven' = [proven EXCEPT ![c] = @ \cup {ip}]
      PROVE  Oracle!Pass(c, ip)
  <2>1. \A k \in Keys : PassedOf(k)' = IF k = key[c] THEN PassedOf(k) \cup {ip} ELSE PassedOf(k)
    <3>1. ASSUME NEW k \in Keys, k # key[c] PROVE RoundOf(k) # c
      BY <3>1, <1>2, NoCallerAssumption, Conductor DEF FlightInv, Registered
    <3>2. ASSUME NEW k \in Keys, k # key[c] PROVE PassedOf(k)' = PassedOf(k)
      <4>1. RoundOf(k) = NoCaller \/ RoundOf(k) \in Callers \ {c}
        BY <3>1, <3>2, Conductor DEF TypeOK
      <4> QED
        BY <1>4, <1>9, <4>1 DEF PassedOf, TypeOK
    <3>3. PassedOf(key[c])' = PassedOf(key[c]) \cup {ip}
      <4>1. RoundOf(key[c])' = c
        BY <1>2, <1>4, <1>5, <1>7
      <4> QED
        BY <1>2, <1>5, <1>9, <4>1, NoCallerAssumption DEF PassedOf, TypeOK
    <3> QED
      BY <3>2, <3>3, <1>7
  <2>2. [k \in Keys |-> PassedOf(k)]'
          = [[k \in Keys |-> PassedOf(k)] EXCEPT ![key[c]] = @ \cup {ip}]
    BY <1>2, <2>1
  <2> QED
    BY <1>2, <1>4, <1>5, <1>6, <1>7, <2>2 DEF Oracle!Pass, Told
<1> QED
  BY <1>8, <1>9, CollectPasses DEF Oracle!Next

\* Steps that change no flight: who conducts a round, and with what result.
LEMMA RoundsStay ==
    ASSUME \A c \in Callers : pc'[c] \in Flying <=> pc[c] \in Flying,
           UNCHANGED <<forcedHintFlight, proven>>
    PROVE  \A k \in Keys : RoundOf(k)' = RoundOf(k) /\ PassedOf(k)' = PassedOf(k)
<1>1. ASSUME NEW k \in Keys PROVE RoundOf(k)' = RoundOf(k)
  BY DEF RoundOf, Conducting
<1> QED
  BY <1>1 DEF PassedOf

\* Labels of the other callers stay, and with them their status.
LEMMA OneMoves ==
    ASSUME TypeOK, NEW c \in Callers, NEW l, pc' = [pc EXCEPT ![c] = l]
    PROVE  /\ \A d \in Callers \ {c} : StatusOf(d)' = StatusOf(d)
           /\ pc'[c] = l
           /\ (l \in Flying <=> pc[c] \in Flying)
                 => \A d \in Callers : pc'[d] \in Flying <=> pc[d] \in Flying
<1>1. pc'[c] = l /\ \A d \in Callers \ {c} : pc'[d] = pc[d]
  BY DEF TypeOK
<1>2. \A d \in Callers \ {c} : StatusOf(d)' = StatusOf(d)
  BY <1>1 DEF StatusOf
<1> QED
  BY <1>1, <1>2

LEMMA CallImage ==
    ASSUME TypeOK, NEW c \in Callers, Call(c)
    PROVE  \E k \in Keys : Oracle!Ask(c, k)
<1>1. PICK k \in Keys : key' = [key EXCEPT ![c] = k]
  BY DEF Call
<1>2. /\ pc[c] = "idle" /\ pc' = [pc EXCEPT ![c] = "lookup"]
      /\ UNCHANGED <<result, proven, forcedHintCache, forcedHintFlight>>
  BY DEF Call, GoTo, hintVars
<1>3. \A k2 \in Keys : RoundOf(k2)' = RoundOf(k2) /\ PassedOf(k2)' = PassedOf(k2)
  BY <1>2, OneMoves, RoundsStay, FlyingLabels
<1>4. /\ \A d \in Callers \ {c} : StatusOf(d)' = StatusOf(d)
      /\ StatusOf(c) = "idle" /\ StatusOf(c)' = "asking"
  BY <1>2, OneMoves DEF StatusOf
<1>5. [d \in Callers |-> StatusOf(d)]' = [[d \in Callers |-> StatusOf(d)] EXCEPT ![c] = "asking"]
  BY <1>4
<1>6. Oracle!Ask(c, k)
  BY <1>1, <1>2, <1>3, <1>4, <1>5 DEF Oracle!Ask, Told
<1> QED
  BY <1>6

LEMMA HitImage ==
    ASSUME TypeOK, NEW c \in Callers, Hit(c)
    PROVE  Oracle!Tell(c)
<1>1. /\ pc[c] = "lookup" /\ pc' = [pc EXCEPT ![c] = "return"]
      /\ forcedHintCache[key[c]].fresh /\ key[c] \in Keys
      /\ result' = [result EXCEPT ![c] = forcedHintCache[key[c]]]
      /\ UNCHANGED <<key, proven, forcedHintCache, forcedHintFlight>>
  BY DEF TypeOK, Hit, GoTo, hintVars, flightVars
<1>2. \A k \in Keys : RoundOf(k)' = RoundOf(k) /\ PassedOf(k)' = PassedOf(k)
  BY <1>1, OneMoves, RoundsStay, FlyingLabels
<1>3. /\ \A d \in Callers \ {c} : StatusOf(d)' = StatusOf(d)
      /\ StatusOf(c) = "asking" /\ StatusOf(c)' = "answered"
  BY <1>1, OneMoves DEF StatusOf
<1>4. [d \in Callers |-> StatusOf(d)]' = [[d \in Callers |-> StatusOf(d)] EXCEPT ![c] = "answered"]
  BY <1>3
<1>5. [d \in Callers |-> Told(result[d])]'
        = [[d \in Callers |-> Told(result[d])] EXCEPT ![c] = Told(forcedHintCache[key[c]])]
  BY <1>1 DEF TypeOK
<1>6. [k \in Keys |-> Told(forcedHintCache[k])][key[c]] = Told(forcedHintCache[key[c]])
  BY <1>1
<1>7. Told(forcedHintCache[key[c]]).known
  BY <1>1 DEF Told
<1>8. [k \in Keys |-> Told(forcedHintCache[k])]' = [k \in Keys |-> Told(forcedHintCache[k])]
  BY <1>1
<1> QED
  BY <1>1, <1>2, <1>3, <1>4, <1>5, <1>6, <1>7, <1>8 DEF Oracle!Tell

LEMMA RegisterImage ==
    ASSUME TypeOK, TypeOK', FlightInv, Untested, NEW c \in Callers, Register(c)
    PROVE  Oracle!Begin(c)
<1>1. /\ pc[c] = "lookup" /\ pc' = [pc EXCEPT ![c] = "lookupOfficial"]
      /\ ~ forcedHintCache[key[c]].fresh /\ key[c] \in Keys
      /\ forcedHintFlight[key[c]] = NoCaller
      /\ forcedHintFlight' = [forcedHintFlight EXCEPT ![key[c]] = c]
      /\ UNCHANGED <<key, result, proven, forcedHintCache>>
  BY DEF TypeOK, Register, GoTo, callVars, flightVars
<1>2. /\ \A d \in Callers \ {c} : StatusOf(d)' = StatusOf(d)
      /\ StatusOf(c) = "asking" /\ StatusOf(c)' = "asking"
  BY <1>1, OneMoves DEF StatusOf
<1>3. /\ pc'[c] \in Flying /\ pc[c] \notin Flying
      /\ \A d \in Callers \ {c} : pc'[d] = pc[d]
  BY <1>1, FlyingLabels DEF TypeOK
<1>4. RoundOf(key[c]) = NoCaller /\ RoundOf(key[c])' = c
  <2>1. RoundOf(key[c]) = NoCaller
    BY <1>1, Conductor
  <2>2. forcedHintFlight'[key[c]] = c
    BY <1>1 DEF TypeOK
  <2>3. RoundOf(key[c])' = c
    BY <1>1, <1>3, <2>2 DEF RoundOf, Conducting
  <2> QED
    BY <2>1, <2>3
<1>5. \A k \in Keys \ {key[c]} : RoundOf(k)' = RoundOf(k) /\ PassedOf(k)' = PassedOf(k)
  <2>1. ASSUME NEW k \in Keys \ {key[c]} PROVE RoundOf(k)' = RoundOf(k)
    <3>1. forcedHintFlight'[k] = forcedHintFlight[k]
      BY <1>1 DEF TypeOK
    <3>2. forcedHintFlight[k] # c
      BY <1>1, NoCallerAssumption DEF FlightInv, Registered, Owning, Flying, Probing, Taking
    <3> QED
      BY <1>3, <3>1, <3>2 DEF RoundOf, Conducting
  <2> QED
    BY <1>1, <2>1 DEF PassedOf
<1>6. PassedOf(key[c]) = {} /\ PassedOf(key[c])' = {}
  <2>1. proven[c] = {}
    BY <1>1 DEF Untested
  <2> QED
    BY <1>1, <1>4, <2>1, NoCallerAssumption DEF PassedOf
<1>7. [k \in Keys |-> RoundOf(k)]' = [[k \in Keys |-> RoundOf(k)] EXCEPT ![key[c]] = c]
  BY <1>1, <1>4, <1>5
<1>8. [k \in Keys |-> PassedOf(k)]' = [k \in Keys |-> PassedOf(k)]
  BY <1>1, <1>5, <1>6
<1>9. [d \in Callers |-> StatusOf(d)]' = [d \in Callers |-> StatusOf(d)]
  BY <1>2
<1>10. ~ Told(forcedHintCache[key[c]]).known
  BY <1>1 DEF Told
<1>11. /\ [d \in Callers |-> Told(result[d])]' = [d \in Callers |-> Told(result[d])]
       /\ [k \in Keys |-> Told(forcedHintCache[k])]' = [k \in Keys |-> Told(forcedHintCache[k])]
  BY <1>1
<1> QED
  BY <1>1, <1>2, <1>4, <1>7, <1>8, <1>9, <1>10, <1>11 DEF Oracle!Begin

LEMMA PublishImage ==
    ASSUME TypeOK, FlightInv, FailClosed, FlightBounded,
           NEW c \in Callers, Publish(c)
    PROVE  \E ips \in Oracle!Lists : Oracle!Conclude(c, ips)
<1> DEFINE e == [ips |-> out[c], fresh |-> TRUE]
<1>1. /\ pc[c] = "publish" /\ pc' = [pc EXCEPT ![c] = "unmap"]
      /\ forcedHintCache' = [forcedHintCache EXCEPT ![key[c]] = e]
      /\ result' = [result EXCEPT ![c] = e]
      /\ UNCHANGED <<key, proven, forcedHintFlight>> /\ key[c] \in Keys
  BY DEF TypeOK, Publish, GoTo, flightVars
<1>2. /\ \A d \in Callers \ {c} : StatusOf(d)' = StatusOf(d)
      /\ StatusOf(c) = "asking" /\ StatusOf(c)' = "answered"
  BY <1>1, OneMoves DEF StatusOf
<1>3. /\ pc'[c] \notin Flying /\ pc[c] \in Flying /\ pc[c] \in Owning
      /\ \A d \in Callers \ {c} : pc'[d] = pc[d]
  BY <1>1, FlyingLabels DEF TypeOK
<1>4. forcedHintFlight[key[c]] = c /\ ~ forcedHintCache[key[c]].fresh
  BY <1>3 DEF FlightInv, SingleFlight, NoProbeWhileFresh
<1>5. RoundOf(key[c]) = c /\ RoundOf(key[c])' = NoCaller
  <2>1. RoundOf(key[c]) = c
    BY <1>1, <1>3, <1>4, NoCallerAssumption, Conductor
  <2>2. RoundOf(key[c])' = NoCaller
    BY <1>1, <1>3, <1>4 DEF RoundOf, Conducting
  <2> QED
    BY <2>1, <2>2
<1>6. \A k \in Keys \ {key[c]} : RoundOf(k)' = RoundOf(k) /\ PassedOf(k)' = PassedOf(k)
  <2>1. ASSUME NEW k \in Keys \ {key[c]} PROVE RoundOf(k)' = RoundOf(k)
    <3>1. forcedHintFlight[k] # c
      BY <1>1, NoCallerAssumption DEF FlightInv, Registered
    <3> QED
      BY <1>1, <1>3, <3>1 DEF RoundOf, Conducting
  <2> QED
    BY <1>1, <2>1 DEF PassedOf
<1>7. PassedOf(key[c]) = proven[c] /\ PassedOf(key[c])' = {}
  BY <1>1, <1>5, NoCallerAssumption DEF PassedOf
<1>8. Oracle!Justified(out[c], proven[c])
  <2>1. out[c] \in Seq(IPs) /\ Len(out[c]) \in Nat
    BY DEF TypeOK
  <2>2. ToSet(out[c]) \subseteq proven[c] /\ (out[c] = <<>> => proven[c] = {})
    BY <1>1 DEF FailClosed
  <2>3. Oracle!Range(out[c]) \subseteq proven[c]
    BY <2>1, <2>2 DEF Oracle!Range, ToSet
  <2>4. IsInjective(out[c]) /\ Len(out[c]) <= MaxHints + 1
    <3>1. IsInjective(out[c]) /\ Len(out[c]) <= MaxHints + (IF poolFirst[c] THEN 1 ELSE 0)
      BY <1>3 DEF FlightBounded
    <3> QED
      BY <2>1, <3>1, MaxHintsAssumption
  <2>5. Oracle!IsInjective(out[c])
    BY <2>4 DEF Oracle!IsInjective, IsInjective
  <2> QED
    BY <2>2, <2>3, <2>4, <2>5 DEF Oracle!Justified
<1>9. out[c] \in Oracle!Lists
  <2>1. Len(out[c]) \in 0 .. (MaxHints + 1)
    <3>1. Len(out[c]) <= MaxHints + (IF poolFirst[c] THEN 1 ELSE 0)
      BY <1>3 DEF FlightBounded
    <3>2. Len(out[c]) \in Nat
      BY DEF TypeOK
    <3> QED
      BY <3>1, <3>2, MaxHintsAssumption
  <2>2. out[c] \in [1 .. Len(out[c]) -> IPs]
    BY DEF TypeOK
  <2> QED
    BY <2>1, <2>2 DEF Oracle!Lists
<1>10. [k \in Keys |-> RoundOf(k)]' = [[k \in Keys |-> RoundOf(k)] EXCEPT ![key[c]] = NoCaller]
  BY <1>1, <1>5, <1>6
<1>11. [k \in Keys |-> PassedOf(k)]' = [[k \in Keys |-> PassedOf(k)] EXCEPT ![key[c]] = {}]
  BY <1>1, <1>6, <1>7
<1>12. [d \in Callers |-> StatusOf(d)]' = [[d \in Callers |-> StatusOf(d)] EXCEPT ![c] = "answered"]
  BY <1>2
<1>13. Told(e) = Oracle!Answer(out[c])
  BY DEF Told, Oracle!Answer
<1>14. /\ [d \in Callers |-> Told(result[d])]'
             = [[d \in Callers |-> Told(result[d])] EXCEPT ![c] = Told(e)]
       /\ [k \in Keys |-> Told(forcedHintCache[k])]'
             = [[k \in Keys |-> Told(forcedHintCache[k])] EXCEPT ![key[c]] = Told(e)]
  <2> HIDE DEF e
  <2> QED
    BY <1>1 DEF TypeOK
<1>15. ~ Told(forcedHintCache[key[c]]).known
  BY <1>4 DEF Told
<1>16. Oracle!Conclude(c, out[c])
  <2> HIDE DEF e
  <2> QED
    BY <1>1, <1>2, <1>5, <1>7, <1>8, <1>10, <1>11, <1>12, <1>13, <1>14, <1>15 DEF Oracle!Conclude
<1> QED
  BY <1>9, <1>16

LEMMA ReturnImage ==
    ASSUME TypeOK, FlightInv, NEW c \in Callers, Return(c)
    PROVE  Oracle!Leave(c)
<1>1. /\ pc[c] = "return" /\ pc' = [pc EXCEPT ![c] = "idle"]
      /\ result' = [result EXCEPT ![c] = NoEntry]
      /\ proven' = [proven EXCEPT ![c] = {}]
      /\ UNCHANGED <<key, forcedHintCache, forcedHintFlight>>
  BY DEF Return, GoTo, hintVars
<1>0. pc[c] \notin Flying /\ \A d \in Callers : pc'[d] \in Flying <=> pc[d] \in Flying
  BY <1>1, OneMoves, FlyingLabels
<1>2. /\ \A d \in Callers \ {c} : StatusOf(d)' = StatusOf(d)
      /\ StatusOf(c) = "answered" /\ StatusOf(c)' = "idle"
  BY <1>1, OneMoves DEF StatusOf
<1>3. \A k \in Keys : RoundOf(k)' = RoundOf(k)
  <2>1. ASSUME NEW k \in Keys PROVE RoundOf(k)' = RoundOf(k)
    BY <1>0, <1>1 DEF RoundOf, Conducting
  <2> QED
    BY <2>1
<1>4. \A k \in Keys : PassedOf(k)' = PassedOf(k)
  <2>1. ASSUME NEW k \in Keys PROVE PassedOf(k)' = PassedOf(k)
    <3>1. RoundOf(k) = NoCaller \/ RoundOf(k) \in Callers \ {c}
      BY <1>0, Conductor DEF TypeOK
    <3> QED
      BY <1>1, <1>3, <3>1 DEF PassedOf, TypeOK
  <2> QED
    BY <2>1
<1>5. [d \in Callers |-> StatusOf(d)]' = [[d \in Callers |-> StatusOf(d)] EXCEPT ![c] = "idle"]
  BY <1>2
<1>6. [d \in Callers |-> Told(result[d])]'
        = [[d \in Callers |-> Told(result[d])] EXCEPT ![c] = Told(NoEntry)]
  BY <1>1 DEF TypeOK
<1>7. Told(NoEntry) = Oracle!Unknown
  BY DEF Told, NoEntry, Oracle!Unknown
<1>8. [k \in Keys |-> Told(forcedHintCache[k])]' = [k \in Keys |-> Told(forcedHintCache[k])]
  BY <1>1
<1> QED
  BY <1>1, <1>2, <1>3, <1>4, <1>5, <1>6, <1>7, <1>8 DEF Oracle!Leave

LEMMA ExpireImage ==
    ASSUME TypeOK, NEW k \in Keys, ExpireHint(k)
    PROVE  Oracle!Lapse(k)
<1>1. /\ forcedHintCache[k].fresh
      /\ forcedHintCache' = [forcedHintCache EXCEPT ![k] = NoEntry]
      /\ UNCHANGED <<pc, key, result, proven, forcedHintFlight>>
  BY DEF ExpireHint, callVars, flightVars
<1>2. \A j \in Keys : RoundOf(j)' = RoundOf(j) /\ PassedOf(j)' = PassedOf(j)
  BY <1>1, RoundsStay
<1>3. \A d \in Callers : StatusOf(d)' = StatusOf(d)
  BY <1>1 DEF StatusOf
<1>4. [j \in Keys |-> Told(forcedHintCache[j])]'
        = [[j \in Keys |-> Told(forcedHintCache[j])] EXCEPT ![k] = Told(NoEntry)]
  BY <1>1 DEF TypeOK
<1>5. Told(NoEntry) = Oracle!Unknown
  BY DEF Told, NoEntry, Oracle!Unknown
<1>6. Told(forcedHintCache[k]).known
  BY <1>1 DEF Told
<1>7. [d \in Callers |-> Told(result[d])]' = [d \in Callers |-> Told(result[d])]
  BY <1>1
<1> QED
  BY <1>1, <1>2, <1>3, <1>4, <1>5, <1>6, <1>7 DEF Oracle!Lapse

\* Waiting, leaving the flight table, waking, and what touches verdicts only.
LEMMA HiddenImage ==
    ASSUME TypeOK, FlightInv,
           \/ \E c \in Callers : Join(c) \/ Unmap(c) \/ WgDone(c)
           \/ \E k \in Keys, ip \in IPs :
                 \/ AgeVerdict(k, ip) \/ StrayVerdict(k, ip)
                 \/ \E v \in {"ok", "bad"} : MergeVerdict(k, ip, v)
           \/ UNCHANGED vars
    PROVE  UNCHANGED Oracle!vars
<1>1. CASE \E c \in Callers : Join(c)
  <2>1. PICK c \in Callers : Join(c)
    BY <1>1
  <2>2. /\ pc[c] = "lookup" /\ pc' = [pc EXCEPT ![c] = "wait"]
        /\ UNCHANGED <<key, result, proven, forcedHintCache, forcedHintFlight>>
    BY <2>1 DEF Join, GoTo, flightVars, hintVars
  <2>3. /\ \A d \in Callers : StatusOf(d)' = StatusOf(d)
        /\ \A d \in Callers : pc'[d] \in Flying <=> pc[d] \in Flying
    BY <2>2, OneMoves, FlyingLabels DEF StatusOf
  <2> QED
    BY <2>2, <2>3, RoundsStay, Unseen
<1>2. CASE \E c \in Callers : Unmap(c)
  <2>1. PICK c \in Callers : Unmap(c)
    BY <1>2
  <2>2. /\ pc[c] = "unmap" /\ pc' = [pc EXCEPT ![c] = "done"]
        /\ forcedHintFlight' = [forcedHintFlight EXCEPT ![key[c]] = NoCaller]
        /\ UNCHANGED <<key, result, proven, forcedHintCache>> /\ key[c] \in Keys
    BY <2>1 DEF TypeOK, Unmap, GoTo, callVars, flightVars
  <2>3. /\ \A d \in Callers : StatusOf(d)' = StatusOf(d)
        /\ \A d \in Callers : pc'[d] \in Flying <=> pc[d] \in Flying
        /\ pc[c] \notin Flying
    BY <2>2, OneMoves, FlyingLabels DEF StatusOf
  <2>4. forcedHintFlight[key[c]] = c
    BY <2>2, FlyingLabels DEF FlightInv, SingleFlight
  <2>5. \A k \in Keys : RoundOf(k)' = RoundOf(k)
    <3>1. ASSUME NEW k \in Keys PROVE RoundOf(k)' = RoundOf(k)
      <4>1. CASE k = key[c]
        <5>1. forcedHintFlight'[k] = NoCaller
          BY <2>2, <4>1 DEF TypeOK
        <5>2. RoundOf(k)' = NoCaller
          BY <5>1 DEF RoundOf, Conducting
        <5>3. RoundOf(k) = NoCaller
          BY <2>3, <2>4, <4>1, Conductor
        <5> QED
          BY <5>2, <5>3
      <4>2. CASE k # key[c]
        <5>1. forcedHintFlight'[k] = forcedHintFlight[k]
          BY <2>2, <4>2 DEF TypeOK
        <5> QED
          BY <2>3, <5>1 DEF RoundOf, Conducting
      <4> QED
        BY <4>1, <4>2
    <3> QED
      BY <3>1
  <2>6. \A k \in Keys : PassedOf(k)' = PassedOf(k)
    BY <2>2, <2>5 DEF PassedOf
  <2> QED
    BY <2>2, <2>3, <2>5, <2>6, Unseen
<1>3. CASE \E c \in Callers : WgDone(c)
  <2>1. UNCHANGED <<key, result, proven, forcedHintCache, forcedHintFlight>>
    BY <1>3 DEF WgDone, flightVars, hintVars
  <2>2. \A d \in Callers : \/ pc'[d] = pc[d]
                           \/ pc[d] = "done" /\ pc'[d] = "return"
                           \/ pc[d] = "wait" /\ pc'[d] = "lookup"
    BY <1>3 DEF TypeOK, WgDone
  <2>3. \A d \in Callers : StatusOf(d)' = StatusOf(d)
    <3>1. ASSUME NEW d \in Callers PROVE StatusOf(d)' = StatusOf(d)
      BY <2>2 DEF StatusOf
    <3> QED
      BY <3>1
  <2>4. \A d \in Callers : pc'[d] \in Flying <=> pc[d] \in Flying
    BY <2>2, FlyingLabels
  <2> QED
    BY <2>1, <2>3, <2>4, RoundsStay, Unseen
<1>4. CASE \/ \E k \in Keys, ip \in IPs :
                \/ AgeVerdict(k, ip) \/ StrayVerdict(k, ip)
                \/ \E v \in {"ok", "bad"} : MergeVerdict(k, ip, v)
           \/ UNCHANGED vars
  <2>1. UNCHANGED <<pc, key, result, proven, forcedHintCache, forcedHintFlight>>
    BY <1>4 DEF AgeVerdict, StrayVerdict, MergeVerdict, vars, callVars, flightVars, hintVars
  <2>2. \A d \in Callers : StatusOf(d)' = StatusOf(d)
    BY <2>1 DEF StatusOf
  <2> QED
    BY <2>1, <2>2, RoundsStay, Unseen
<1> QED
  BY <1>1, <1>2, <1>3, <1>4

LEMMA InitImage == Init => Oracle!Init
<1> SUFFICES ASSUME Init PROVE Oracle!Init
  OBVIOUS
<1>1. \A c \in Callers : StatusOf(c) = "idle"
  BY DEF Init, StatusOf
<1>2. \A k \in Keys : RoundOf(k) = NoCaller
  BY FlyingLabels DEF Init, RoundOf, Conducting
<1>3. \A k \in Keys : PassedOf(k) = {}
  BY <1>2 DEF PassedOf
<1>4. Told(NoEntry) = Oracle!Unknown
  BY DEF Told, NoEntry, Oracle!Unknown
<1>5. /\ \A c \in Callers : Told(result[c]) = Oracle!Unknown
      /\ \A k \in Keys : Told(forcedHintCache[k]) = Oracle!Unknown
  BY <1>4 DEF Init
<1>6. key \in [Callers -> Keys]
  BY DEF Init
<1> QED
  BY <1>1, <1>2, <1>3, <1>5, <1>6 DEF Oracle!Init

-----------------------------------------------------------------------------

\* The hint service keeps what HintOracle promises, for any number of callers,
\* domains and addresses: who asks is told the live answer or conducts the one
\* round, an answer is made of what passed in it and is never replaced.
THEOREM HintsKeepPromise == Spec => ImplementsOracleSafely
<1>1. Init => Oracle!Init
  BY InitImage
<1>2. TypeOK /\ TypeOK' /\ FlightInv /\ Untested /\ FailClosed /\ FlightBounded /\ [Next]_vars
        => [Oracle!Next]_(Oracle!vars)
  <2> SUFFICES ASSUME TypeOK, TypeOK', FlightInv, Untested, FailClosed, FlightBounded,
                      [Next]_vars
               PROVE  [Oracle!Next]_(Oracle!vars)
    OBVIOUS
  <2>1. ASSUME NEW c \in Callers, LookupOfficial(c) \/ Collect(c) \/ Assemble(c)
        PROVE  [Oracle!Next]_(Oracle!vars)
    BY <2>1, CollectImage
  <2>2. ASSUME NEW c \in Callers, Call(c) \/ Hit(c) \/ Register(c) \/ Publish(c) \/ Return(c)
        PROVE  Oracle!Next
    BY <2>2, CallImage, HitImage, RegisterImage, PublishImage, ReturnImage
       DEF Oracle!Next, Oracle!Serve
  <2>3. ASSUME NEW k \in Keys, ExpireHint(k) PROVE Oracle!Next
    BY <2>3, ExpireImage DEF Oracle!Next
  <2>4. ASSUME NEW c \in Callers, Join(c) \/ Unmap(c) \/ WgDone(c) PROVE UNCHANGED Oracle!vars
    BY <2>4, HiddenImage
  <2>5. ASSUME NEW k \in Keys, NEW ip \in IPs,
               \/ AgeVerdict(k, ip) \/ StrayVerdict(k, ip)
               \/ \E v \in {"ok", "bad"} : MergeVerdict(k, ip, v)
        PROVE  UNCHANGED Oracle!vars
    BY <2>5, HiddenImage
  <2>6. CASE UNCHANGED vars
    BY <2>6, HiddenImage
  <2> QED
    BY <2>1, <2>2, <2>3, <2>4, <2>5, <2>6 DEF Next, Step, Environment
<1> QED
  BY <1>1, <1>2, TypeCorrect, FlightInvariant, UntestedInvariant, AnswersArePassed,
     AnswersAreBounded, PTL DEF Spec, ImplementsOracleSafely, Oracle!Spec

-----------------------------------------------------------------------------
(* What callers are told, out of a flight of their own or out of the cache. *)

\* An answer without repetitions and within the bound.
Proper(e) == e.fresh => IsInjective(e.ips) /\ Len(e.ips) <= MaxHints + 1

\* Whoever returns has such an answer, and the cache holds no other.
AnswersProper ==
    /\ \A k \in Keys : Proper(forcedHintCache[k])
    /\ \A c \in Callers : /\ Proper(result[c])
                          /\ pc[c] \in {"unmap", "done", "return"} => result[c].fresh

LEMMA CollectProper ==
    ASSUME TypeOK, Untested, AnswersProper, NEW c \in Callers,
           LookupOfficial(c) \/ Collect(c) \/ Assemble(c)
    PROVE  AnswersProper'
<1>1. Quiet(c) /\ UNCHANGED result
  BY CollectIsQuiet, CollectPasses
<1>2. \A d \in Callers : pc'[d] \in {"unmap", "done", "return"} => pc'[d] = pc[d]
  BY <1>1, FlyingLabels DEF Quiet, TypeOK
<1> QED
  BY <1>1, <1>2 DEF AnswersProper, Quiet, Proper

\* Only Hit and Publish give a caller an answer.
LEMMA TellProper ==
    ASSUME TypeOK, FlightBounded, AnswersProper, NEW c \in Callers, Hit(c) \/ Publish(c)
    PROVE  AnswersProper'
<1>1. CASE Hit(c)
  <2>1. /\ \A d \in Callers : /\ result'[d] = IF d = c THEN forcedHintCache[key[c]] ELSE result[d]
                              /\ pc'[d] = IF d = c THEN "return" ELSE pc[d]
        /\ UNCHANGED forcedHintCache /\ forcedHintCache[key[c]].fresh /\ key[c] \in Keys
    BY <1>1 DEF Hit, GoTo, hintVars, TypeOK
  <2> QED
    BY <2>1 DEF AnswersProper, Proper
<1>2. CASE Publish(c)
  <2> DEFINE e == [ips |-> out[c], fresh |-> TRUE]
  <2>1. /\ \A k \in Keys : forcedHintCache'[k] = IF k = key[c] THEN e ELSE forcedHintCache[k]
        /\ \A d \in Callers : /\ result'[d] = IF d = c THEN e ELSE result[d]
                              /\ pc'[d] = IF d = c THEN "unmap" ELSE pc[d]
    BY <1>2 DEF Publish, GoTo, TypeOK
  <2>2. pc[c] \in Owning
    BY <1>2, FlyingLabels DEF Publish
  <2>3. IsInjective(out[c]) /\ Len(out[c]) <= MaxHints + 1
    <3>1. Len(out[c]) \in Nat
      BY DEF TypeOK
    <3> QED
      BY <2>2, <3>1, MaxHintsAssumption DEF FlightBounded
  <2>4. Proper(e) /\ e.fresh
    BY <2>3 DEF Proper
  <2> HIDE DEF e
  <2> QED
    BY <2>1, <2>4 DEF AnswersProper, Proper
<1> QED
  BY <1>1, <1>2

\* Through every source, every order of merging and the cache, for the prober and
\* for those who waited: a returning caller has an answer, it repeats no address,
\* and it has max + 1 of them at most (forcedHintIPsOpt, 995 and 1163-1189).
THEOREM CallersGetProperAnswers == Spec => []AnswersProper
<1>1. Init => AnswersProper
  BY DEF Init, AnswersProper, Proper, NoEntry
<1>2. TypeOK /\ Untested /\ FlightBounded /\ AnswersProper /\ [Next]_vars => AnswersProper'
  <2> SUFFICES ASSUME TypeOK, Untested, FlightBounded, AnswersProper, [Next]_vars
               PROVE  AnswersProper'
    OBVIOUS
  <2>1. ASSUME NEW c \in Callers, Call(c) \/ Join(c) \/ Register(c) PROVE AnswersProper'
    <3>1. UNCHANGED <<result, forcedHintCache>>
      BY <2>1 DEF Call, Join, Register, callVars, hintVars
    <3>2. \A d \in Callers : pc'[d] \in {"unmap", "done", "return"} => pc'[d] = pc[d]
      BY <2>1 DEF Call, Join, Register, GoTo, TypeOK
    <3> QED
      BY <3>1, <3>2 DEF AnswersProper, Proper
  <2>2. ASSUME NEW c \in Callers, Unmap(c) \/ WgDone(c) PROVE AnswersProper'
    <3>1. UNCHANGED <<result, forcedHintCache>>
      BY <2>2 DEF Unmap, WgDone, callVars, hintVars
    <3>2. \A d \in Callers : pc'[d] \in {"unmap", "done", "return"} =>
            pc[d] \in {"unmap", "done", "return"}
      BY <2>2 DEF Unmap, WgDone, GoTo, TypeOK
    <3> QED
      BY <3>1, <3>2 DEF AnswersProper, Proper
  <2>3. ASSUME NEW c \in Callers, Return(c) PROVE AnswersProper'
    <3>1. /\ \A d \in Callers : /\ result'[d] = IF d = c THEN NoEntry ELSE result[d]
                                /\ pc'[d] = IF d = c THEN "idle" ELSE pc[d]
          /\ UNCHANGED forcedHintCache
      BY <2>3 DEF Return, GoTo, hintVars, TypeOK
    <3> QED
      BY <3>1 DEF AnswersProper, Proper, NoEntry
  <2>4. ASSUME NEW k \in Keys, ExpireHint(k) PROVE AnswersProper'
    <3>1. /\ \A j \in Keys : forcedHintCache'[j] = IF j = k THEN NoEntry ELSE forcedHintCache[j]
          /\ UNCHANGED <<pc, result>>
      BY <2>4 DEF ExpireHint, callVars, TypeOK
    <3> QED
      BY <3>1 DEF AnswersProper, Proper, NoEntry
  <2>5. CASE UNCHANGED <<pc, result, forcedHintCache>>
    BY <2>5 DEF AnswersProper, Proper
  <2>6. ASSUME NEW k \in Keys, NEW ip \in IPs,
               \/ AgeVerdict(k, ip) \/ StrayVerdict(k, ip)
               \/ \E v \in {"ok", "bad"} : MergeVerdict(k, ip, v)
        PROVE  UNCHANGED <<pc, result, forcedHintCache>>
    BY <2>6 DEF AgeVerdict, StrayVerdict, MergeVerdict, callVars, hintVars
  <2>7. CASE UNCHANGED vars
    BY <2>5, <2>7 DEF vars, callVars, hintVars
  <2> QED
    BY <2>1, <2>2, <2>3, <2>4, <2>5, <2>6, <2>7, CollectProper, TellProper
       DEF Next, Step, Environment
<1> QED
  BY <1>1, <1>2, TypeCorrect, UntestedInvariant, AnswersAreBounded, PTL DEF Spec
=============================================================================
