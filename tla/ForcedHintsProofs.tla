--------------------------- MODULE ForcedHintsProofs ---------------------------
(***************************************************************************)
(* Theorems about ForcedHints, for every value of its constants: its types,*)
(* its single flight - who may probe a domain and who waits for whom, from *)
(* the inductive invariant FlightInv - and its answers, for any sources    *)
(* and limits, from AnswerInv.                                             *)
(***************************************************************************)
EXTENDS ForcedHints, TLAPS, SequenceTheorems

\* The first n elements of a longer sequence are a sequence of such elements.
LEMMA PrefixType ==
    ASSUME NEW S, NEW s \in Seq(S), NEW n \in Nat, n <= Len(s)
    PROVE  /\ SubSeq(s, 1, n) \in Seq(S)
           /\ Len(SubSeq(s, 1, n)) = n
           /\ \A i \in 1 .. n : SubSeq(s, 1, n)[i] = s[i]
  OBVIOUS

LEMMA LabelNames ==
    /\ Labels = {"idle", "lookup", "wait", "done", "return", "unmap", "publish",
                 "lookupOfficial", "probePool", "probeOfficial", "sample", "probeReach",
                 "takeFirst", "takeOfficial", "takeReach", "takeAgain", "takeSpare"}
    /\ Taking \subseteq Labels
  BY DEF Labels, Owning, Flying, Probing, Taking

\* The elements of a sequence over S are in S.
LEMMA ToSetType ==
    ASSUME NEW S, NEW s \in Seq(S)
    PROVE  ToSet(s) \subseteq S
  BY DEF ToSet

\* A probe leaves the verdict cache well typed.
LEMMA HandshakeType ==
    ASSUME TypeOK, NEW k \in Keys, NEW ip \in IPs, NEW passed \in BOOLEAN,
           Handshake(k, ip, passed) \/ PoolCheck(k, ip, passed)
    PROVE  echTestCache' \in [Keys -> [IPs -> Verdicts]]
  <1>1. \/ UNCHANGED echTestCache
        \/ \E v \in Verdicts : echTestCache' = [echTestCache EXCEPT ![k][ip] = v]
    BY DEF Handshake, PoolCheck, Verdicts
  <1>2. echTestCache \in [Keys -> [IPs -> Verdicts]]
    BY DEF TypeOK
  <1> QED
    BY <1>1, <1>2

\* Type correctness of the forced-hint service.
THEOREM TypeCorrect == Spec => []TypeOK
  <1>1. Init => TypeOK
    <2> SUFFICES ASSUME Init PROVE TypeOK
      OBVIOUS
    <2>1. NoEntry \in Entry
      BY DEF NoEntry, Entry
    <2> QED
      BY <2>1, BoundAssumption DEF Init, TypeOK, Verdicts, Labels, Owning, Flying, Probing, Taking
  <1>2. TypeOK /\ [Next]_vars => TypeOK'
    <2> SUFFICES ASSUME TypeOK, [Next]_vars PROVE TypeOK'
      OBVIOUS
    <2>1. ASSUME NEW c \in Callers, Call(c) PROVE TypeOK'
      BY <2>1, LabelNames, AddressAssumption DEF TypeOK, Call, GoTo, callVars, flightVars, hintVars, probeVars
    <2>2. ASSUME NEW c \in Callers, Hit(c) PROVE TypeOK'
      BY <2>2, LabelNames DEF TypeOK, Hit, GoTo, callVars, flightVars, hintVars, probeVars
    <2>3. ASSUME NEW c \in Callers, Join(c) PROVE TypeOK'
      BY <2>3, LabelNames DEF TypeOK, Join, GoTo, callVars, flightVars, hintVars, probeVars
    <2>4. ASSUME NEW c \in Callers, Register(c) PROVE TypeOK'
      BY <2>4, LabelNames DEF TypeOK, Register, GoTo, callVars, flightVars, hintVars, probeVars
    <2>5. ASSUME NEW c \in Callers, LookupOfficial(c) PROVE TypeOK'
      BY <2>5, LabelNames, AddressAssumption DEF TypeOK, LookupOfficial, GoTo, callVars, flightVars, hintVars, probeVars
    <2>6. ASSUME NEW c \in Callers, PoolVerdict(c) PROVE TypeOK'
      <3>1. PICK ip \in pending[c], passed \in BOOLEAN :
              /\ PoolCheck(key[c], ip, passed)
              /\ pending' = [pending EXCEPT ![c] = @ \ {ip}]
              /\ poolOut' = IF passed THEN [poolOut EXCEPT ![c] = Append(@, ip)]
                            ELSE poolOut
              /\ Prove(c, ip, passed)
        BY <2>6 DEF PoolVerdict
      <3>2. ip \in IPs /\ key[c] \in Keys
        BY DEF TypeOK
      <3>3. echTestCache' \in [Keys -> [IPs -> Verdicts]]
        BY <3>1, <3>2, HandshakeType
      <3> QED
        BY <2>6, <3>1, <3>2, <3>3 DEF TypeOK, PoolVerdict, Prove, callVars, flightVars, hintVars, probeVars
    <2>7. ASSUME NEW c \in Callers, PoolDone(c) PROVE TypeOK'
      BY <2>7, LabelNames DEF TypeOK, PoolDone, GoTo, callVars, flightVars, hintVars, probeVars
    <2>8. ASSUME NEW c \in Callers, OfficialVerdict(c) PROVE TypeOK'
      BY <2>8, LabelNames DEF TypeOK, OfficialVerdict, GoTo, Handshake, Prove, Verdicts, Fresh, callVars, flightVars, hintVars, probeVars
    <2>9. ASSUME NEW c \in Callers, OfficialDone(c) PROVE TypeOK'
      <3>0. UNCHANGED <<callVars, official, poolOut, accepted, out, proven,
                        hintVars, probeVars, elapsed>>
        BY <2>9 DEF OfficialDone
      <3>1. CASE Len(accepted[c]) \in 1 .. (MaxHints - 1)
        <4>1. accepted[c][1] \in IPs
          BY <3>1 DEF TypeOK
        <4>2. Subnet[accepted[c][1]] \subseteq IPs
          BY <4>1, AddressAssumption
        <4>3. /\ pending' \in [Callers -> SUBSET IPs]
              /\ GoTo(c, "sample")
              /\ UNCHANGED todo
          <5>1. PICK drawn \in SUBSET (Subnet[accepted[c][1]] \ ToSet(accepted[c])) :
                  pending' = [pending EXCEPT ![c] = drawn]
            BY <2>9, <3>1 DEF OfficialDone
          <5>2. drawn \in SUBSET IPs /\ pending \in [Callers -> SUBSET IPs]
            BY <4>2, <5>1 DEF TypeOK
          <5>3. pending' \in [Callers -> SUBSET IPs]
            BY <5>1, <5>2
          <5> QED
            BY <2>9, <3>1, <5>3 DEF OfficialDone
        <4> QED
          BY <3>0, <4>3, LabelNames DEF TypeOK, GoTo, callVars, flightVars, hintVars, probeVars
      <3>2. CASE Len(accepted[c]) \notin 1 .. (MaxHints - 1)
        <4>1. IF Len(accepted[c]) > MaxHints
              THEN SubSeq(accepted[c], 1, MaxHints) \in Seq(IPs)
              ELSE accepted[c] \in Seq(IPs)
          BY PrefixType, MaxHintsAssumption DEF TypeOK
        <4>2. /\ todo' \in [Callers -> Seq(IPs)]
              /\ GoTo(c, "takeOfficial")
              /\ UNCHANGED pending
          BY <2>9, <3>2, <4>1 DEF TypeOK, OfficialDone
        <4> QED
          BY <3>0, <4>2, LabelNames DEF TypeOK, GoTo, callVars, flightVars, hintVars, probeVars
      <3> QED
        BY <3>1, <3>2
    <2>10. ASSUME NEW c \in Callers, SampleVerdict(c) PROVE TypeOK'
      <3>1. PICK ip \in pending[c], passed \in BOOLEAN :
              /\ Handshake(key[c], ip, passed)
              /\ Prove(c, ip, passed)
              /\ IF passed
                 THEN /\ accepted' = [accepted EXCEPT ![c] = Append(@, ip)]
                      /\ todo' = [todo EXCEPT ![c] = Append(accepted[c], ip)]
                      /\ Abandon(c, pending[c] \ {ip})
                      /\ GoTo(c, "takeOfficial")
                 ELSE /\ pending' = [pending EXCEPT ![c] = @ \ {ip}]
                      /\ UNCHANGED <<pc, accepted, todo, stray>>
        BY <2>10 DEF SampleVerdict
      <3>0. UNCHANGED <<callVars, official, poolOut, out, hintVars, elapsed>>
        BY <2>10 DEF SampleVerdict
      <3>2. ip \in IPs /\ key[c] \in Keys
        BY DEF TypeOK
      <3>3. echTestCache' \in [Keys -> [IPs -> Verdicts]]
        BY <3>1, <3>2, HandshakeType
      <3>4. /\ proven' \in [Callers -> SUBSET IPs]
            /\ pending' \in [Callers -> SUBSET IPs]
            /\ stray' \in SUBSET (Keys \X IPs)
        <4>1. /\ proven \in [Callers -> SUBSET IPs]
              /\ pending \in [Callers -> SUBSET IPs]
              /\ stray \in SUBSET (Keys \X IPs)
          BY DEF TypeOK
        <4>2. \/ pending' = [pending EXCEPT ![c] = {}]
              \/ pending' = [pending EXCEPT ![c] = pending[c] \ {ip}]
          BY <3>1 DEF Abandon
        <4>3. \/ UNCHANGED stray
              \/ stray' = stray \cup ({key[c]} \X (pending[c] \ {ip}))
          BY <3>1 DEF Abandon
        <4>4. UNCHANGED proven \/ proven' = [proven EXCEPT ![c] = proven[c] \cup {ip}]
          BY <3>1 DEF Prove
        <4>5. pending' \in [Callers -> SUBSET IPs]
          BY <4>1, <4>2
        <4>6. stray' \in SUBSET (Keys \X IPs)
          BY <3>2, <4>1, <4>3
        <4>7. proven' \in [Callers -> SUBSET IPs]
          BY <3>2, <4>1, <4>4
        <4> QED
          BY <4>5, <4>6, <4>7
      <3>5. /\ accepted' \in [Callers -> Seq(IPs)]
            /\ todo' \in [Callers -> Seq(IPs)]
            /\ pc' \in [Callers -> Labels]
        <4>1. /\ accepted \in [Callers -> Seq(IPs)]
              /\ todo \in [Callers -> Seq(IPs)]
              /\ pc \in [Callers -> Labels]
          BY DEF TypeOK
        <4>2. /\ UNCHANGED pc \/ pc' = [pc EXCEPT ![c] = "takeOfficial"]
              /\ UNCHANGED todo \/ todo' = [todo EXCEPT ![c] = Append(accepted[c], ip)]
              /\ UNCHANGED accepted
                 \/ accepted' = [accepted EXCEPT ![c] = Append(accepted[c], ip)]
          BY <3>0, <3>1 DEF GoTo
        <4>3. pc' \in [Callers -> Labels]
          BY <4>1, <4>2, LabelNames
        <4>0. Append(accepted[c], ip) \in Seq(IPs) /\ <<ip>> \in Seq(IPs)
          BY <3>2, <4>1
        <4>4. todo' \in [Callers -> Seq(IPs)]
          BY <4>1, <4>2, <4>0
        <4>5. accepted' \in [Callers -> Seq(IPs)]
          BY <4>1, <4>2, <4>0
        <4> QED
          BY <4>3, <4>4, <4>5
      <3> QED
        BY <3>0, <3>3, <3>4, <3>5 DEF TypeOK, callVars, flightVars, hintVars, probeVars
    <2>11. ASSUME NEW c \in Callers, SampleDone(c) PROVE TypeOK'
      BY <2>11, LabelNames DEF TypeOK, SampleDone, GoTo, callVars, flightVars, hintVars, probeVars
    <2>12. ASSUME NEW c \in Callers, ReachVerdict(c) PROVE TypeOK'
      <3>1. PICK ip \in pending[c], passed \in BOOLEAN :
              /\ Handshake(key[c], ip, passed)
              /\ Prove(c, ip, passed)
              /\ IF passed
                 THEN /\ todo' = [todo EXCEPT ![c] = <<ip>>]
                      /\ Abandon(c, pending[c] \ {ip})
                      /\ GoTo(c, "takeReach")
                 ELSE /\ pending' = [pending EXCEPT ![c] = @ \ {ip}]
                      /\ UNCHANGED <<pc, todo, stray>>
        BY <2>12 DEF ReachVerdict
      <3>0. UNCHANGED <<callVars, official, poolOut, accepted, out, hintVars, elapsed>>
        BY <2>12 DEF ReachVerdict
      <3>2. ip \in IPs /\ key[c] \in Keys
        BY DEF TypeOK
      <3>3. echTestCache' \in [Keys -> [IPs -> Verdicts]]
        BY <3>1, <3>2, HandshakeType
      <3>4. /\ proven' \in [Callers -> SUBSET IPs]
            /\ pending' \in [Callers -> SUBSET IPs]
            /\ stray' \in SUBSET (Keys \X IPs)
        <4>1. /\ proven \in [Callers -> SUBSET IPs]
              /\ pending \in [Callers -> SUBSET IPs]
              /\ stray \in SUBSET (Keys \X IPs)
          BY DEF TypeOK
        <4>2. \/ pending' = [pending EXCEPT ![c] = {}]
              \/ pending' = [pending EXCEPT ![c] = pending[c] \ {ip}]
          BY <3>1 DEF Abandon
        <4>3. \/ UNCHANGED stray
              \/ stray' = stray \cup ({key[c]} \X (pending[c] \ {ip}))
          BY <3>1 DEF Abandon
        <4>4. UNCHANGED proven \/ proven' = [proven EXCEPT ![c] = proven[c] \cup {ip}]
          BY <3>1 DEF Prove
        <4>5. pending' \in [Callers -> SUBSET IPs]
          BY <4>1, <4>2
        <4>6. stray' \in SUBSET (Keys \X IPs)
          BY <3>2, <4>1, <4>3
        <4>7. proven' \in [Callers -> SUBSET IPs]
          BY <3>2, <4>1, <4>4
        <4> QED
          BY <4>5, <4>6, <4>7
      <3>5. /\ accepted' \in [Callers -> Seq(IPs)]
            /\ todo' \in [Callers -> Seq(IPs)]
            /\ pc' \in [Callers -> Labels]
        <4>1. /\ accepted \in [Callers -> Seq(IPs)]
              /\ todo \in [Callers -> Seq(IPs)]
              /\ pc \in [Callers -> Labels]
          BY DEF TypeOK
        <4>2. /\ UNCHANGED pc \/ pc' = [pc EXCEPT ![c] = "takeReach"]
              /\ UNCHANGED todo \/ todo' = [todo EXCEPT ![c] = <<ip>>]
              /\ UNCHANGED accepted
                 \/ accepted' = [accepted EXCEPT ![c] = Append(accepted[c], ip)]
          BY <3>0, <3>1 DEF GoTo
        <4>3. pc' \in [Callers -> Labels]
          BY <4>1, <4>2, LabelNames
        <4>0. Append(accepted[c], ip) \in Seq(IPs) /\ <<ip>> \in Seq(IPs)
          BY <3>2, <4>1
        <4>4. todo' \in [Callers -> Seq(IPs)]
          BY <4>1, <4>2, <4>0
        <4>5. accepted' \in [Callers -> Seq(IPs)]
          BY <4>1, <4>2, <4>0
        <4> QED
          BY <4>3, <4>4, <4>5
      <3> QED
        BY <3>0, <3>3, <3>4, <3>5 DEF TypeOK, callVars, flightVars, hintVars, probeVars
    <2>13. ASSUME NEW c \in Callers, ReachDone(c) PROVE TypeOK'
      BY <2>13, LabelNames DEF TypeOK, ReachDone, GoTo, callVars, flightVars, hintVars, probeVars
    <2>14. ASSUME NEW c \in Callers, TakeNext(c) PROVE TypeOK'
      BY <2>14, LabelNames DEF TypeOK, TakeNext, GoTo, callVars, flightVars, hintVars, probeVars
    <2>15. ASSUME NEW c \in Callers, FirstTaken(c) PROVE TypeOK'
      BY <2>15, LabelNames DEF TypeOK, FirstTaken, GoTo, callVars, flightVars, hintVars, probeVars
    <2>16. ASSUME NEW c \in Callers, OfficialTaken(c) PROVE TypeOK'
      <3>1. pending' \in [Callers -> SUBSET IPs]
        <4>1. pending' = pending \/ pending' = [pending EXCEPT ![c] = Reach]
          BY <2>16 DEF OfficialTaken
        <4> QED
          <5>1. pending \in [Callers -> SUBSET IPs] /\ Reach \in SUBSET IPs
            BY AddressAssumption DEF TypeOK
          <5> QED
            BY <4>1, <5>1
      <3>2. pc' \in [Callers -> Labels]
        BY <2>16, LabelNames DEF TypeOK, OfficialTaken, GoTo
      <3> QED
        BY <2>16, <3>1, <3>2 DEF TypeOK, OfficialTaken, callVars, flightVars, hintVars, probeVars
    <2>17. ASSUME NEW c \in Callers, ReachTaken(c) PROVE TypeOK'
      BY <2>17, LabelNames DEF TypeOK, ReachTaken, GoTo, callVars, flightVars, hintVars, probeVars
    <2>18. ASSUME NEW c \in Callers, AgainTaken(c) PROVE TypeOK'
      BY <2>18, LabelNames DEF TypeOK, AgainTaken, GoTo, callVars, flightVars, hintVars, probeVars
    <2>19. ASSUME NEW c \in Callers, SpareTaken(c) PROVE TypeOK'
      BY <2>19, LabelNames DEF TypeOK, SpareTaken, GoTo, callVars, flightVars, hintVars, probeVars
    <2>20. ASSUME NEW c \in Callers, Publish(c) PROVE TypeOK'
      <3>1. [ips |-> out[c], fresh |-> TRUE] \in Entry
        BY ToSetType DEF TypeOK, Entry
      <3> QED
        BY <2>20, <3>1, LabelNames DEF TypeOK, Publish, GoTo, callVars, flightVars, hintVars, probeVars
    <2>21. ASSUME NEW c \in Callers, Unmap(c) PROVE TypeOK'
      BY <2>21, LabelNames DEF TypeOK, Unmap, GoTo, callVars, flightVars, hintVars, probeVars
    <2>22. ASSUME NEW c \in Callers, WgDone(c) PROVE TypeOK'
      BY <2>22, LabelNames DEF TypeOK, WgDone, GoTo, callVars, flightVars, hintVars, probeVars
    <2>23. ASSUME NEW c \in Callers, Return(c) PROVE TypeOK'
      BY <2>23, LabelNames DEF TypeOK, Return, GoTo, Entry, NoEntry, callVars, flightVars, hintVars, probeVars
    <2>24. ASSUME NEW k \in Keys, ExpireHint(k) PROVE TypeOK'
      BY <2>24, BoundAssumption DEF TypeOK, ExpireHint, Tick, NoEntry, Entry, callVars, flightVars, hintVars, probeVars
    <2>25. ASSUME NEW k \in Keys, NEW ip \in IPs, AgeVerdict(k, ip) PROVE TypeOK'
      BY <2>25, BoundAssumption DEF TypeOK, AgeVerdict, Tick, Verdicts, callVars, flightVars, hintVars, probeVars
    <2>26. ASSUME NEW k \in Keys, NEW ip \in IPs, StrayVerdict(k, ip) PROVE TypeOK'
      <3>1. echTestCache' \in [Keys -> [IPs -> Verdicts]]
        <4>1. CASE UNCHANGED echTestCache
          BY <4>1 DEF TypeOK
        <4>2. CASE \E v \in {"ok", "bad"} : echTestCache' = [echTestCache EXCEPT ![k][ip] = v]
          BY <4>2 DEF TypeOK, Verdicts
        <4> QED
          BY <2>26, <4>1, <4>2 DEF StrayVerdict
      <3> QED
        BY <2>26, <3>1 DEF TypeOK, StrayVerdict, callVars, flightVars, hintVars, probeVars
    <2>27. ASSUME NEW k \in Keys, NEW ip \in IPs, NEW v \in {"ok", "bad"},
                  MergeVerdict(k, ip, v)
           PROVE TypeOK'
      BY <2>27, BoundAssumption DEF TypeOK, MergeVerdict, Tick, Verdicts, callVars, flightVars, hintVars, probeVars
    <2>28. CASE UNCHANGED vars
      BY <2>28 DEF TypeOK, vars, callVars, flightVars, hintVars, probeVars
    <2> QED
      BY <2>1, <2>2, <2>3, <2>4, <2>5, <2>6, <2>7, <2>8, <2>9, <2>10, <2>11, <2>12, <2>13, <2>14, <2>15, <2>16, <2>17, <2>18, <2>19, <2>20, <2>21, <2>22, <2>23, <2>24, <2>25, <2>26, <2>27, <2>28
         DEF Next, Step, Collect, Assemble, Environment
  <1> QED
    BY <1>1, <1>2, PTL DEF Spec

-----------------------------------------------------------------------------
\* The converse of SingleFlight the induction needs: a registered flight has a
\* live owner, working on the domain it is registered for.
Registered ==
    \A k \in Keys : forcedHintFlight[k] # NoCaller =>
        /\ pc[forcedHintFlight[k]] \in Owning
        /\ key[forcedHintFlight[k]] = k

FlightInv ==
    /\ SingleFlight
    /\ Registered
    /\ WaitersHaveOwner
    /\ NoProbeWhileFresh

\* What every step between the registration and the publication has in common.
Quiet(c) ==
    /\ pc[c] \in Flying
    /\ UNCHANGED pc \/ \E l \in Flying : pc' = [pc EXCEPT ![c] = l]
    /\ UNCHANGED <<key, waitsOn, forcedHintCache, forcedHintFlight>>

LEMMA CollectIsQuiet ==
    ASSUME NEW c \in Callers, LookupOfficial(c) \/ Collect(c) \/ Assemble(c)
    PROVE  Quiet(c)
  <1> USE DEF GoTo, Quiet, Flying, Probing, Taking, callVars, hintVars
  <1>1. CASE LookupOfficial(c)
    BY <1>1 DEF LookupOfficial
  <1>2. CASE PoolVerdict(c) \/ PoolDone(c)
    BY <1>2 DEF PoolVerdict, PoolDone
  <1>3. CASE OfficialVerdict(c) \/ SampleDone(c)
    BY <1>3 DEF OfficialVerdict, SampleDone
  <1>4. CASE OfficialDone(c)
    BY <1>4 DEF OfficialDone
  <1>5. CASE SampleVerdict(c)
    BY <1>5 DEF SampleVerdict
  <1>6. CASE ReachVerdict(c)
    BY <1>6 DEF ReachVerdict
  <1>7. CASE ReachDone(c)
    BY <1>7 DEF ReachDone
  <1>8. CASE TakeNext(c)
    BY <1>8 DEF TakeNext
  <1>9. CASE FirstTaken(c) \/ OfficialTaken(c)
    BY <1>9 DEF FirstTaken, OfficialTaken
  <1>10. CASE ReachTaken(c) \/ AgainTaken(c) \/ SpareTaken(c)
    BY <1>10 DEF ReachTaken, AgainTaken, SpareTaken
  <1> QED
    BY <1>1, <1>2, <1>3, <1>4, <1>5, <1>6, <1>7, <1>8, <1>9, <1>10 DEF Collect, Assemble

LEMMA QuietKeepsFlightInv ==
    ASSUME TypeOK, FlightInv, NEW c \in Callers, Quiet(c)
    PROVE  FlightInv'
  <1> USE DEF Quiet, FlightInv
  <1>1. \A d \in Callers : /\ pc'[d] \in Flying <=> pc[d] \in Flying
                           /\ pc'[d] \in Owning <=> pc[d] \in Owning
                           /\ pc'[d] \notin Flying => pc'[d] = pc[d]
    BY DEF TypeOK, Owning
  <1>2. Flying \cap {"wait", "done"} = {}
    BY DEF Flying, Probing, Taking
  <1>3. SingleFlight'
    BY <1>1 DEF SingleFlight
  <1>4. Registered'
    BY <1>1 DEF Registered, TypeOK
  <1>5. WaitersHaveOwner'
    BY <1>1, <1>2 DEF WaitersHaveOwner, TypeOK
  <1>6. NoProbeWhileFresh'
    BY <1>1 DEF NoProbeWhileFresh
  <1> QED
    BY <1>3, <1>4, <1>5, <1>6

LEMMA FlightInvariant == Spec => []FlightInv
  <1>1. Init => FlightInv
    BY NoCallerAssumption DEF Init, FlightInv, SingleFlight, Registered, WaitersHaveOwner,
       NoProbeWhileFresh, NoEntry, Owning, Flying, Probing, Taking
  <1>2. TypeOK /\ TypeOK' /\ FlightInv /\ [Next]_vars => FlightInv'
    <2> SUFFICES ASSUME TypeOK, TypeOK', FlightInv, [Next]_vars PROVE FlightInv'
      OBVIOUS
    <2> USE NoCallerAssumption DEF FlightInv, SingleFlight, Registered, WaitersHaveOwner,
            NoProbeWhileFresh, GoTo, callVars, hintVars
    <2>1. ASSUME NEW c \in Callers, Call(c) PROVE FlightInv'
      BY <2>1 DEF Call, TypeOK, Owning, Flying, Probing, Taking
    <2>2. ASSUME NEW c \in Callers, Hit(c) PROVE FlightInv'
      BY <2>2 DEF Hit, TypeOK, Owning, Flying, Probing, Taking
    <2>3. ASSUME NEW c \in Callers, Join(c) PROVE FlightInv'
      <3>1. SingleFlight'
        BY <2>3 DEF Join, TypeOK, Owning, Flying, Probing, Taking
      <3>2. Registered'
        BY <2>3 DEF Join, TypeOK, Owning, Flying, Probing, Taking
      <3>3. WaitersHaveOwner'
        <4> DEFINE o == forcedHintFlight[key[c]]
        <4>1. o \in Callers /\ pc[o] \in Owning /\ key[o] = key[c]
          BY <2>3 DEF Join, TypeOK
        <4>2. pc[c] \notin Owning \cup {"done", "wait"}
          BY <2>3 DEF Join, Owning, Flying, Probing, Taking
        <4>3. /\ pc' = [pc EXCEPT ![c] = "wait"]
              /\ waitsOn' = [waitsOn EXCEPT ![c] = o]
              /\ UNCHANGED key
          BY <2>3 DEF Join
        <4>4. \A d \in Callers : pc[d] \in Owning \cup {"done"} => pc'[d] = pc[d]
          BY <4>2, <4>3 DEF TypeOK
        <4>5. \A d \in Callers \ {c} : pc'[d] = pc[d] /\ waitsOn'[d] = waitsOn[d]
          BY <4>3 DEF TypeOK
        <4>6. waitsOn'[c] = o
          BY <4>3 DEF TypeOK
        <4> HIDE DEF o
        <4> QED
          BY <4>1, <4>3, <4>4, <4>5, <4>6
      <3>4. NoProbeWhileFresh'
        BY <2>3 DEF Join, TypeOK, Owning, Flying, Probing, Taking
      <3> QED
        BY <3>1, <3>2, <3>3, <3>4
    <2>4. ASSUME NEW c \in Callers, Register(c) PROVE FlightInv'
      <3>1. SingleFlight'
        BY <2>4 DEF Register, TypeOK, Owning, Flying, Probing, Taking
      <3>0. /\ pc[c] = "lookup" /\ pc' = [pc EXCEPT ![c] = "lookupOfficial"]
            /\ forcedHintFlight' = [forcedHintFlight EXCEPT ![key[c]] = c]
            /\ UNCHANGED <<key, waitsOn>>
        BY <2>4 DEF Register
      <3>5. "lookupOfficial" \in Owning /\ "lookup" \notin Owning
        BY DEF Owning, Flying, Probing, Taking
      <3>2. Registered'
        <4>1. pc'[c] \in Owning /\ \A d \in Callers : pc[d] \in Owning => pc'[d] \in Owning
          BY <3>0, <3>5 DEF TypeOK
        <4> SUFFICES ASSUME NEW k \in Keys, forcedHintFlight'[k] # NoCaller
                     PROVE  /\ pc'[forcedHintFlight'[k]] \in Owning
                            /\ key[forcedHintFlight'[k]] = k
          BY <3>0
        <4>2. CASE k = key[c]
          BY <3>0, <4>1, <4>2 DEF TypeOK
        <4>3. CASE k # key[c]
          <5>1. forcedHintFlight'[k] = forcedHintFlight[k]
            BY <3>0, <4>3 DEF TypeOK
          <5>2. forcedHintFlight[k] \in Callers
            BY <5>1 DEF TypeOK
          <5> QED
            BY <4>1, <5>1, <5>2
        <4> QED
          BY <4>2, <4>3
      <3>3. WaitersHaveOwner'
        <4>1. \A d \in Callers : pc[d] \in Owning \cup {"done"}
                                   => pc'[d] \in Owning \cup {"done"}
          BY <3>0, <3>5 DEF TypeOK
        <4>2. \A d \in Callers : pc'[d] = "wait" => pc[d] = "wait"
          BY <3>0 DEF TypeOK
        <4> QED
          BY <3>0, <4>1, <4>2
      <3>4. NoProbeWhileFresh'
        BY <2>4 DEF Register, TypeOK, Owning, Flying, Probing, Taking
      <3> QED
        BY <3>1, <3>2, <3>3, <3>4
    <2>5. ASSUME NEW c \in Callers, LookupOfficial(c) \/ Collect(c) \/ Assemble(c)
          PROVE  FlightInv'
      BY <2>5, CollectIsQuiet, QuietKeepsFlightInv
    <2>6. ASSUME NEW c \in Callers, Publish(c) PROVE FlightInv'
      BY <2>6 DEF Publish, TypeOK, Owning, Flying, Probing, Taking
    <2>7. ASSUME NEW c \in Callers, Unmap(c) PROVE FlightInv'
      <3>1. SingleFlight'
        BY <2>7 DEF Unmap, TypeOK, Owning, Flying, Probing, Taking
      <3>2. Registered'
        BY <2>7 DEF Unmap, TypeOK, Owning, Flying, Probing, Taking
      <3>3. WaitersHaveOwner'
        BY <2>7 DEF Unmap, TypeOK, Owning, Flying, Probing, Taking
      <3>4. NoProbeWhileFresh'
        BY <2>7 DEF Unmap, TypeOK, Owning, Flying, Probing, Taking
      <3> QED
        BY <3>1, <3>2, <3>3, <3>4
    <2>8. ASSUME NEW c \in Callers, WgDone(c) PROVE FlightInv'
      <3>1. SingleFlight'
        BY <2>8 DEF WgDone, TypeOK, Owning, Flying, Probing, Taking
      <3>2. Registered'
        BY <2>8 DEF WgDone, TypeOK, Owning, Flying, Probing, Taking
      <3>3. WaitersHaveOwner'
        BY <2>8 DEF WgDone, TypeOK, Owning, Flying, Probing, Taking
      <3>4. NoProbeWhileFresh'
        BY <2>8 DEF WgDone, TypeOK, Owning, Flying, Probing, Taking
      <3> QED
        BY <3>1, <3>2, <3>3, <3>4
    <2>9. ASSUME NEW c \in Callers, Return(c) PROVE FlightInv'
      BY <2>9 DEF Return, TypeOK, Owning, Flying, Probing, Taking
    <2>10. ASSUME NEW k \in Keys, ExpireHint(k) PROVE FlightInv'
      BY <2>10 DEF ExpireHint, TypeOK, NoEntry
    <2>11. ASSUME NEW k \in Keys, NEW ip \in IPs,
                  \/ AgeVerdict(k, ip) \/ StrayVerdict(k, ip)
                  \/ \E v \in {"ok", "bad"} : MergeVerdict(k, ip, v)
           PROVE  FlightInv'
      BY <2>11 DEF AgeVerdict, StrayVerdict, MergeVerdict
    <2>12. CASE UNCHANGED vars
      BY <2>12 DEF vars
    <2> QED
      BY <2>1, <2>2, <2>3, <2>4, <2>5, <2>6, <2>7, <2>8, <2>9, <2>10, <2>11, <2>12
         DEF Next, Step, Environment
  <1> QED
    BY <1>1, <1>2, TypeCorrect, PTL DEF Spec

\* One prober per domain, and the flight table names exactly that caller.
THEOREM OneProber == Spec => []SingleFlight
  <1>1. FlightInv => SingleFlight
    BY DEF FlightInv
  <1> QED
    BY <1>1, FlightInvariant, PTL

\* Nobody waits on a group whose Done() has been called or never will be.
THEOREM NoLostWakeup == Spec => []WaitersHaveOwner
  <1>1. FlightInv => WaitersHaveOwner
    BY DEF FlightInv
  <1> QED
    BY <1>1, FlightInvariant, PTL

\* A domain with a live answer, the nil one included, is not being probed.
THEOREM NoRedundantProbe == Spec => []NoProbeWhileFresh
  <1>1. FlightInv => NoProbeWhileFresh
    BY DEF FlightInv
  <1> QED
    BY <1>1, FlightInvariant, PTL

\* A live answer is only ever removed by its expiry, never replaced.
THEOREM AnswersAreStable == Spec => FreshEntryStable
  <1> DEFINE Stable == \A k \in Keys :
                         forcedHintCache[k].fresh /\ forcedHintCache'[k].fresh
                           => forcedHintCache'[k] = forcedHintCache[k]
  <1>1. TypeOK /\ FlightInv /\ [Next]_vars => [Stable]_vars
    <2> SUFFICES ASSUME TypeOK, FlightInv, Next PROVE Stable
      OBVIOUS
    <2>1. ASSUME NEW c \in Callers, Publish(c) PROVE Stable
      <3>1. ~ forcedHintCache[key[c]].fresh
        BY <2>1 DEF Publish, FlightInv, NoProbeWhileFresh, Flying
      <3> QED
        BY <2>1, <3>1 DEF Publish, TypeOK
    <2>2. ASSUME NEW k \in Keys, ExpireHint(k) PROVE Stable
      BY <2>2 DEF ExpireHint, NoEntry, TypeOK
    <2>3. ASSUME NEW c \in Callers, LookupOfficial(c) \/ Collect(c) \/ Assemble(c)
          PROVE  Stable
      BY <2>3, CollectIsQuiet DEF Quiet
    <2>4. ASSUME NEW c \in Callers,
                 \/ Call(c) \/ Hit(c) \/ Join(c) \/ Register(c)
                 \/ Unmap(c) \/ WgDone(c) \/ Return(c)
          PROVE  Stable
      BY <2>4 DEF Call, Hit, Join, Register, Unmap, WgDone, Return, hintVars
    <2>5. ASSUME NEW k \in Keys, NEW ip \in IPs,
                 \/ AgeVerdict(k, ip) \/ StrayVerdict(k, ip)
                 \/ \E v \in {"ok", "bad"} : MergeVerdict(k, ip, v)
          PROVE  Stable
      BY <2>5 DEF AgeVerdict, StrayVerdict, MergeVerdict, hintVars
    <2> QED
      BY <2>1, <2>2, <2>3, <2>4, <2>5 DEF Next, Step, Environment
  <1>2. [][Stable]_vars => FreshEntryStable
    BY DEF FreshEntryStable
  <1> QED
    BY <1>1, <1>2, FlightInvariant, TypeCorrect, PTL DEF Spec
-----------------------------------------------------------------------------
(***************************************************************************)
(* What a flight answers: only what passed in it, nothing twice, one       *)
(* address more than the maximum at most, in the documented order, and     *)
(* nothing at all only if nothing passed.                                  *)
(*                                                                         *)
(* A flight is its caller's alone, so the invariant is about one caller,   *)
(* and steps of others leave it be (Same).                                 *)
(***************************************************************************)

USE MaxHintsAssumption

-----------------------------------------------------------------------------
(* The inductive invariant, caller by caller, as a predicate on the values *)
(* of its flight: p its label, f its poolFirst, then pending, poolOut,     *)
(* accepted, todo, out and proven.                                         *)

Late == {"probeReach", "takeReach", "takeAgain", "takeSpare", "publish"}
Building == Probing \cup Taking \cup {"publish"}

\* No source delivers an address twice.
Distinct(p, pend, po, ac) ==
    /\ p \in Building => IsInjective(po) /\ IsInjective(ac)
    /\ p = "probePool" => pend \cap ToSet(po) = {}
    /\ p \in {"probePool", "takeFirst"} => ac = <<>>
    /\ p \in {"probeOfficial", "sample"} => pend \cap ToSet(ac) = {}

\* Whatever is collected or merged has passed.
Backed(p, po, ac, td, o, pr) ==
    /\ p \notin Taking => td = <<>>
    /\ p \in Building =>
          ToSet(po) \subseteq pr /\ ToSet(ac) \subseteq pr /\ ToSet(td) \subseteq pr /\ ToSet(o) \subseteq pr

\* Where a list is merged there is room for one more address, or the first
\* to come is there already; only the official stage of a poolFirst flight
\* may begin with a full list.
Room(p, f, td, o) ==
    /\ p \in {"idle", "lookup", "wait", "lookupOfficial", "probePool"} => o = <<>>
    /\ p \in Owning => IsInjective(o) /\ Len(o) <= MaxHints + (IF f THEN 1 ELSE 0)
    /\ p \in {"takeFirst", "probeOfficial", "sample"} =>
          Len(o) <= MaxHints /\ (~ f => o = <<>> /\ td = <<>>)
    /\ p = "probeReach" => Len(o) < MaxHints
    /\ td # <<>> =>
          /\ p \in {"takeFirst", "takeReach", "takeSpare"} => Len(o) < MaxHints
          /\ p = "takeOfficial" => Len(o) < MaxHints \/ (f /\ Len(o) = MaxHints)
          /\ p = "takeAgain" => f /\ (Len(o) < MaxHints \/ td[1] \in ToSet(o))

\* o is a beginning of src, and td what is left of it, up to MaxHints or more.
Merging(src, o, td) ==
    /\ Len(o) + Len(td) <= Len(src)
    /\ \A i \in 1 .. Len(o) : o[i] = src[i]
    /\ \A i \in 1 .. Len(td) : td[i] = src[Len(o) + i]
    /\ Len(o) + Len(td) = Len(src) \/ Len(o) + Len(td) >= MaxHints

\* The pool leads a poolFirst answer.
PoolLeads(p, f, po, td, o) ==
    f => /\ p = "takeFirst" => Merging(po, o, td)
         /\ p \in {"probeOfficial", "sample", "takeOfficial"} \cup Late =>
               /\ \A i \in 1 .. MaxHints : i <= Len(o) /\ i <= Len(po) => o[i] = po[i]
               /\ Len(o) >= Len(po) \/ Len(o) >= MaxHints

\* The official addresses lead a forced one: it is full of them or has them all.
OfficialLeads(p, f, ac, td, o) ==
    ~ f => /\ p = "takeOfficial" => Merging(ac, o, td)
           /\ p \in Late =>
                 /\ \/ ToSet(ac) \subseteq ToSet(o)
                    \/ ToSet(o) \subseteq ToSet(ac) /\ Len(o) >= MaxHints
                 /\ \A i, j \in 1 .. Len(o) : i < j /\ o[j] \in ToSet(ac) => o[i] \in ToSet(ac)

\* What has passed is on its way into the answer.
OnItsWay(p, po, ac, td, o, pr) ==
    /\ p \in Building /\ pr # {} => po # <<>> \/ ac # <<>> \/ td # <<>> \/ o # <<>>
    /\ p \in {"takeOfficial"} \cup Late /\ ac # <<>> => td # <<>> \/ o # <<>>
    /\ p \in {"takeSpare", "publish"} /\ po # <<>> => td # <<>> \/ o # <<>>

GoodAt(p, f, pend, po, ac, td, o, pr) ==
    /\ Distinct(p, pend, po, ac)
    /\ Backed(p, po, ac, td, o, pr)
    /\ Room(p, f, td, o)
    /\ PoolLeads(p, f, po, td, o)
    /\ OfficialLeads(p, f, ac, td, o)
    /\ OnItsWay(p, po, ac, td, o, pr)

Good(c) == GoodAt(pc[c], poolFirst[c], pending[c], poolOut[c], accepted[c], todo[c], out[c], proven[c])

AnswerInv == \A c \in Callers : Good(c)

-----------------------------------------------------------------------------
(* Sequences.                                                              *)

LEMMA Elements ==
    ASSUME NEW S, NEW s \in Seq(S)
    PROVE  /\ \A i \in 1 .. Len(s) : s[i] \in ToSet(s)
           /\ \A x \in ToSet(s) : \E i \in 1 .. Len(s) : s[i] = x
           /\ s = <<>> <=> ToSet(s) = {}
           /\ \A x : Contains(s, x) <=> x \in ToSet(s)
  BY DEF ToSet, Contains

LEMMA AppendElements ==
    ASSUME NEW S, NEW s \in Seq(S), NEW x \in S
    PROVE  /\ Append(s, x) \in Seq(S) /\ Append(s, x) # <<>>
           /\ Len(s) \in Nat /\ Len(Append(s, x)) = Len(s) + 1
           /\ \A i \in 1 .. Len(s) : Append(s, x)[i] = s[i]
           /\ Append(s, x)[Len(s) + 1] = x
           /\ ToSet(Append(s, x)) = ToSet(s) \cup {x}
           /\ IsInjective(s) /\ x \notin ToSet(s) => IsInjective(Append(s, x))
<1>1. /\ Append(s, x) \in Seq(S) /\ Len(Append(s, x)) = Len(s) + 1
      /\ \A i \in 1 .. Len(s) : Append(s, x)[i] = s[i]
      /\ Append(s, x)[Len(s) + 1] = x
      /\ DOMAIN Append(s, x) = 1 .. Len(s) + 1 /\ DOMAIN s = 1 .. Len(s)
      /\ Len(s) \in Nat
  OBVIOUS
<1>2. ToSet(Append(s, x)) \subseteq ToSet(s) \cup {x}
  BY <1>1 DEF ToSet
<1>3. ToSet(s) \subseteq ToSet(Append(s, x))
  BY <1>1 DEF ToSet
<1>4. x \in ToSet(Append(s, x))
  BY <1>1 DEF ToSet
<1>5. IsInjective(s) /\ x \notin ToSet(s) => IsInjective(Append(s, x))
  BY <1>1 DEF ToSet, IsInjective
<1>6. Append(s, x) # <<>>
  BY <1>1
<1> QED
  BY <1>1, <1>2, <1>3, <1>4, <1>5, <1>6

\* The empty list.
LEMMA Nothing == <<>> \in Seq(IPs) /\ Len(<<>>) = 0 /\ ToSet(<<>>) = {} /\ IsInjective(<<>>)
  BY DEF ToSet, IsInjective

LEMMA TailElements ==
    ASSUME NEW S, NEW s \in Seq(S), s # <<>>
    PROVE  /\ Head(s) = s[1] /\ s[1] \in S /\ s[1] \in ToSet(s)
           /\ Tail(s) \in Seq(S) /\ Len(Tail(s)) = Len(s) - 1 /\ Len(s) >= 1
           /\ \A i \in 1 .. Len(s) - 1 : Tail(s)[i] = s[i + 1]
           /\ ToSet(Tail(s)) \subseteq ToSet(s)
<1>1. /\ Head(s) = s[1] /\ s[1] \in S /\ Len(s) >= 1
      /\ Tail(s) \in Seq(S) /\ Len(Tail(s)) = Len(s) - 1
      /\ \A i \in 1 .. Len(s) - 1 : Tail(s)[i] = s[i + 1]
  OBVIOUS
<1>2. s[1] \in ToSet(s)
  BY <1>1 DEF ToSet
<1>3. ToSet(Tail(s)) \subseteq ToSet(s)
  BY <1>1 DEF ToSet
<1> QED
  BY <1>1, <1>2, <1>3

-----------------------------------------------------------------------------
(* Merging.                                                                *)

LEMMA Sums ==
    /\ \A a \in Nat : a + 0 = a
    /\ \A a \in Nat, b \in Nat : (a + 1) + (b - 1) = a + b
  OBVIOUS

\* What TakeNext makes of out and todo.
Grow(o, td) == IF Contains(o, Head(td)) THEN o ELSE Append(o, Head(td))
Rest(g, td) == IF Len(g) >= MaxHints THEN <<>> ELSE Tail(td)

\* g is o with x in it: o itself, or o and then x.
Holds(o, x, g) ==
    /\ g \in Seq(IPs) /\ g # <<>> /\ IsInjective(g)
    /\ ToSet(g) = ToSet(o) \cup {x}
    /\ Len(g) = IF x \in ToSet(o) THEN Len(o) ELSE Len(o) + 1
    /\ \A i \in 1 .. Len(o) : g[i] = o[i]
    /\ x \notin ToSet(o) => g[Len(o) + 1] = x

LEMMA Grown ==
    ASSUME NEW o \in Seq(IPs), NEW td \in Seq(IPs), td # <<>>, IsInjective(o),
           NEW g, g = Grow(o, td)
    PROVE  Holds(o, td[1], g)
<1>1. Head(td) = td[1] /\ td[1] \in IPs
  BY TailElements
<1>2. CASE td[1] \in ToSet(o)
  <2>1. g = o /\ o # <<>>
    BY <1>1, <1>2, Elements DEF Grow
  <2> QED
    BY <1>2, <2>1 DEF Holds
<1>3. CASE td[1] \notin ToSet(o)
  <2>1. g = Append(o, td[1])
    BY <1>1, <1>3, Elements DEF Grow
  <2>2. /\ g \in Seq(IPs) /\ g # <<>> /\ Len(g) = Len(o) + 1
        /\ \A i \in 1 .. Len(o) : g[i] = o[i]
        /\ g[Len(o) + 1] = td[1]
        /\ ToSet(g) = ToSet(o) \cup {td[1]} /\ IsInjective(g)
    BY <1>1, <1>3, <2>1, AppendElements
  <2> QED
    BY <1>3, <2>2 DEF Holds
<1> QED
  BY <1>2, <1>3

\* One more of src is merged.
LEMMA MergingStep ==
    ASSUME NEW src \in Seq(IPs), NEW o \in Seq(IPs), NEW td \in Seq(IPs), td # <<>>,
           IsInjective(src), Merging(src, o, td),
           NEW g, Holds(o, td[1], g), NEW t, t = Rest(g, td)
    PROVE  Merging(src, g, t)
<1> USE DEF Holds
<1>1. /\ Len(td) >= 1 /\ Len(Tail(td)) = Len(td) - 1 /\ Len(o) \in Nat /\ Len(td) \in Nat
      /\ \A i \in 1 .. Len(td) - 1 : Tail(td)[i] = td[i + 1]
  BY TailElements
<1>2. td[1] = src[Len(o) + 1] /\ Len(o) + 1 <= Len(src)
  BY <1>1 DEF Merging
<1>3. td[1] \notin ToSet(o)
  <2>1. SUFFICES ASSUME td[1] \in ToSet(o) PROVE FALSE
    OBVIOUS
  <2>2. PICK i \in 1 .. Len(o) : o[i] = td[1]
    BY <2>1, Elements
  <2>3. src[i] = src[Len(o) + 1] /\ i \in DOMAIN src /\ Len(o) + 1 \in DOMAIN src
    BY <1>1, <1>2, <2>2 DEF Merging
  <2>4. i = Len(o) + 1
    BY <2>3 DEF IsInjective
  <2> QED
    BY <1>1, <2>2, <2>4
<1>4. Len(g) = Len(o) + 1 /\ Len(g) \in Nat /\ Len(src) \in Nat /\ Len(g) <= Len(src)
  BY <1>1, <1>2, <1>3
<1>0. \A i \in 1 .. Len(g) : g[i] = src[i]
  <2>1. ASSUME NEW i \in 1 .. Len(g) PROVE g[i] = src[i]
    <3>1. CASE i = Len(o) + 1
      BY <1>2, <1>3, <3>1
    <3>2. CASE i # Len(o) + 1
      <4>1. i \in 1 .. Len(o)
        BY <1>1, <1>4, <3>2
      <4> QED
        BY <4>1 DEF Merging
    <3> QED
      BY <3>1, <3>2
  <2> QED
    BY <2>1
<1>5. CASE Len(g) >= MaxHints
  <2>1. t = <<>> /\ Len(t) = 0
    BY <1>5, Nothing DEF Rest
  <2>2. \A i \in 1 .. Len(t) : t[i] = src[Len(g) + i]
    BY <2>1
  <2>3. Len(g) + Len(t) <= Len(src) /\ Len(g) + Len(t) >= MaxHints
    <3>1. Len(g) + Len(t) = Len(g)
      BY <1>4, <2>1, Sums
    <3> QED
      BY <1>4, <1>5, <3>1
  <2> QED
    BY <1>0, <2>2, <2>3 DEF Merging
<1>6. CASE ~ (Len(g) >= MaxHints)
  <2>1. t = Tail(td)
    BY <1>6 DEF Rest
  <2>2. \A i \in 1 .. Len(t) : t[i] = src[Len(g) + i]
    <3>1. ASSUME NEW i \in 1 .. Len(t) PROVE t[i] = src[Len(g) + i]
      <4>1. t[i] = td[i + 1] /\ i + 1 \in 1 .. Len(td)
        BY <1>1, <2>1
      <4>2. td[i + 1] = src[Len(o) + (i + 1)] /\ Len(o) + (i + 1) = Len(g) + i
        BY <1>1, <1>4, <4>1 DEF Merging
      <4> QED
        BY <4>1, <4>2
    <3> QED
      BY <3>1
  <2>3. Len(g) + Len(t) = Len(o) + Len(td)
    <3>1. Len(t) = Len(td) - 1
      BY <1>1, <2>1
    <3>2. (Len(o) + 1) + (Len(td) - 1) = Len(o) + Len(td)
      BY <1>1, Sums
    <3> QED
      BY <1>4, <3>1, <3>2
  <2>4. /\ Len(o) + Len(td) <= Len(src)
        /\ Len(o) + Len(td) = Len(src) \/ Len(o) + Len(td) >= MaxHints
    BY DEF Merging
  <2> QED
    BY <1>0, <2>2, <2>3, <2>4 DEF Merging
<1> QED
  BY <1>5, <1>6

LEMMA Places ==
    /\ Taking \subseteq Building /\ Building \subseteq Owning
    /\ Taking = {"takeFirst", "takeOfficial", "takeReach", "takeAgain", "takeSpare"}
    /\ Building = {"probePool", "probeOfficial", "sample", "probeReach", "publish",
                   "takeFirst", "takeOfficial", "takeReach", "takeAgain", "takeSpare"}
    /\ Owning = Building \cup {"lookupOfficial", "unmap"}
  BY DEF Building, Owning, Flying, Probing, Taking

LEMMA TakeGood ==
    ASSUME NEW p \in Taking, NEW f \in BOOLEAN, NEW pend, NEW pr,
           NEW po \in Seq(IPs), NEW ac \in Seq(IPs), NEW td \in Seq(IPs), NEW o \in Seq(IPs),
           td # <<>>, GoodAt(p, f, pend, po, ac, td, o, pr),
           NEW g, g = Grow(o, td),
           NEW t, t = Rest(g, td)
    PROVE  GoodAt(p, f, pend, po, ac, t, g, pr)
<1>1. p \in Building /\ p \in Owning
  BY Places
<1>2. IsInjective(o) /\ Len(o) <= MaxHints + (IF f THEN 1 ELSE 0)
  BY <1>1 DEF GoodAt, Room
<1>0. Holds(o, td[1], g)
  BY <1>2, Grown
<1>3. /\ g \in Seq(IPs) /\ g # <<>> /\ IsInjective(g)
      /\ ToSet(g) = ToSet(o) \cup {td[1]}
      /\ Len(g) = IF td[1] \in ToSet(o) THEN Len(o) ELSE Len(o) + 1
      /\ \A i \in 1 .. Len(o) : g[i] = o[i]
      /\ td[1] \notin ToSet(o) => g[Len(o) + 1] = td[1]
  BY <1>0 DEF Holds
<1>4. /\ td[1] \in ToSet(td)
      /\ t \in Seq(IPs) /\ ToSet(t) \subseteq ToSet(td)
      /\ t # <<>> => Len(g) < MaxHints
  <2>1. td[1] \in ToSet(td) /\ Tail(td) \in Seq(IPs) /\ ToSet(Tail(td)) \subseteq ToSet(td)
    BY TailElements
  <2> QED
    BY <1>3, <2>1, Nothing DEF Rest
<1>5. Distinct(p, pend, po, ac)
  BY DEF GoodAt
<1>6. Backed(p, po, ac, t, g, pr)
  BY <1>1, <1>3, <1>4 DEF GoodAt, Backed
<1>7. Room(p, f, t, g)
  <2>1. /\ Len(o) \in Nat /\ Len(g) \in Nat
        /\ Len(g) = Len(o) \/ (Len(g) = Len(o) + 1 /\ td[1] \notin ToSet(o))
    BY <1>3
  <2>2. /\ p \in {"takeFirst", "takeReach", "takeSpare"} => Len(o) < MaxHints
        /\ p = "takeOfficial" => Len(o) < MaxHints \/ (f /\ Len(o) = MaxHints)
        /\ p = "takeAgain" => f /\ (Len(o) < MaxHints \/ td[1] \in ToSet(o))
        /\ p = "takeFirst" => f
    BY DEF GoodAt, Room
  <2>3. Len(o) < MaxHints \/ (f /\ (Len(o) = MaxHints \/ td[1] \in ToSet(o)))
    BY <2>2, Places
  <2>4. Len(g) <= MaxHints + (IF f THEN 1 ELSE 0)
    <3>1. CASE Len(o) < MaxHints
      BY <2>1, <3>1
    <3>2. CASE f /\ (Len(o) = MaxHints \/ td[1] \in ToSet(o))
      BY <1>2, <2>1, <3>2
    <3> QED
      BY <2>3, <3>1, <3>2
  <2>5. p = "takeFirst" => f /\ Len(g) <= MaxHints
    BY <2>1, <2>2
  <2>6. t # <<>> => Len(g) < MaxHints /\ (p = "takeAgain" => f)
    BY <1>4, <2>2
  <2>7. /\ p \notin {"idle", "lookup", "wait", "lookupOfficial", "probePool"}
        /\ p # "probeReach" /\ p # "probeOfficial" /\ p # "sample"
    BY Places
  <2> QED
    BY <1>3, <2>4, <2>5, <2>6, <2>7 DEF Room
<1>8. PoolLeads(p, f, po, t, g)
  <2>1. CASE p = "takeFirst" /\ f
    <3>1. IsInjective(po) /\ Merging(po, o, td)
      BY <1>1, <2>1 DEF GoodAt, Distinct, PoolLeads
    <3>2. Merging(po, g, t)
      BY <1>0, <3>1, MergingStep
    <3> QED
      BY <2>1, <3>2 DEF PoolLeads, Late
  <2>2. CASE p # "takeFirst" /\ f
    <3>1. /\ \A i \in 1 .. MaxHints : i <= Len(o) /\ i <= Len(po) => o[i] = po[i]
          /\ Len(o) >= Len(po) \/ Len(o) >= MaxHints
      BY <2>2, Places DEF GoodAt, PoolLeads, Late
    <3>2. Len(o) \in Nat /\ Len(g) \in Nat /\ Len(po) \in Nat /\ Len(g) >= Len(o)
      BY <1>3
    <3>3. ASSUME NEW i \in 1 .. MaxHints, i <= Len(g), i <= Len(po)
          PROVE  g[i] = po[i]
      BY <1>3, <3>1, <3>2, <3>3
    <3>4. Len(g) >= Len(po) \/ Len(g) >= MaxHints
      BY <3>1, <3>2
    <3>5. \A i \in 1 .. MaxHints : i <= Len(g) /\ i <= Len(po) => g[i] = po[i]
      BY <3>3
    <3> QED
      BY <2>2, <3>4, <3>5, Zenon DEF PoolLeads
  <2>3. CASE ~ f
    BY <2>3 DEF PoolLeads
  <2> QED
    BY <2>1, <2>2, <2>3
<1>9. OfficialLeads(p, f, ac, t, g)
  <2>1. CASE p = "takeOfficial" /\ ~ f
    <3>1. IsInjective(ac) /\ Merging(ac, o, td)
      BY <1>1, <2>1 DEF GoodAt, Distinct, OfficialLeads
    <3>2. Merging(ac, g, t)
      BY <1>0, <3>1, MergingStep
    <3> QED
      BY <2>1, <3>2 DEF OfficialLeads, Late
  <2>2. CASE p \in Late /\ ~ f
    <3>1. /\ \/ ToSet(ac) \subseteq ToSet(o)
             \/ ToSet(o) \subseteq ToSet(ac) /\ Len(o) >= MaxHints
          /\ \A i, j \in 1 .. Len(o) : i < j /\ o[j] \in ToSet(ac) => o[i] \in ToSet(ac)
      BY <2>2 DEF GoodAt, OfficialLeads
    <3>2. Len(o) < MaxHints
      BY <2>2, Places DEF GoodAt, Room, Late
    <3>3. ToSet(ac) \subseteq ToSet(o) /\ Len(o) \in Nat
      BY <3>1, <3>2
    <3>4. ASSUME NEW i \in 1 .. Len(g), NEW j \in 1 .. Len(g), i < j, g[j] \in ToSet(ac)
          PROVE  g[i] \in ToSet(ac)
      <4>1. j <= Len(o)
        BY <1>3, <3>3, <3>4
      <4>2. g[i] = o[i] /\ g[j] = o[j] /\ i \in 1 .. Len(o) /\ j \in 1 .. Len(o)
        BY <1>3, <3>3, <4>1, <3>4
      <4> QED
        BY <3>1, <3>4, <4>2
    <3> QED
      BY <1>3, <2>2, <3>3, <3>4 DEF OfficialLeads, Late
  <2>3. CASE f \/ (p # "takeOfficial" /\ p \notin Late)
    BY <2>3 DEF OfficialLeads
  <2> QED
    BY <2>1, <2>2, <2>3
<1>10. OnItsWay(p, po, ac, t, g, pr)
  BY <1>3 DEF OnItsWay
<1> QED
  BY <1>5, <1>6, <1>7, <1>8, <1>9, <1>10 DEF GoodAt

-----------------------------------------------------------------------------
(* The other steps of a flight, on its values.                             *)

\* Outside of the collecting and the merging only the label matters.
LEMMA QuietGood ==
    ASSUME NEW p, NEW q, NEW f \in BOOLEAN, NEW e \in BOOLEAN, NEW pend, NEW pr,
           NEW po \in Seq(IPs), NEW ac \in Seq(IPs), NEW td \in Seq(IPs), NEW o \in Seq(IPs),
           GoodAt(p, f, pend, po, ac, td, o, pr),
           \/ p = "idle" /\ q = "lookup"
           \/ /\ e = f
              /\ \/ p = "lookup" /\ q \in {"return", "wait", "lookupOfficial"}
                 \/ p = "wait" /\ q = "lookup"
                 \/ p = "publish" /\ q = "unmap"
                 \/ p = "unmap" /\ q = "done"
                 \/ p = "done" /\ q = "return"
    PROVE  GoodAt(q, e, pend, po, ac, td, o, pr)
<1>1. Distinct(q, pend, po, ac) /\ Backed(q, po, ac, td, o, pr)
  BY Places DEF GoodAt, Distinct, Backed
<1>2. Room(q, e, td, o)
  <2>1. td = <<>>
    BY Places DEF GoodAt, Backed
  <2>2. q = "lookupOfficial" => o = <<>> /\ Len(o) = 0
    BY Nothing DEF GoodAt, Room
  <2>3. q = "unmap" => IsInjective(o) /\ Len(o) <= MaxHints + (IF e THEN 1 ELSE 0)
    BY Places DEF GoodAt, Room
  <2>4. q = "lookupOfficial" => IsInjective(o) /\ Len(o) <= MaxHints + (IF e THEN 1 ELSE 0)
    BY <2>2, Nothing
  <2>5. q \in {"idle", "lookup", "wait", "lookupOfficial", "probePool"} => o = <<>>
    BY DEF GoodAt, Room
  <2>6. q \in Owning => q = "unmap" \/ q = "lookupOfficial"
    BY Places
  <2> QED
    BY <2>1, <2>3, <2>4, <2>5, <2>6 DEF Room
<1>3. PoolLeads(q, e, po, td, o) /\ OfficialLeads(q, e, ac, td, o) /\ OnItsWay(q, po, ac, td, o, pr)
  BY Places DEF PoolLeads, OfficialLeads, OnItsWay, Late
<1> QED
  BY <1>1, <1>2, <1>3 DEF GoodAt

\* Nothing is collected yet.
LEMMA EmptyGood ==
    ASSUME NEW p \in {"idle", "probePool"}, NEW f \in BOOLEAN, NEW pend
    PROVE  GoodAt(p, f, pend, <<>>, <<>>, <<>>, <<>>, {})
<1>1. Distinct(p, pend, <<>>, <<>>) /\ Backed(p, <<>>, <<>>, <<>>, <<>>, {})
  BY Nothing DEF Distinct, Backed
<1>2. Room(p, f, <<>>, <<>>)
  <2>1. Len(<<>>) <= MaxHints + (IF f THEN 1 ELSE 0)
    BY Nothing
  <2> QED
    BY <2>1, Nothing DEF Room
<1>3. /\ PoolLeads(p, f, <<>>, <<>>, <<>>) /\ OfficialLeads(p, f, <<>>, <<>>, <<>>)
      /\ OnItsWay(p, <<>>, <<>>, <<>>, <<>>, {})
  BY DEF PoolLeads, OfficialLeads, OnItsWay, Late
<1> QED
  BY <1>1, <1>2, <1>3 DEF GoodAt

\* A verdict that is no, or goroutines that are abandoned.
LEMMA FewerGood ==
    ASSUME NEW p, NEW f, NEW pend, NEW rest, NEW po, NEW ac, NEW td, NEW o, NEW pr,
           GoodAt(p, f, pend, po, ac, td, o, pr), rest \subseteq pend
    PROVE  GoodAt(p, f, rest, po, ac, td, o, pr)
  BY DEF GoodAt, Distinct

\* A pool address passes.
LEMMA PoolGood ==
    ASSUME NEW f \in BOOLEAN, NEW pend \in SUBSET IPs, NEW pr,
           NEW po \in Seq(IPs), NEW ac \in Seq(IPs), NEW td \in Seq(IPs), NEW o \in Seq(IPs),
           GoodAt("probePool", f, pend, po, ac, td, o, pr), NEW x \in pend
    PROVE  GoodAt("probePool", f, pend \ {x}, Append(po, x), ac, td, o, pr \cup {x})
<1>1. /\ Append(po, x) # <<>> /\ ToSet(Append(po, x)) = ToSet(po) \cup {x}
      /\ x \notin ToSet(po) /\ IsInjective(Append(po, x))
  <2>1. x \notin ToSet(po) /\ IsInjective(po)
    BY Places DEF GoodAt, Distinct
  <2> QED
    BY <2>1, AppendElements
<1>2. Distinct("probePool", pend \ {x}, Append(po, x), ac)
  BY <1>1 DEF GoodAt, Distinct
<1>3. Backed("probePool", Append(po, x), ac, td, o, pr \cup {x})
  BY <1>1, Places DEF GoodAt, Backed
<1>4. /\ Room("probePool", f, td, o)
      /\ PoolLeads("probePool", f, Append(po, x), td, o)
      /\ OfficialLeads("probePool", f, ac, td, o)
  BY DEF GoodAt, PoolLeads, OfficialLeads, Late
<1>5. OnItsWay("probePool", Append(po, x), ac, td, o, pr \cup {x})
  BY <1>1 DEF OnItsWay, Late
<1> QED
  BY <1>2, <1>3, <1>4, <1>5 DEF GoodAt

LEMMA PoolDoneGood ==
    ASSUME NEW f \in BOOLEAN, NEW pend, NEW pr,
           NEW po \in Seq(IPs), NEW ac \in Seq(IPs), NEW td \in Seq(IPs), NEW o \in Seq(IPs),
           GoodAt("probePool", f, pend, po, ac, td, o, pr),
           NEW t, t = IF f THEN po ELSE <<>>
    PROVE  GoodAt("takeFirst", f, pend, po, ac, t, o, pr)
<1>1. /\ o = <<>> /\ Len(o) = 0 /\ td = <<>>
      /\ IsInjective(po) /\ IsInjective(ac) /\ ac = <<>>
      /\ ToSet(po) \subseteq pr /\ ToSet(ac) \subseteq pr /\ ToSet(o) \subseteq pr
  BY Nothing, Places DEF GoodAt, Distinct, Backed, Room
<1>2. Distinct("takeFirst", pend, po, ac)
  BY <1>1 DEF Distinct
<1>3. Backed("takeFirst", po, ac, t, o, pr)
  BY <1>1, Nothing, Places DEF Backed
<1>4. Room("takeFirst", f, t, o)
  <2>1. Len(o) <= MaxHints /\ Len(o) < MaxHints /\ Len(o) <= MaxHints + (IF f THEN 1 ELSE 0)
    BY <1>1
  <2> QED
    BY <1>1, <2>1, Nothing DEF Room
<1>5. PoolLeads("takeFirst", f, po, t, o)
  <2>1. CASE f
    <3>1. Len(po) \in Nat /\ 0 + Len(po) = Len(po) /\ t = po
      BY <2>1
    <3>2. \A i \in 1 .. Len(t) : t[i] = po[Len(o) + i]
      BY <1>1, <3>1
    <3> QED
      BY <1>1, <3>1, <3>2 DEF PoolLeads, Merging, Late
  <2>2. CASE ~ f
    BY <2>2 DEF PoolLeads
  <2> QED
    BY <2>1, <2>2
<1>6. OfficialLeads("takeFirst", f, ac, t, o) /\ OnItsWay("takeFirst", po, ac, t, o, pr)
  BY <1>1, Places DEF GoodAt, OfficialLeads, OnItsWay, Late
<1> QED
  BY <1>2, <1>3, <1>4, <1>5, <1>6 DEF GoodAt

LEMMA FirstTakenGood ==
    ASSUME NEW f \in BOOLEAN, NEW pend, NEW given, NEW pr,
           NEW po \in Seq(IPs), NEW ac \in Seq(IPs), NEW o \in Seq(IPs),
           GoodAt("takeFirst", f, pend, po, ac, <<>>, o, pr)
    PROVE  GoodAt("probeOfficial", f, given, po, ac, <<>>, o, pr)
<1>1. Distinct("probeOfficial", given, po, ac)
  BY Nothing, Places DEF GoodAt, Distinct
<1>2. Backed("probeOfficial", po, ac, <<>>, o, pr) /\ Room("probeOfficial", f, <<>>, o)
  BY Places DEF GoodAt, Backed, Room
<1>3. PoolLeads("probeOfficial", f, po, <<>>, o)
  <2>1. CASE f
    <3>1. Merging(po, o, <<>>)
      BY <2>1 DEF GoodAt, PoolLeads
    <3>2. Len(o) \in Nat /\ Len(po) \in Nat /\ Len(o) + Len(<<>>) = Len(o)
      BY Nothing, Sums
    <3>3. /\ \A i \in 1 .. Len(o) : o[i] = po[i]
          /\ Len(o) = Len(po) \/ Len(o) >= MaxHints
      BY <3>1, <3>2 DEF Merging
    <3> QED
      BY <3>2, <3>3 DEF PoolLeads, Late
  <2>2. CASE ~ f
    BY <2>2 DEF PoolLeads
  <2> QED
    BY <2>1, <2>2
<1>4. OfficialLeads("probeOfficial", f, ac, <<>>, o) /\ OnItsWay("probeOfficial", po, ac, <<>>, o, pr)
  BY Places DEF GoodAt, OfficialLeads, OnItsWay, Late
<1> QED
  BY <1>1, <1>2, <1>3, <1>4 DEF GoodAt

\* An official or a sampled address passes.
LEMMA OfficialGood ==
    ASSUME NEW p \in {"probeOfficial", "sample"},
           NEW f \in BOOLEAN, NEW pend \in SUBSET IPs, NEW pr,
           NEW po \in Seq(IPs), NEW ac \in Seq(IPs), NEW td \in Seq(IPs), NEW o \in Seq(IPs),
           GoodAt(p, f, pend, po, ac, td, o, pr), NEW x \in pend
    PROVE  GoodAt(p, f, pend \ {x}, po, Append(ac, x), td, o, pr \cup {x})
<1>1. /\ Append(ac, x) # <<>> /\ ToSet(Append(ac, x)) = ToSet(ac) \cup {x}
      /\ x \notin ToSet(ac) /\ IsInjective(Append(ac, x))
  <2>1. x \notin ToSet(ac) /\ IsInjective(ac)
    BY Places DEF GoodAt, Distinct
  <2> QED
    BY <2>1, AppendElements
<1>2. Distinct(p, pend \ {x}, po, Append(ac, x))
  BY <1>1, Places DEF GoodAt, Distinct
<1>3. Backed(p, po, Append(ac, x), td, o, pr \cup {x})
  BY <1>1, Places DEF GoodAt, Backed
<1>4. /\ Room(p, f, td, o) /\ PoolLeads(p, f, po, td, o)
      /\ OfficialLeads(p, f, Append(ac, x), td, o)
  BY DEF GoodAt, OfficialLeads, Late
<1>5. OnItsWay(p, po, Append(ac, x), td, o, pr \cup {x})
  BY <1>1 DEF OnItsWay, Late
<1> QED
  BY <1>2, <1>3, <1>4, <1>5 DEF GoodAt

\* Some official address passed: others of its /24 are drawn.
LEMMA SampleGood ==
    ASSUME NEW f \in BOOLEAN, NEW pend, NEW drawn, NEW po, NEW ac, NEW td, NEW o, NEW pr,
           GoodAt("probeOfficial", f, pend, po, ac, td, o, pr), drawn \cap ToSet(ac) = {}
    PROVE  GoodAt("sample", f, drawn, po, ac, td, o, pr)
  BY Places DEF GoodAt, Distinct, Backed, Room, PoolLeads, OfficialLeads, OnItsWay, Late

\* The official stage is over: t is what it contributes.
LEMMA ToOfficialGood ==
    ASSUME NEW p \in {"probeOfficial", "sample"},
           NEW f \in BOOLEAN, NEW pend, NEW rest, NEW pr,
           NEW po \in Seq(IPs), NEW ac \in Seq(IPs), NEW td \in Seq(IPs), NEW o \in Seq(IPs),
           GoodAt(p, f, pend, po, ac, td, o, pr),
           NEW t \in Seq(IPs), Len(t) <= Len(ac), \A i \in 1 .. Len(t) : t[i] = ac[i],
           Len(t) = Len(ac) \/ Len(t) >= MaxHints
    PROVE  GoodAt("takeOfficial", f, rest, po, ac, t, o, pr)
<1>0. /\ td = <<>> /\ Len(o) <= MaxHints /\ (~ f => o = <<>>)
      /\ IsInjective(o) /\ IsInjective(po) /\ IsInjective(ac)
      /\ Len(o) <= MaxHints + (IF f THEN 1 ELSE 0)
      /\ ToSet(po) \subseteq pr /\ ToSet(ac) \subseteq pr /\ ToSet(o) \subseteq pr
  BY Places DEF GoodAt, Distinct, Backed, Room
<1>1. ToSet(t) \subseteq ToSet(ac)
  <2>1. ASSUME NEW x \in ToSet(t) PROVE x \in ToSet(ac)
    <3>1. PICK i \in 1 .. Len(t) : t[i] = x
      BY Elements
    <3>2. i \in 1 .. Len(ac)
      BY <3>1
    <3> QED
      BY <3>1, <3>2, Elements
  <2> QED
    BY <2>1
<1>2. Distinct("takeOfficial", rest, po, ac) /\ Backed("takeOfficial", po, ac, t, o, pr)
  BY <1>0, <1>1, Places DEF Distinct, Backed
<1>3. Room("takeOfficial", f, t, o)
  <2>1. Len(o) < MaxHints \/ (f /\ Len(o) = MaxHints)
    BY <1>0, Nothing
  <2> QED
    BY <1>0, <2>1, Places DEF Room
<1>4. PoolLeads("takeOfficial", f, po, t, o)
  BY DEF GoodAt, PoolLeads, Late
<1>5. OfficialLeads("takeOfficial", f, ac, t, o)
  <2>1. CASE ~ f
    <3>1. /\ o = <<>> /\ Len(o) = 0 /\ Len(t) \in Nat /\ Len(o) + Len(t) = Len(t)
          /\ \A i \in 1 .. Len(t) : Len(o) + i = i
      BY <1>0, <2>1, Nothing
    <3>2. Merging(ac, o, t)
      BY <3>1 DEF Merging
    <3> QED
      BY <3>2 DEF OfficialLeads, Late
  <2>2. CASE f
    BY <2>2 DEF OfficialLeads
  <2> QED
    BY <2>1, <2>2
<1>6. OnItsWay("takeOfficial", po, ac, t, o, pr)
  <2>1. ac # <<>> => t # <<>>
    BY Nothing
  <2> QED
    BY <1>0, <2>1, Places DEF GoodAt, OnItsWay, Late
<1> QED
  BY <1>2, <1>3, <1>4, <1>5, <1>6 DEF GoodAt

LEMMA OfficialTakenGood ==
    ASSUME NEW f \in BOOLEAN, NEW pend, NEW rest, NEW pr,
           NEW po \in Seq(IPs), NEW ac \in Seq(IPs), NEW o \in Seq(IPs),
           GoodAt("takeOfficial", f, pend, po, ac, <<>>, o, pr),
           NEW q, q = IF Len(o) < MaxHints THEN "probeReach" ELSE "takeReach"
    PROVE  GoodAt(q, f, rest, po, ac, <<>>, o, pr)
<1>1. /\ Distinct(q, rest, po, ac) /\ Backed(q, po, ac, <<>>, o, pr)
      /\ Room(q, f, <<>>, o) /\ PoolLeads(q, f, po, <<>>, o)
  BY Places DEF GoodAt, Distinct, Backed, Room, PoolLeads, Late
<1>2. OfficialLeads(q, f, ac, <<>>, o)
  <2>1. CASE ~ f
    <3>1. Merging(ac, o, <<>>)
      BY <2>1 DEF GoodAt, OfficialLeads
    <3>2. Len(o) \in Nat /\ Len(ac) \in Nat /\ Len(o) + Len(<<>>) = Len(o)
      BY Nothing, Sums
    <3>3. /\ \A i \in 1 .. Len(o) : o[i] = ac[i]
          /\ Len(o) <= Len(ac)
          /\ Len(o) = Len(ac) \/ Len(o) >= MaxHints
      BY <3>1, <3>2 DEF Merging
    <3>4. \A i \in 1 .. Len(o) : o[i] \in ToSet(ac)
      <4>1. \A i \in 1 .. Len(o) : i \in 1 .. Len(ac)
        BY <3>2, <3>3
      <4> QED
        BY <3>3, <4>1, Elements
    <3>5. ToSet(o) \subseteq ToSet(ac)
      BY <3>4, Elements
    <3>6. Len(o) = Len(ac) => ToSet(ac) \subseteq ToSet(o)
      <4>1. ASSUME Len(o) = Len(ac), NEW x \in ToSet(ac) PROVE x \in ToSet(o)
        <5>1. PICK i \in 1 .. Len(ac) : ac[i] = x
          BY Elements
        <5>2. i \in 1 .. Len(o) /\ o[i] = x
          BY <3>3, <4>1, <5>1
        <5> QED
          BY <5>2, Elements
      <4> QED
        BY <4>1
    <3> QED
      BY <3>3, <3>4, <3>5, <3>6 DEF OfficialLeads
  <2>2. CASE f
    BY <2>2 DEF OfficialLeads
  <2> QED
    BY <2>1, <2>2
<1>3. OnItsWay(q, po, ac, <<>>, o, pr)
  BY Places DEF GoodAt, OnItsWay, Late
<1> QED
  BY <1>1, <1>2, <1>3 DEF GoodAt

\* A reachable address passes.
LEMMA ReachGood ==
    ASSUME NEW f \in BOOLEAN, NEW pend, NEW rest, NEW pr,
           NEW po \in Seq(IPs), NEW ac \in Seq(IPs), NEW td \in Seq(IPs), NEW o \in Seq(IPs),
           GoodAt("probeReach", f, pend, po, ac, td, o, pr), NEW x \in IPs
    PROVE  GoodAt("takeReach", f, rest, po, ac, <<x>>, o, pr \cup {x})
<1>0. /\ Len(o) < MaxHints /\ IsInjective(o)
      /\ Len(o) <= MaxHints + (IF f THEN 1 ELSE 0)
      /\ ToSet(po) \subseteq pr /\ ToSet(ac) \subseteq pr /\ ToSet(o) \subseteq pr
  BY Places DEF GoodAt, Backed, Room
<1>1. /\ <<x>> # <<>> /\ ToSet(<<x>>) = {x}
  <2>1. <<x>> \in Seq(IPs) /\ <<x>> # <<>> /\ DOMAIN <<x>> = {1} /\ <<x>>[1] = x
    OBVIOUS
  <2> QED
    BY <2>1 DEF ToSet
<1>2. Distinct("takeReach", rest, po, ac) /\ Backed("takeReach", po, ac, <<x>>, o, pr \cup {x})
  BY <1>0, <1>1, Places DEF GoodAt, Distinct, Backed
<1>3. Room("takeReach", f, <<x>>, o)
  BY <1>0, Places DEF Room
<1>4. PoolLeads("takeReach", f, po, <<x>>, o) /\ OfficialLeads("takeReach", f, ac, <<x>>, o)
  BY DEF GoodAt, PoolLeads, OfficialLeads, Late
<1>5. OnItsWay("takeReach", po, ac, <<x>>, o, pr \cup {x})
  BY <1>1, Places DEF GoodAt, OnItsWay, Late
<1> QED
  BY <1>2, <1>3, <1>4, <1>5 DEF GoodAt

\* No reachable address passes.
LEMMA ReachNoneGood ==
    ASSUME NEW f \in BOOLEAN, NEW pend, NEW pr,
           NEW po \in Seq(IPs), NEW ac \in Seq(IPs), NEW td \in Seq(IPs), NEW o \in Seq(IPs),
           GoodAt("probeReach", f, pend, po, ac, td, o, pr)
    PROVE  GoodAt("takeReach", f, pend, po, ac, td, o, pr)
<1>1. td = <<>>
  BY Places DEF GoodAt, Backed
<1>2. Distinct("takeReach", pend, po, ac) /\ Backed("takeReach", po, ac, td, o, pr)
  BY Places DEF GoodAt, Distinct, Backed
<1>3. Room("takeReach", f, td, o)
  BY <1>1, Places DEF GoodAt, Room
<1>4. /\ PoolLeads("takeReach", f, po, td, o) /\ OfficialLeads("takeReach", f, ac, td, o)
      /\ OnItsWay("takeReach", po, ac, td, o, pr)
  BY <1>1, Places DEF GoodAt, PoolLeads, OfficialLeads, OnItsWay, Late
<1> QED
  BY <1>2, <1>3, <1>4 DEF GoodAt

\* What is merged after the reachable address: the pool again for a poolFirst
\* flight, the pool as spare addresses while there is room, nothing.
LEMMA NextListGood ==
    ASSUME NEW p, NEW q, NEW f \in BOOLEAN, NEW pend, NEW pr,
           NEW po \in Seq(IPs), NEW ac \in Seq(IPs), NEW o \in Seq(IPs),
           GoodAt(p, f, pend, po, ac, <<>>, o, pr), NEW t,
           \/ /\ p = "takeReach" /\ q = "takeAgain"
              /\ t = IF f THEN po ELSE <<>>
           \/ /\ p = "takeAgain" /\ q = "takeSpare"
              /\ t = IF Len(o) < MaxHints THEN po ELSE <<>>
           \/ p = "takeSpare" /\ q = "publish" /\ t = <<>>
    PROVE  GoodAt(q, f, pend, po, ac, t, o, pr)
<1>1. /\ p \in Late /\ q \in Late /\ p \in Building /\ q \in Building
      /\ p \in Owning /\ q \in Owning
  BY Places DEF Late
<1>2. Distinct(q, pend, po, ac)
  BY <1>1 DEF GoodAt, Distinct
<1>3. Backed(q, po, ac, t, o, pr)
  BY <1>1, Nothing, Places DEF GoodAt, Backed
<1>4. Room(q, f, t, o)
  <2>1. IsInjective(o) /\ Len(o) <= MaxHints + (IF f THEN 1 ELSE 0)
    BY <1>1 DEF GoodAt, Room
  <2>2. ASSUME q = "takeAgain", t # <<>>
        PROVE  f /\ (Len(o) < MaxHints \/ t[1] \in ToSet(o))
    <3>1. f /\ t = po /\ p = "takeReach"
      BY <2>2
    <3>2. CASE ~ (Len(o) < MaxHints)
      <4>1. Len(o) >= 1 /\ Len(po) >= 1 /\ 1 \in 1 .. MaxHints /\ 1 \in 1 .. Len(o)
        BY <2>2, <3>1, <3>2
      <4>2. o[1] = po[1]
        BY <3>1, <4>1 DEF GoodAt, PoolLeads, Late
      <4> QED
        BY <3>1, <4>1, <4>2, Elements
    <3> QED
      BY <3>1, <3>2
  <2>3. q = "takeSpare" /\ t # <<>> => Len(o) < MaxHints
    OBVIOUS
  <2>4. q = "publish" => t = <<>>
    OBVIOUS
  <2> QED
    BY <2>1, <2>2, <2>3, <2>4 DEF Room
<1>5. PoolLeads(q, f, po, t, o) /\ OfficialLeads(q, f, ac, t, o)
  BY <1>1 DEF GoodAt, PoolLeads, OfficialLeads, Late
<1>6. OnItsWay(q, po, ac, t, o, pr)
  <2>1. (Len(o) < MaxHints) \/ o # <<>>
    BY Nothing
  <2> QED
    BY <1>1, <2>1 DEF GoodAt, OnItsWay, Late
<1> QED
  BY <1>2, <1>3, <1>4, <1>5, <1>6 DEF GoodAt

-----------------------------------------------------------------------------
(* The steps of the specification.                                         *)

Flight(c) == <<pc[c], poolFirst[c], pending[c], poolOut[c], accepted[c], todo[c], out[c], proven[c]>>

\* A step leaves the flights of the others be.
OthersKeep(c) == \A d \in Callers \ {c} : Flight(d)' = Flight(d)

\* The flight of c after a step.
Becomes(c, p, f, pend, po, ac, td, o, pr) ==
    /\ pc'[c] = p /\ poolFirst'[c] = f /\ pending'[c] = pend /\ poolOut'[c] = po
    /\ accepted'[c] = ac /\ todo'[c] = td /\ out'[c] = o /\ proven'[c] = pr

\* The flights are typed.
LEMMA FlightType ==
    ASSUME TypeOK, NEW c \in Callers
    PROVE  /\ poolFirst[c] \in BOOLEAN /\ pending[c] \in SUBSET IPs
           /\ poolOut[c] \in Seq(IPs) /\ accepted[c] \in Seq(IPs)
           /\ todo[c] \in Seq(IPs) /\ out[c] \in Seq(IPs)
           /\ official[c] \in SUBSET IPs
  BY DEF TypeOK

LEMMA OthersGood ==
    ASSUME AnswerInv, NEW c \in Callers, OthersKeep(c), Good(c)'
    PROVE  AnswerInv'
<1>1. ASSUME NEW d \in Callers \ {c} PROVE Good(d)'
  BY <1>1 DEF AnswerInv, Good, OthersKeep, Flight
<1> QED
  BY <1>1 DEF AnswerInv

LEMMA AllGood ==
    ASSUME AnswerInv, \A d \in Callers : Flight(d)' = Flight(d)
    PROVE  AnswerInv'
  BY DEF AnswerInv, Good, Flight

LEMMA BecomesGood ==
    ASSUME AnswerInv, NEW c \in Callers, OthersKeep(c),
           NEW p, NEW f, NEW pend, NEW po, NEW ac, NEW td, NEW o, NEW pr,
           Becomes(c, p, f, pend, po, ac, td, o, pr),
           GoodAt(p, f, pend, po, ac, td, o, pr)
    PROVE  AnswerInv'
<1>1. Good(c)'
  BY DEF Good, Becomes
<1> QED
  BY <1>1, OthersGood

\* The invariant holds at first, and every step keeps it.
LEMMA AnswerInit == Init => AnswerInv
<1>1. ASSUME Init, NEW c \in Callers PROVE Good(c)
  <2>1. /\ pc[c] = "idle" /\ poolFirst[c] = FALSE /\ pending[c] = {} /\ poolOut[c] = <<>>
        /\ accepted[c] = <<>> /\ todo[c] = <<>> /\ out[c] = <<>> /\ proven[c] = {}
    BY <1>1 DEF Init
  <2>2. GoodAt("idle", FALSE, {}, <<>>, <<>>, <<>>, <<>>, {})
    BY EmptyGood
  <2> QED
    BY <2>1, <2>2 DEF Good
<1> QED
  BY <1>1 DEF AnswerInv

LEMMA CallStep ==
    ASSUME TypeOK, AnswerInv, NEW c \in Callers,
           Call(c) \/ Hit(c) \/ Join(c) \/ Register(c)
    PROVE  AnswerInv'
<1>1. /\ OthersKeep(c) /\ poolFirst'[c] \in BOOLEAN
      /\ \E q \in {"lookup", "return", "wait", "lookupOfficial"} :
           /\ Becomes(c, q, poolFirst'[c], pending[c], poolOut[c], accepted[c], todo[c], out[c], proven[c])
           /\ \/ pc[c] = "idle" /\ q = "lookup"
              \/ pc[c] = "lookup" /\ q # "lookup" /\ poolFirst'[c] = poolFirst[c]
  <2>1. CASE Call(c)
    BY <2>1 DEF TypeOK, Call, GoTo, OthersKeep, Flight, Becomes, hintVars, probeVars
  <2>2. CASE Hit(c) \/ Join(c) \/ Register(c)
    BY <2>2 DEF TypeOK, Hit, Join, Register, GoTo, OthersKeep, Flight, Becomes, callVars, flightVars
  <2> QED
    BY <2>1, <2>2
<1>2. PICK q \in {"lookup", "return", "wait", "lookupOfficial"} :
        /\ Becomes(c, q, poolFirst'[c], pending[c], poolOut[c], accepted[c], todo[c], out[c], proven[c])
        /\ \/ pc[c] = "idle" /\ q = "lookup"
           \/ pc[c] = "lookup" /\ q # "lookup" /\ poolFirst'[c] = poolFirst[c]
  BY <1>1
<1>3. GoodAt(pc[c], poolFirst[c], pending[c], poolOut[c], accepted[c], todo[c], out[c], proven[c])
  BY DEF AnswerInv, Good
<1>4. GoodAt(q, poolFirst'[c], pending[c], poolOut[c], accepted[c], todo[c], out[c], proven[c])
  BY <1>1, <1>2, <1>3, FlightType, QuietGood
<1> QED
  BY <1>1, <1>2, <1>4, BecomesGood

LEMMA LookupOfficialStep ==
    ASSUME TypeOK, AnswerInv, NEW c \in Callers, LookupOfficial(c)
    PROVE  AnswerInv'
<1>1. /\ OthersKeep(c) /\ pc[c] = "lookupOfficial"
      /\ Becomes(c, "probePool", poolFirst[c], Pool, <<>>, <<>>, todo[c], <<>>, {})
  BY DEF TypeOK, LookupOfficial, GoTo, OthersKeep, Flight, Becomes, callVars
<1>2. todo[c] = <<>>
  BY <1>1, Places DEF AnswerInv, Good, GoodAt, Backed
<1>3. GoodAt("probePool", poolFirst[c], Pool, <<>>, <<>>, todo[c], <<>>, {})
  BY <1>2, FlightType, EmptyGood
<1> QED
  BY <1>1, <1>3, BecomesGood

LEMMA PoolVerdictStep ==
    ASSUME TypeOK, AnswerInv, NEW c \in Callers, PoolVerdict(c)
    PROVE  AnswerInv'
<1>1. PICK ip \in pending[c], passed \in BOOLEAN :
        /\ pending' = [pending EXCEPT ![c] = @ \ {ip}]
        /\ poolOut' = IF passed THEN [poolOut EXCEPT ![c] = Append(@, ip)] ELSE poolOut
        /\ Prove(c, ip, passed)
  BY DEF PoolVerdict
<1>2. pc[c] = "probePool" /\ UNCHANGED <<pc, poolFirst, accepted, todo, out>>
  BY DEF PoolVerdict, callVars
<1>3. GoodAt("probePool", poolFirst[c], pending[c], poolOut[c], accepted[c], todo[c], out[c], proven[c])
  BY <1>2 DEF AnswerInv, Good
<1>4. OthersKeep(c)
  BY <1>1, <1>2 DEF TypeOK, OthersKeep, Flight, Prove
<1>5. CASE passed
  <2>1. Becomes(c, "probePool", poolFirst[c], pending[c] \ {ip}, Append(poolOut[c], ip),
                accepted[c], todo[c], out[c], proven[c] \cup {ip})
    BY <1>1, <1>2, <1>5 DEF TypeOK, Becomes, Prove
  <2>2. GoodAt("probePool", poolFirst[c], pending[c] \ {ip}, Append(poolOut[c], ip),
               accepted[c], todo[c], out[c], proven[c] \cup {ip})
    BY <1>3, FlightType, PoolGood
  <2> QED
    BY <1>4, <2>1, <2>2, BecomesGood
<1>6. CASE ~ passed
  <2>1. Becomes(c, "probePool", poolFirst[c], pending[c] \ {ip}, poolOut[c],
                accepted[c], todo[c], out[c], proven[c])
    BY <1>1, <1>2, <1>6 DEF TypeOK, Becomes, Prove
  <2>2. GoodAt("probePool", poolFirst[c], pending[c] \ {ip}, poolOut[c],
               accepted[c], todo[c], out[c], proven[c])
    BY <1>3, FewerGood
  <2> QED
    BY <1>4, <2>1, <2>2, BecomesGood
<1> QED
  BY <1>5, <1>6

LEMMA PoolDoneStep ==
    ASSUME TypeOK, AnswerInv, NEW c \in Callers, PoolDone(c)
    PROVE  AnswerInv'
<1> DEFINE t == IF poolFirst[c] THEN poolOut[c] ELSE <<>>
<1>1. /\ OthersKeep(c) /\ pc[c] = "probePool"
      /\ Becomes(c, "takeFirst", poolFirst[c], pending[c], poolOut[c], accepted[c], t, out[c], proven[c])
  BY DEF TypeOK, PoolDone, GoTo, OthersKeep, Flight, Becomes, callVars
<1>2. GoodAt("probePool", poolFirst[c], pending[c], poolOut[c], accepted[c], todo[c], out[c], proven[c])
  BY <1>1 DEF AnswerInv, Good
<1>3. GoodAt("takeFirst", poolFirst[c], pending[c], poolOut[c], accepted[c], t, out[c], proven[c])
  BY <1>2, FlightType, PoolDoneGood
<1> QED
  BY <1>1, <1>3, BecomesGood

LEMMA OfficialVerdictStep ==
    ASSUME TypeOK, AnswerInv, NEW c \in Callers, OfficialVerdict(c)
    PROVE  AnswerInv'
<1>1. PICK ip \in pending[c], passed \in BOOLEAN :
        /\ pending' = [pending EXCEPT ![c] = @ \ {ip}]
        /\ accepted' = IF passed THEN [accepted EXCEPT ![c] = Append(@, ip)] ELSE accepted
        /\ Prove(c, ip, passed)
  BY DEF OfficialVerdict
<1>2. pc[c] = "probeOfficial" /\ UNCHANGED <<pc, poolFirst, poolOut, todo, out>>
  BY DEF OfficialVerdict, callVars
<1>3. GoodAt("probeOfficial", poolFirst[c], pending[c], poolOut[c], accepted[c], todo[c], out[c], proven[c])
  BY <1>2 DEF AnswerInv, Good
<1>4. OthersKeep(c)
  BY <1>1, <1>2 DEF TypeOK, OthersKeep, Flight, Prove
<1>5. CASE passed
  <2>1. Becomes(c, "probeOfficial", poolFirst[c], pending[c] \ {ip}, poolOut[c],
                Append(accepted[c], ip), todo[c], out[c], proven[c] \cup {ip})
    BY <1>1, <1>2, <1>5 DEF TypeOK, Becomes, Prove
  <2>2. GoodAt("probeOfficial", poolFirst[c], pending[c] \ {ip}, poolOut[c],
               Append(accepted[c], ip), todo[c], out[c], proven[c] \cup {ip})
    BY <1>3, FlightType, OfficialGood
  <2> QED
    BY <1>4, <2>1, <2>2, BecomesGood
<1>6. CASE ~ passed
  <2>1. Becomes(c, "probeOfficial", poolFirst[c], pending[c] \ {ip}, poolOut[c],
                accepted[c], todo[c], out[c], proven[c])
    BY <1>1, <1>2, <1>6 DEF TypeOK, Becomes, Prove
  <2>2. GoodAt("probeOfficial", poolFirst[c], pending[c] \ {ip}, poolOut[c],
               accepted[c], todo[c], out[c], proven[c])
    BY <1>3, FewerGood
  <2> QED
    BY <1>4, <2>1, <2>2, BecomesGood
<1> QED
  BY <1>5, <1>6

LEMMA OfficialDoneStep ==
    ASSUME TypeOK, AnswerInv, NEW c \in Callers, OfficialDone(c)
    PROVE  AnswerInv'
<1>1. pc[c] = "probeOfficial" /\ UNCHANGED <<poolFirst, poolOut, accepted, out, proven>>
  BY DEF OfficialDone, callVars
<1>2. GoodAt("probeOfficial", poolFirst[c], pending[c], poolOut[c], accepted[c], todo[c], out[c], proven[c])
  BY <1>1 DEF AnswerInv, Good
<1>3. CASE Len(accepted[c]) \in 1 .. (MaxHints - 1)
  <2>1. PICK drawn \in SUBSET (Subnet[accepted[c][1]] \ ToSet(accepted[c])) :
          pending' = [pending EXCEPT ![c] = drawn]
    BY <1>3 DEF OfficialDone
  <2>2. pc' = [pc EXCEPT ![c] = "sample"] /\ UNCHANGED todo
    BY <1>3 DEF OfficialDone, GoTo
  <2>3. OthersKeep(c)
    BY <1>1, <2>1, <2>2 DEF TypeOK, OthersKeep, Flight
  <2>4. Becomes(c, "sample", poolFirst[c], drawn, poolOut[c], accepted[c], todo[c], out[c], proven[c])
    BY <1>1, <2>1, <2>2 DEF TypeOK, Becomes
  <2>5. drawn \cap ToSet(accepted[c]) = {}
    OBVIOUS
  <2>6. GoodAt("sample", poolFirst[c], drawn, poolOut[c], accepted[c], todo[c], out[c], proven[c])
    BY <1>2, <2>5, FlightType, SampleGood
  <2> QED
    BY <2>3, <2>4, <2>6, BecomesGood
<1>4. CASE Len(accepted[c]) \notin 1 .. (MaxHints - 1)
  <2> DEFINE t == IF Len(accepted[c]) > MaxHints
                  THEN SubSeq(accepted[c], 1, MaxHints) ELSE accepted[c]
  <2>1. todo' = [todo EXCEPT ![c] = t] /\ pc' = [pc EXCEPT ![c] = "takeOfficial"] /\ UNCHANGED pending
    BY <1>4 DEF OfficialDone, GoTo
  <2>2. /\ OthersKeep(c)
        /\ Becomes(c, "takeOfficial", poolFirst[c], pending[c], poolOut[c], accepted[c], t, out[c], proven[c])
    <3> HIDE DEF t
    <3> QED
      BY <1>1, <2>1 DEF TypeOK, OthersKeep, Flight, Becomes
  <2>3. /\ t \in Seq(IPs) /\ Len(t) <= Len(accepted[c])
        /\ \A i \in 1 .. Len(t) : t[i] = accepted[c][i]
        /\ Len(t) = Len(accepted[c]) \/ Len(t) >= MaxHints
    <3>1. CASE Len(accepted[c]) > MaxHints
      <4>1. /\ t \in Seq(IPs) /\ Len(t) = MaxHints
            /\ \A i \in 1 .. MaxHints : t[i] = accepted[c][i]
        BY <3>1, FlightType, PrefixType
      <4> QED
        BY <3>1, <4>1, FlightType
    <3>2. CASE ~ (Len(accepted[c]) > MaxHints)
      BY <3>2, FlightType
    <3> QED
      BY <3>1, <3>2
  <2>4. GoodAt("takeOfficial", poolFirst[c], pending[c], poolOut[c], accepted[c], t, out[c], proven[c])
    <3> HIDE DEF t
    <3> QED
      BY <1>2, <2>3, FlightType, ToOfficialGood
  <2> QED
    BY <2>2, <2>4, BecomesGood
<1> QED
  BY <1>3, <1>4

LEMMA SampleVerdictStep ==
    ASSUME TypeOK, AnswerInv, NEW c \in Callers, SampleVerdict(c)
    PROVE  AnswerInv'
<1>1. PICK ip \in pending[c], passed \in BOOLEAN :
        /\ Prove(c, ip, passed)
        /\ IF passed
           THEN /\ accepted' = [accepted EXCEPT ![c] = Append(@, ip)]
                /\ todo' = [todo EXCEPT ![c] = Append(accepted[c], ip)]
                /\ Abandon(c, pending[c] \ {ip})
                /\ GoTo(c, "takeOfficial")
           ELSE /\ pending' = [pending EXCEPT ![c] = @ \ {ip}]
                /\ UNCHANGED <<pc, accepted, todo, stray>>
  BY DEF SampleVerdict
<1>2. pc[c] = "sample" /\ UNCHANGED <<poolFirst, poolOut, out>>
  BY DEF SampleVerdict, callVars
<1>3. GoodAt("sample", poolFirst[c], pending[c], poolOut[c], accepted[c], todo[c], out[c], proven[c])
  BY <1>2 DEF AnswerInv, Good
<1>4. OthersKeep(c)
  BY <1>1, <1>2 DEF TypeOK, OthersKeep, Flight, Prove, Abandon, GoTo
<1>5. CASE passed
  <2> DEFINE a == Append(accepted[c], ip)
  <2>1. Becomes(c, "takeOfficial", poolFirst[c], {}, poolOut[c], a, a, out[c], proven[c] \cup {ip})
    BY <1>1, <1>2, <1>5 DEF TypeOK, Becomes, Prove, Abandon, GoTo
  <2>2. GoodAt("sample", poolFirst[c], pending[c] \ {ip}, poolOut[c], a, todo[c], out[c], proven[c] \cup {ip})
    BY <1>3, FlightType, OfficialGood
  <2>3. a \in Seq(IPs) /\ Len(a) \in Nat
    BY FlightType
  <2>4. GoodAt("takeOfficial", poolFirst[c], {}, poolOut[c], a, a, out[c], proven[c] \cup {ip})
    <3> HIDE DEF a
    <3> QED
      BY <2>2, <2>3, FlightType, ToOfficialGood
  <2> QED
    BY <1>4, <2>1, <2>4, BecomesGood
<1>6. CASE ~ passed
  <2>1. Becomes(c, "sample", poolFirst[c], pending[c] \ {ip}, poolOut[c],
                accepted[c], todo[c], out[c], proven[c])
    BY <1>1, <1>2, <1>6 DEF TypeOK, Becomes, Prove
  <2>2. GoodAt("sample", poolFirst[c], pending[c] \ {ip}, poolOut[c],
               accepted[c], todo[c], out[c], proven[c])
    BY <1>3, FewerGood
  <2> QED
    BY <1>4, <2>1, <2>2, BecomesGood
<1> QED
  BY <1>5, <1>6

LEMMA SampleDoneStep ==
    ASSUME TypeOK, AnswerInv, NEW c \in Callers, SampleDone(c)
    PROVE  AnswerInv'
<1>1. /\ OthersKeep(c) /\ pc[c] = "sample"
      /\ Becomes(c, "takeOfficial", poolFirst[c], pending[c], poolOut[c], accepted[c], accepted[c], out[c], proven[c])
  BY DEF TypeOK, SampleDone, GoTo, OthersKeep, Flight, Becomes, callVars
<1>2. GoodAt("sample", poolFirst[c], pending[c], poolOut[c], accepted[c], todo[c], out[c], proven[c])
  BY <1>1 DEF AnswerInv, Good
<1>3. Len(accepted[c]) \in Nat
  BY FlightType
<1>4. GoodAt("takeOfficial", poolFirst[c], pending[c], poolOut[c], accepted[c], accepted[c], out[c], proven[c])
  BY <1>2, <1>3, FlightType, ToOfficialGood
<1> QED
  BY <1>1, <1>4, BecomesGood

LEMMA ReachVerdictStep ==
    ASSUME TypeOK, AnswerInv, NEW c \in Callers, ReachVerdict(c)
    PROVE  AnswerInv'
<1>1. PICK ip \in pending[c], passed \in BOOLEAN :
        /\ Prove(c, ip, passed)
        /\ IF passed
           THEN /\ todo' = [todo EXCEPT ![c] = <<ip>>]
                /\ Abandon(c, pending[c] \ {ip})
                /\ GoTo(c, "takeReach")
           ELSE /\ pending' = [pending EXCEPT ![c] = @ \ {ip}]
                /\ UNCHANGED <<pc, todo, stray>>
  BY DEF ReachVerdict
<1>2. pc[c] = "probeReach" /\ UNCHANGED <<poolFirst, poolOut, accepted, out>>
  BY DEF ReachVerdict, callVars
<1>3. GoodAt("probeReach", poolFirst[c], pending[c], poolOut[c], accepted[c], todo[c], out[c], proven[c])
  BY <1>2 DEF AnswerInv, Good
<1>4. OthersKeep(c)
  BY <1>1, <1>2 DEF TypeOK, OthersKeep, Flight, Prove, Abandon, GoTo
<1>5. CASE passed
  <2>1. Becomes(c, "takeReach", poolFirst[c], {}, poolOut[c], accepted[c], <<ip>>, out[c], proven[c] \cup {ip})
    BY <1>1, <1>2, <1>5 DEF TypeOK, Becomes, Prove, Abandon, GoTo
  <2>2. GoodAt("takeReach", poolFirst[c], {}, poolOut[c], accepted[c], <<ip>>, out[c], proven[c] \cup {ip})
    BY <1>3, FlightType, ReachGood
  <2> QED
    BY <1>4, <2>1, <2>2, BecomesGood
<1>6. CASE ~ passed
  <2>1. Becomes(c, "probeReach", poolFirst[c], pending[c] \ {ip}, poolOut[c],
                accepted[c], todo[c], out[c], proven[c])
    BY <1>1, <1>2, <1>6 DEF TypeOK, Becomes, Prove
  <2>2. GoodAt("probeReach", poolFirst[c], pending[c] \ {ip}, poolOut[c],
               accepted[c], todo[c], out[c], proven[c])
    BY <1>3, FewerGood
  <2> QED
    BY <1>4, <2>1, <2>2, BecomesGood
<1> QED
  BY <1>5, <1>6

LEMMA ReachDoneStep ==
    ASSUME TypeOK, AnswerInv, NEW c \in Callers, ReachDone(c)
    PROVE  AnswerInv'
<1>1. /\ OthersKeep(c) /\ pc[c] = "probeReach"
      /\ Becomes(c, "takeReach", poolFirst[c], pending[c], poolOut[c], accepted[c], todo[c], out[c], proven[c])
  BY DEF TypeOK, ReachDone, GoTo, OthersKeep, Flight, Becomes, callVars, flightVars
<1>2. GoodAt("probeReach", poolFirst[c], pending[c], poolOut[c], accepted[c], todo[c], out[c], proven[c])
  BY <1>1 DEF AnswerInv, Good
<1>3. GoodAt("takeReach", poolFirst[c], pending[c], poolOut[c], accepted[c], todo[c], out[c], proven[c])
  BY <1>2, FlightType, ReachNoneGood
<1> QED
  BY <1>1, <1>3, BecomesGood

LEMMA TakeNextStep ==
    ASSUME TypeOK, AnswerInv, NEW c \in Callers, TakeNext(c)
    PROVE  AnswerInv'
<1> DEFINE g == Grow(out[c], todo[c])
           t == Rest(g, todo[c])
<1>1. pc[c] \in Taking /\ todo[c] # <<>>
  BY DEF TakeNext
<1>2. out' = [out EXCEPT ![c] = g] /\ todo' = [todo EXCEPT ![c] = t]
  BY DEF TypeOK, TakeNext, Grow, Rest
<1>3. UNCHANGED <<pc, poolFirst, pending, poolOut, accepted, proven>>
  BY DEF TakeNext, callVars
<1>4. /\ OthersKeep(c)
      /\ Becomes(c, pc[c], poolFirst[c], pending[c], poolOut[c], accepted[c], t, g, proven[c])
  <2> HIDE DEF g, t
  <2> QED
    BY <1>2, <1>3 DEF TypeOK, OthersKeep, Flight, Becomes
<1>5. GoodAt(pc[c], poolFirst[c], pending[c], poolOut[c], accepted[c], todo[c], out[c], proven[c])
  BY DEF AnswerInv, Good
<1>6. GoodAt(pc[c], poolFirst[c], pending[c], poolOut[c], accepted[c], t, g, proven[c])
  BY <1>1, <1>5, FlightType, TakeGood
<1> QED
  BY <1>4, <1>6, BecomesGood

LEMMA FirstTakenStep ==
    ASSUME TypeOK, AnswerInv, NEW c \in Callers, FirstTaken(c)
    PROVE  AnswerInv'
<1>1. /\ OthersKeep(c) /\ pc[c] = "takeFirst" /\ todo[c] = <<>>
      /\ Becomes(c, "probeOfficial", poolFirst[c], official[c], poolOut[c], accepted[c], <<>>, out[c], proven[c])
  BY DEF TypeOK, FirstTaken, GoTo, OthersKeep, Flight, Becomes, callVars
<1>2. GoodAt("takeFirst", poolFirst[c], pending[c], poolOut[c], accepted[c], <<>>, out[c], proven[c])
  BY <1>1 DEF AnswerInv, Good
<1>3. GoodAt("probeOfficial", poolFirst[c], official[c], poolOut[c], accepted[c], <<>>, out[c], proven[c])
  BY <1>2, FlightType, FirstTakenGood
<1> QED
  BY <1>1, <1>3, BecomesGood

LEMMA OfficialTakenStep ==
    ASSUME TypeOK, AnswerInv, NEW c \in Callers, OfficialTaken(c)
    PROVE  AnswerInv'
<1> DEFINE q == IF Len(out[c]) < MaxHints THEN "probeReach" ELSE "takeReach"
<1>1. pc[c] = "takeOfficial" /\ todo[c] = <<>>
      /\ UNCHANGED <<poolFirst, poolOut, accepted, todo, out, proven>>
  BY DEF OfficialTaken, callVars
<1>2. /\ pc' = [pc EXCEPT ![c] = q]
      /\ \/ pending' = [pending EXCEPT ![c] = Reach]
         \/ UNCHANGED pending
  BY DEF OfficialTaken, GoTo
<1>3. /\ OthersKeep(c)
      /\ Becomes(c, q, poolFirst[c], pending'[c], poolOut[c], accepted[c], <<>>, out[c], proven[c])
  <2> HIDE DEF q
  <2> QED
    BY <1>1, <1>2 DEF TypeOK, OthersKeep, Flight, Becomes
<1>4. GoodAt("takeOfficial", poolFirst[c], pending[c], poolOut[c], accepted[c], <<>>, out[c], proven[c])
  BY <1>1 DEF AnswerInv, Good
<1>5. GoodAt(q, poolFirst[c], pending'[c], poolOut[c], accepted[c], <<>>, out[c], proven[c])
  BY <1>4, FlightType, OfficialTakenGood
<1> QED
  BY <1>3, <1>5, BecomesGood

LEMMA NextListStep ==
    ASSUME TypeOK, AnswerInv, NEW c \in Callers,
           ReachTaken(c) \/ AgainTaken(c) \/ SpareTaken(c)
    PROVE  AnswerInv'
<1>1. /\ todo[c] = <<>>
      /\ UNCHANGED <<poolFirst, pending, poolOut, accepted, out, proven>>
  BY DEF ReachTaken, AgainTaken, SpareTaken, callVars, flightVars
<1>2. PICK q, t :
        /\ pc' = [pc EXCEPT ![c] = q] /\ todo' = [todo EXCEPT ![c] = t]
        /\ \/ /\ pc[c] = "takeReach" /\ q = "takeAgain"
              /\ t = IF poolFirst[c] THEN poolOut[c] ELSE <<>>
           \/ /\ pc[c] = "takeAgain" /\ q = "takeSpare"
              /\ t = IF Len(out[c]) < MaxHints THEN poolOut[c] ELSE <<>>
           \/ pc[c] = "takeSpare" /\ q = "publish" /\ t = <<>>
  <2>1. CASE ReachTaken(c)
    BY <2>1 DEF ReachTaken, GoTo
  <2>2. CASE AgainTaken(c)
    BY <2>2 DEF AgainTaken, GoTo
  <2>3. CASE SpareTaken(c)
    <3>1. todo' = [todo EXCEPT ![c] = <<>>]
      BY <2>3, <1>1 DEF TypeOK, SpareTaken, flightVars
    <3> QED
      BY <2>3, <3>1 DEF SpareTaken, GoTo
  <2> QED
    BY <2>1, <2>2, <2>3
<1>3. /\ OthersKeep(c)
      /\ Becomes(c, q, poolFirst[c], pending[c], poolOut[c], accepted[c], t, out[c], proven[c])
  BY <1>1, <1>2 DEF TypeOK, OthersKeep, Flight, Becomes
<1>4. GoodAt(pc[c], poolFirst[c], pending[c], poolOut[c], accepted[c], <<>>, out[c], proven[c])
  BY <1>1 DEF AnswerInv, Good
<1>5. GoodAt(q, poolFirst[c], pending[c], poolOut[c], accepted[c], t, out[c], proven[c])
  BY <1>2, <1>4, FlightType, NextListGood
<1> QED
  BY <1>3, <1>5, BecomesGood

LEMMA LeaveStep ==
    ASSUME TypeOK, AnswerInv, NEW c \in Callers, Publish(c) \/ Unmap(c)
    PROVE  AnswerInv'
<1>1. PICK q :
        /\ \/ pc[c] = "publish" /\ q = "unmap"
           \/ pc[c] = "unmap" /\ q = "done"
        /\ pc' = [pc EXCEPT ![c] = q]
  BY DEF Publish, Unmap, GoTo
<1>2. UNCHANGED <<poolFirst, pending, poolOut, accepted, todo, out, proven>>
  BY DEF Publish, Unmap, callVars, flightVars
<1>3. /\ OthersKeep(c)
      /\ Becomes(c, q, poolFirst[c], pending[c], poolOut[c], accepted[c], todo[c], out[c], proven[c])
  BY <1>1, <1>2 DEF TypeOK, OthersKeep, Flight, Becomes
<1>4. GoodAt(pc[c], poolFirst[c], pending[c], poolOut[c], accepted[c], todo[c], out[c], proven[c])
  BY DEF AnswerInv, Good
<1>5. GoodAt(q, poolFirst[c], pending[c], poolOut[c], accepted[c], todo[c], out[c], proven[c])
  BY <1>1, <1>4, FlightType, QuietGood
<1> QED
  BY <1>3, <1>5, BecomesGood

\* The only step that moves others: the waiters go back to the lookup.
LEMMA WgDoneStep ==
    ASSUME TypeOK, AnswerInv, NEW c \in Callers, WgDone(c)
    PROVE  AnswerInv'
<1>1. /\ UNCHANGED <<poolFirst, pending, poolOut, accepted, todo, out, proven>>
      /\ pc[c] = "done"
  BY DEF WgDone, flightVars
<1>2. ASSUME NEW d \in Callers PROVE Good(d)'
  <2>1. \/ pc'[d] = pc[d]
        \/ pc[d] = "done" /\ pc'[d] = "return"
        \/ pc[d] = "wait" /\ pc'[d] = "lookup"
    BY <1>1 DEF TypeOK, WgDone
  <2>2. GoodAt(pc[d], poolFirst[d], pending[d], poolOut[d], accepted[d], todo[d], out[d], proven[d])
    BY DEF AnswerInv, Good
  <2>3. GoodAt(pc'[d], poolFirst[d], pending[d], poolOut[d], accepted[d], todo[d], out[d], proven[d])
    BY <2>1, <2>2, FlightType, QuietGood
  <2> QED
    BY <1>1, <2>3 DEF Good
<1> QED
  BY <1>2 DEF AnswerInv

LEMMA ReturnStep ==
    ASSUME TypeOK, AnswerInv, NEW c \in Callers, Return(c)
    PROVE  AnswerInv'
<1>1. /\ OthersKeep(c) /\ pc[c] = "return"
      /\ Becomes(c, "idle", FALSE, pending[c], <<>>, <<>>, todo[c], <<>>, {})
  BY DEF TypeOK, Return, GoTo, OthersKeep, Flight, Becomes
<1>2. todo[c] = <<>>
  BY <1>1, Places DEF AnswerInv, Good, GoodAt, Backed
<1>3. GoodAt("idle", FALSE, pending[c], <<>>, <<>>, todo[c], <<>>, {})
  BY <1>2, EmptyGood
<1> QED
  BY <1>1, <1>3, BecomesGood

\* Time, merges and stray goroutines only touch the caches.
LEMMA OutsideStep ==
    ASSUME AnswerInv, Environment \/ UNCHANGED vars
    PROVE  AnswerInv'
<1>1. UNCHANGED <<pc, poolFirst, flightVars>>
  BY DEF Environment, ExpireHint, AgeVerdict, StrayVerdict, MergeVerdict, vars, callVars
<1> QED
  BY <1>1, AllGood DEF Flight, flightVars

\* What every flight has collected, proven and merged.
THEOREM AnswersGood == Spec => []AnswerInv
<1>1. TypeOK /\ AnswerInv /\ [Next]_vars => AnswerInv'
  <2> SUFFICES ASSUME TypeOK, AnswerInv, [Next]_vars PROVE AnswerInv'
    OBVIOUS
  <2>1. ASSUME NEW c \in Callers, Call(c) \/ Step(c) PROVE AnswerInv'
    BY <2>1, CallStep, LookupOfficialStep, PoolVerdictStep, PoolDoneStep,
       OfficialVerdictStep, OfficialDoneStep, SampleVerdictStep, SampleDoneStep,
       ReachVerdictStep, ReachDoneStep, TakeNextStep, FirstTakenStep,
       OfficialTakenStep, NextListStep, LeaveStep, WgDoneStep, ReturnStep
       DEF Step, Collect, Assemble
  <2> QED
    BY <2>1, OutsideStep DEF Next
<1> QED
  BY <1>1, AnswerInit, TypeCorrect, PTL DEF Spec

-----------------------------------------------------------------------------
(* What is answered.                                                       *)

\* Fail closed, for any pool, any official answers and any limit: an answer
\* holds only addresses that passed a handshake in the flight that built it,
\* and it is the nil answer only if no candidate passed.
THEOREM AnswersArePassed == Spec => []FailClosed
<1>1. AnswerInv /\ TypeOK => FailClosed
  <2> SUFFICES ASSUME AnswerInv, NEW c \in Callers, pc[c] = "publish"
               PROVE  /\ ToSet(out[c]) \subseteq proven[c]
                      /\ out[c] = <<>> => proven[c] = {}
    BY DEF FailClosed
  <2>1. /\ Backed("publish", poolOut[c], accepted[c], todo[c], out[c], proven[c])
        /\ OnItsWay("publish", poolOut[c], accepted[c], todo[c], out[c], proven[c])
    BY DEF AnswerInv, Good, GoodAt
  <2>2. todo[c] = <<>> /\ ToSet(out[c]) \subseteq proven[c]
    BY <2>1, Places DEF Backed
  <2>3. out[c] = <<>> => proven[c] = {}
    BY <2>1, <2>2, Places DEF OnItsWay, Late
  <2> QED
    BY <2>2, <2>3
<1> QED
  BY <1>1, AnswersGood, TypeCorrect, PTL

\* No answer repeats an address or is longer than max, a poolFirst answer
\* than max + 1: fullness is tested after the append, never before a stage.
THEOREM AnswersAreBounded == Spec => []FlightBounded
<1>1. AnswerInv => FlightBounded
  <2> SUFFICES ASSUME AnswerInv, NEW c \in Callers, pc[c] \in Owning
               PROVE  /\ Len(out[c]) <= MaxHints + (IF poolFirst[c] THEN 1 ELSE 0)
                      /\ IsInjective(out[c])
    BY DEF FlightBounded
  <2>1. Room(pc[c], poolFirst[c], todo[c], out[c])
    BY DEF AnswerInv, Good, GoodAt
  <2> QED
    BY <2>1 DEF Room
<1> QED
  BY <1>1, AnswersGood, PTL

\* The documented order of the sources: a poolFirst answer begins with the
\* pool, in a forced one no other address precedes an official one.
THEOREM AnswersKeepOrder == Spec => []FlightOrder
<1>1. AnswerInv /\ TypeOK => FlightOrder
  <2> SUFFICES ASSUME AnswerInv, TypeOK, NEW c \in Callers, pc[c] = "publish"
               PROVE  IF poolFirst[c]
                      THEN \A i \in 1 .. MaxHints :
                             i <= Len(out[c]) /\ i <= Len(poolOut[c]) => out[c][i] = poolOut[c][i]
                      ELSE \A i, j \in DOMAIN out[c] :
                             i < j /\ out[c][j] \in ToSet(accepted[c]) => out[c][i] \in ToSet(accepted[c])
    BY DEF FlightOrder
  <2>1. /\ PoolLeads("publish", poolFirst[c], poolOut[c], todo[c], out[c])
        /\ OfficialLeads("publish", poolFirst[c], accepted[c], todo[c], out[c])
        /\ DOMAIN out[c] = 1 .. Len(out[c])
    BY FlightType DEF AnswerInv, Good, GoodAt
  <2>2. CASE poolFirst[c]
    BY <2>1, <2>2 DEF PoolLeads, Late
  <2>3. CASE ~ poolFirst[c]
    BY <2>1, <2>3 DEF OfficialLeads, Late
  <2> QED
    BY <2>2, <2>3
<1> QED
  BY <1>1, AnswersGood, TypeCorrect, PTL

=============================================================================
