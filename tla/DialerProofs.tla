------------------------------- MODULE DialerProofs -------------------------------
(***************************************************************************)
(* Proofs about Dialer, for any callers, result objects, keys and number   *)
(* of candidates.                                                          *)
(*                                                                         *)
(* First the dial: the shared result it holds keeps its addresses and its  *)
(* key, so the plain round comes last and only where it may.  Then the     *)
(* cache of the resolver after a change of the configuration.              *)
(***************************************************************************)
EXTENDS Dialer, TLAPS

USE KeyAssumption, IdAssumption, CandidateAssumption, RejectionAssumption

\* From the lookup's end to the connection a caller holds a result.
Holding ==
    \A c \in Callers : pc[c] \notin {"idle", "query", "store"} => mine[c] \in Ids

-----------------------------------------------------------------------------
(* Types.                                                                  *)

\* Sweeping keeps the type, and the objects that somebody points to.
LEMMA SweptType ==
    ASSUME NEW r \in [Ids -> Result], NEW c0, NEW m
    PROVE  Swept(r, c0, m) \in [Ids -> Result]
<1>1. Blank \in Result
  BY DEF Blank, Result, Kinds, Key
<1> QED
  BY <1>1 DEF Swept

LEMMA SweptKeeps ==
    ASSUME NEW r, NEW c0, NEW m, NEW i \in Ids, i = c0 \/ \E c \in Callers : m[c] = i
    PROVE  Swept(r, c0, m)[i] = r[i]
BY DEF Swept

LEMMA BeganType == Began \in Search
BY DEF Began, Search, Kinds, Key

\* What a search has found may be replaced, part by part.
LEMMA SearchType ==
    ASSUME NEW f \in Search, NEW kind \in Kinds, NEW k \in Key
    PROVE  /\ [f EXCEPT !.ips = kind, !.ech = k] \in Search
           /\ [f EXCEPT !.ech = k] \in Search
BY DEF Search

LEMMA LookupType ==
    ASSUME TypeOK, NEW c \in Callers, Lookup(c), UNCHANGED <<fallbackPlain, dialVars>>
    PROVE  TypeOK'
<1> USE DEF Goto, Hold, Find, configVars, cacheVars, dialVars
<1>1. CASE LookupCached(c)
  BY <1>1 DEF LookupCached, Live, TypeOK, ResolverTypeOK, Places
<1>2. CASE LookupOverride(c)
  <2>1. [Began EXCEPT !.ips = override] \in Search
    BY <1>2 DEF LookupOverride, Began, Search, Kinds, Key, TypeOK, ResolverTypeOK
  <2> QED
    BY <1>2, <2>1 DEF LookupOverride, TypeOK, ResolverTypeOK, Places
<1>3. CASE LookupMiss(c)
  BY <1>3, BeganType DEF LookupMiss, TypeOK, ResolverTypeOK, Places
<1>4. CASE QueryAnswered(c)
  <2>1. PICK kind \in Kinds, k \in Published \cup {NoKey} :
            found' = [found EXCEPT ![c] = [found[c] EXCEPT !.ips = kind, !.ech = k]]
    BY <1>4 DEF QueryAnswered
  <2>2. found[c] \in Search /\ k \in Key
    BY DEF Key, Published, TypeOK, ResolverTypeOK
  <2>3. [found[c] EXCEPT !.ips = kind, !.ech = k] \in Search
    BY <2>2, SearchType
  <2> QED
    BY <1>4, <2>1, <2>3 DEF QueryAnswered, TypeOK, ResolverTypeOK, Places
<1>5. CASE QueryFails(c)
  BY <1>5, BeganType DEF QueryFails, TypeOK, ResolverTypeOK, Places
<1>6. CASE LookupStore(c)
  <2>1. PICK i \in Ids :
            /\ cache' = i /\ mine' = [mine EXCEPT ![c] = i]
            /\ res' = Swept([res EXCEPT ![i] = [ips |-> found[c].ips, ech |-> found[c].ech]], i, mine')
    BY <1>6 DEF LookupStore
  <2>2. [ips |-> found[c].ips, ech |-> found[c].ech] \in Result
    BY DEF Result, Search, TypeOK, ResolverTypeOK
  <2>3. [res EXCEPT ![i] = [ips |-> found[c].ips, ech |-> found[c].ech]] \in [Ids -> Result]
    BY <2>2 DEF TypeOK, ResolverTypeOK
  <2>4. res' \in [Ids -> Result]
    BY <2>1, <2>3, SweptType
  <2>5. current' \in BOOLEAN /\ fresh' \in BOOLEAN
    BY <1>6 DEF LookupStore, Search, TypeOK, ResolverTypeOK
  <2> QED
    BY <1>6, <2>1, <2>4, <2>5, BeganType DEF LookupStore, TypeOK, ResolverTypeOK, Places
<1> QED
  BY <1>1, <1>2, <1>3, <1>4, <1>5, <1>6 DEF Lookup

LEMMA FetchType ==
    ASSUME TypeOK, NEW c \in Callers, FetchECHConfig(c), UNCHANGED <<fallbackPlain, dialVars>>
    PROVE  TypeOK'
<1> USE DEF Goto, Hold, Find, configVars, cacheVars, dialVars
<1>1. CASE FetchKeep(c)
  <2>1. file' \in Key
    BY <1>1 DEF FetchKeep, Kept, Search, TypeOK, ResolverTypeOK
  <2> QED
    BY <1>1, <2>1 DEF FetchKeep, TypeOK, ResolverTypeOK, Places
<1>2. CASE FetchFile(c) \/ FetchPublished(c) \/ FetchBuiltin(c)
  <2>1. PICK k \in Key : found' = [found EXCEPT ![c] = [found[c] EXCEPT !.ech = k]]
    BY <1>2 DEF FetchFile, FetchPublished, FetchBuiltin, Published, Key, TypeOK, ResolverTypeOK
  <2>2. [found[c] EXCEPT !.ech = k] \in Search
    BY DEF Search, TypeOK, ResolverTypeOK
  <2>3. found' \in [Callers -> Search]
    BY <2>1, <2>2 DEF TypeOK, ResolverTypeOK
  <2>4. pc' \in [Callers -> Places]
    BY <1>2 DEF FetchFile, FetchPublished, FetchBuiltin, TypeOK, Places
  <2>5. UNCHANGED <<configVars, cacheVars, res, file, edgeKey, mine>>
    BY <1>2 DEF FetchFile, FetchPublished, FetchBuiltin
  <2> QED
    BY <2>3, <2>4, <2>5 DEF TypeOK, ResolverTypeOK
<1>3. CASE FetchMiss(c)
  BY <1>3 DEF FetchMiss, TypeOK, ResolverTypeOK, Places
<1> QED
  BY <1>1, <1>2, <1>3 DEF FetchECHConfig

LEMMA AroundType ==
    ASSUME TypeOK, Around, UNCHANGED <<fallbackPlain, dialVars>>
    PROVE  TypeOK'
<1> USE DEF configVars, cacheVars, dialVars
<1>1. ASSUME Change, override' \in Kinds \cup {"none"} PROVE TypeOK'
  <2>1. res' \in [Ids -> Result]
    BY <1>1, SweptType DEF Change, TypeOK, ResolverTypeOK
  <2>2. found' \in [Callers -> Search]
    <3>1. ASSUME NEW c \in Callers PROVE [found[c] EXCEPT !.current = FALSE] \in Search
      <4>1. found[c] \in Search
        BY DEF TypeOK, ResolverTypeOK
      <4> QED
        BY <4>1 DEF Search
    <3> QED
      BY <1>1, <3>1 DEF Change, TypeOK, ResolverTypeOK
  <2>3. straddled' \in BOOLEAN /\ cache' \in Ids \cup {NoResult} /\ fresh' \in BOOLEAN /\ current' \in BOOLEAN
    BY <1>1 DEF Change
  <2> QED
    BY <1>1, <2>1, <2>2, <2>3 DEF Change, TypeOK, ResolverTypeOK
<1>2. CASE SetOverrides \/ SetDoHURLs
  BY <1>1, <1>2 DEF SetOverrides, SetDoHURLs, TypeOK, ResolverTypeOK
<1>3. CASE ResultExpires
  BY <1>3 DEF ResultExpires, TypeOK, ResolverTypeOK
<1>4. CASE FileLost
  BY <1>4 DEF FileLost, Key, TypeOK, ResolverTypeOK
<1>5. CASE Rotate
  BY <1>5 DEF Rotate, TypeOK, ResolverTypeOK
<1> QED
  BY <1>2, <1>3, <1>4, <1>5 DEF Around

\* The end of a dial, whether it connects or not.
LEMMA FinishType ==
    ASSUME TypeOK, NEW c \in Callers, Finish(c), UNCHANGED <<configVars, cacheVars, edgeKey, found, fallbackPlain>>,
           file' \in Key
    PROVE  TypeOK'
<1>1. res' \in [Ids -> Result]
  BY SweptType DEF Finish, TypeOK, ResolverTypeOK
<1>2. /\ cand' \in [Callers -> 1 .. Candidates]
      /\ refused' \in [Callers -> SUBSET (1 .. Candidates)]
      /\ cfg' \in [Callers -> Key] /\ retry' \in [Callers -> Key]
  BY DEF Finish, Key, TypeOK
<1>3. pc' \in [Callers -> Places] /\ mine' \in [Callers -> Ids \cup {NoResult}]
  BY DEF Finish, Goto, Hold, Places, TypeOK, ResolverTypeOK
<1> QED
  BY <1>1, <1>2, <1>3 DEF configVars, cacheVars, TypeOK, ResolverTypeOK, Places, Key

LEMMA NextCandidateType ==
    ASSUME TypeOK, NEW c \in Callers, NextCandidate(c),
           UNCHANGED <<configVars, cacheVars, file, edgeKey, found, fallbackPlain>>
    PROVE  TypeOK'
<1>1. file' \in Key
  BY DEF TypeOK, ResolverTypeOK
<1>2. CASE cand[c] < Candidates
  <2>1. cand' \in [Callers -> 1 .. Candidates] /\ refused' \in [Callers -> SUBSET (1 .. Candidates)]
    BY <1>2 DEF NextCandidate, TypeOK
  <2> QED
    BY <1>2, <2>1 DEF NextCandidate, Goto, configVars, cacheVars, TypeOK, ResolverTypeOK, Places, Key
<1>3. CASE ~ (cand[c] < Candidates) /\ cfg[c] # NoKey /\ fallbackPlain
  <2>1. cand' \in [Callers -> 1 .. Candidates] /\ refused' \in [Callers -> SUBSET (1 .. Candidates)]
    BY <1>3 DEF NextCandidate, TypeOK
  <2> QED
    BY <1>3, <2>1 DEF NextCandidate, Goto, configVars, cacheVars, TypeOK, ResolverTypeOK, Places, Key
<1>4. CASE ~ (cand[c] < Candidates) /\ ~ (cfg[c] # NoKey /\ fallbackPlain)
  <2>1. Finish(c)
    BY <1>4 DEF NextCandidate
  <2> QED
    BY <1>1, <2>1, FinishType
<1> QED
  BY <1>2, <1>3, <1>4

LEMMA DialType ==
    ASSUME TypeOK, Holding, NEW c \in Callers, Dial(c)
    PROVE  TypeOK'
<1> USE DEF Goto, Hold, Find, configVars, cacheVars, dialVars
<1>1. CASE EnsureDone(c) \/ EnsureFetches(c)
  BY <1>1 DEF EnsureDone, EnsureFetches, TypeOK, ResolverTypeOK, Places
<1>2. CASE FillKey(c)
  <2>1. found[c].ech \in Key
    BY DEF Search, TypeOK, ResolverTypeOK
  <2>2. res' \in [Ids -> Result]
    <3>1. ASSUME NEW i \in Ids PROVE [res[i] EXCEPT !.ech = found[c].ech] \in Result
      BY <2>1 DEF Result, TypeOK, ResolverTypeOK
    <3> QED
      BY <1>2, <3>1 DEF FillKey, TypeOK, ResolverTypeOK
  <2> QED
    BY <1>2, <2>2, BeganType DEF FillKey, TypeOK, ResolverTypeOK, Places
<1>3. CASE Configure(c)
  <2>1. res[mine[c]].ech \in Key
    BY <1>3 DEF Configure, Holding, Result, TypeOK, ResolverTypeOK
  <2> QED
    BY <1>3, <2>1 DEF Configure, TypeOK, ResolverTypeOK, Places
<1>4. CASE Rejected(c)
  BY <1>4 DEF Rejected, TypeOK, ResolverTypeOK, Places, Key
<1>5. CASE RetryConnects(c)
  BY <1>5 DEF RetryConnects, TypeOK, ResolverTypeOK, Places
<1>6. CASE AttemptFails(c) \/ RetryFails(c)
  BY <1>6, NextCandidateType DEF AttemptFails, RetryFails
<1>7. CASE Connect(c) \/ PlainConnects(c)
  <2>1. file' \in Key /\ Finish(c) /\ UNCHANGED <<configVars, cacheVars, edgeKey, found, fallbackPlain>>
    BY <1>7 DEF Connect, PlainConnects, TypeOK, ResolverTypeOK
  <2> QED
    BY <2>1, FinishType
<1>8. CASE RetrySink(c)
  <2>1. file' \in Key /\ Finish(c) /\ UNCHANGED <<configVars, cacheVars, edgeKey, found, fallbackPlain>>
    BY <1>8 DEF RetrySink, Kept, TypeOK, ResolverTypeOK
  <2> QED
    BY <2>1, FinishType
<1>9. CASE PlainFails(c)
  <2>1. CASE cand[c] < Candidates
    BY <1>9, <2>1 DEF PlainFails, TypeOK, ResolverTypeOK
  <2>2. CASE ~ (cand[c] < Candidates)
    <3>1. file' \in Key /\ Finish(c) /\ UNCHANGED <<configVars, cacheVars, edgeKey, found, fallbackPlain>>
      BY <1>9, <2>2 DEF PlainFails, TypeOK, ResolverTypeOK
    <3> QED
      BY <3>1, FinishType
  <2> QED
    BY <2>1, <2>2
<1> QED
  BY <1>1, <1>2, <1>3, <1>4, <1>5, <1>6, <1>7, <1>8, <1>9 DEF Dial

\* TypeOK is inductive together with Holding.
LEMMA TypeStep == TypeOK /\ Holding /\ [Next]_vars => TypeOK'
<1> SUFFICES ASSUME TypeOK, Holding, [Next]_vars PROVE TypeOK'
  OBVIOUS
<1>1. ASSUME NEW c \in Callers, Resolve(c) PROVE TypeOK'
  BY <1>1, LookupType, FetchType DEF Resolve
<1>2. ASSUME NEW c \in Callers, Dial(c) PROVE TypeOK'
  BY <1>2, DialType
<1>3. CASE Around /\ UNCHANGED <<fallbackPlain, dialVars>>
  BY <1>3, AroundType
<1>4. CASE UNCHANGED vars
  BY <1>4 DEF vars, configVars, cacheVars, dialVars, TypeOK, ResolverTypeOK
<1> QED
  BY <1>1, <1>2, <1>3, <1>4 DEF Next, DialContext

-----------------------------------------------------------------------------
(* What callers share and what is their own.                               *)

\* The part of the state that is c's stays as it is.
Same(c) ==
    /\ pc'[c] = pc[c] /\ mine'[c] = mine[c] /\ found'[c].ech = found[c].ech
    /\ cfg'[c] = cfg[c] /\ cand'[c] = cand[c] /\ refused'[c] = refused[c]

\* A caller's steps leave the others' part alone.
LEMMA OthersSame ==
    ASSUME TypeOK, NEW c \in Callers, DialContext(c), NEW d \in Callers, d # c
    PROVE  Same(d)
<1> USE DEF Goto, Hold, Find, Same, dialVars
<1>1. CASE Lookup(c) /\ UNCHANGED dialVars
  BY <1>1 DEF Lookup, LookupCached, LookupOverride, LookupMiss, QueryAnswered, QueryFails, LookupStore,
              TypeOK, ResolverTypeOK
<1>2. CASE FetchECHConfig(c) /\ UNCHANGED dialVars
  BY <1>2 DEF FetchECHConfig, FetchFile, FetchMiss, FetchPublished, FetchBuiltin, FetchKeep, TypeOK, ResolverTypeOK
<1>3. CASE EnsureDone(c) \/ EnsureFetches(c) \/ FillKey(c)
  BY <1>3 DEF EnsureDone, EnsureFetches, FillKey, TypeOK, ResolverTypeOK
<1>4. CASE Configure(c) \/ Rejected(c) \/ RetryConnects(c)
  BY <1>4 DEF Configure, Rejected, RetryConnects, TypeOK, ResolverTypeOK
<1>5. ASSUME Finish(c), UNCHANGED found PROVE Same(d)
  BY <1>5 DEF Finish, TypeOK, ResolverTypeOK
<1>6. ASSUME NextCandidate(c), UNCHANGED found PROVE Same(d)
  BY <1>5, <1>6 DEF NextCandidate, TypeOK, ResolverTypeOK
<1>7. CASE Connect(c) \/ AttemptFails(c) \/ RetryFails(c) \/ RetrySink(c) \/ PlainConnects(c)
  BY <1>5, <1>6, <1>7 DEF Connect, AttemptFails, RetryFails, RetrySink, PlainConnects
<1>8. CASE PlainFails(c)
  BY <1>5, <1>8 DEF PlainFails, TypeOK, ResolverTypeOK
<1> QED
  BY <1>1, <1>2, <1>3, <1>4, <1>7, <1>8 DEF DialContext, Resolve, Dial

\* The operator, time and other hosts leave every caller's part alone.
LEMMA AroundSame ==
    ASSUME TypeOK, Around, UNCHANGED dialVars, NEW d \in Callers
    PROVE  Same(d)
<1> USE DEF Same, dialVars
<1>1. CASE SetOverrides \/ SetDoHURLs
  <2>1. Change
    BY <1>1 DEF SetOverrides, SetDoHURLs
  <2>2. found[d] \in Search
    BY DEF TypeOK, ResolverTypeOK
  <2>3. [found[d] EXCEPT !.current = FALSE].ech = found[d].ech
    BY <2>2 DEF Search
  <2>4. found'[d].ech = found[d].ech
    BY <2>1, <2>3 DEF Change
  <2> QED
    BY <2>1, <2>4 DEF Change
<1>2. CASE ResultExpires \/ FileLost \/ Rotate
  BY <1>2 DEF ResultExpires, FileLost, Rotate
<1> QED
  BY <1>1, <1>2 DEF Around

-----------------------------------------------------------------------------
(* One caller.                                                             *)

\* A search that is about to end has a key; a result that is dialled has one
\* or is not Cloudflare's; the candidates tried so far were refused.
Good(c) ==
    /\ pc[c] \in {"keep", "fill"} => found[c].ech # NoKey
    /\ pc[c] = "dial" => res[mine[c]].ech # NoKey \/ res[mine[c]].ips = "other"
    /\ pc[c] \in {"try", "retry"} /\ cfg[c] = NoKey => res[mine[c]].ips = "other"
    /\ pc[c] = "plain" => fallbackPlain /\ cfg[c] # NoKey /\ refused[c] = 1 .. Candidates
    /\ pc[c] \in {"try", "retry", "sink"} => refused[c] = 1 .. cand[c] - 1
    /\ pc[c] \notin {"try", "retry", "sink", "plain"} => cand[c] = 1 /\ refused[c] = {}

IInv == TypeOK /\ Holding /\ \A c \in Callers : Good(c)

\* What a result that stays held may lose: nothing.
Kind(i) == res'[i].ips = res[i].ips /\ (res[i].ech # NoKey => res'[i].ech # NoKey)

LEMMA HeldStep ==
    ASSUME IInv, [Next]_vars, NEW i \in Ids, Held(i), Held(i)'
    PROVE  Kind(i)
<1> USE DEF Kind
<1>1. CASE UNCHANGED res
  BY <1>1
<1>2. ASSUME NEW c \in Callers, LookupStore(c) PROVE Kind(i)
  <2>1. PICK j \in Ids :
            /\ j # cache /\ \A d \in Callers : mine[d] # j
            /\ cache' = j /\ mine' = [mine EXCEPT ![c] = j]
            /\ res' = Swept([res EXCEPT ![j] = [ips |-> found[c].ips, ech |-> found[c].ech]], j, mine')
    BY <1>2 DEF LookupStore, Hold
  <2>2. i # j
    BY <2>1 DEF Held
  <2>3. \E d \in Callers : mine'[d] = i
    BY <2>1, <2>2 DEF Held
  <2>4. res' = [k \in Ids |->
            IF k = j \/ \E d \in Callers : mine'[d] = k
            THEN [res EXCEPT ![j] = [ips |-> found[c].ips, ech |-> found[c].ech]][k] ELSE Blank]
    BY <2>1 DEF Swept
  <2>5. res'[i] = [res EXCEPT ![j] = [ips |-> found[c].ips, ech |-> found[c].ech]][i]
    BY <2>3, <2>4
  <2>6. res'[i] = res[i]
    BY <2>2, <2>5 DEF IInv, TypeOK, ResolverTypeOK
  <2> QED
    BY <2>6
<1>3. ASSUME NEW c \in Callers, FillKey(c) PROVE Kind(i)
  <2>1. found[c].ech # NoKey
    BY <1>3 DEF FillKey, IInv, Good
  <2>2. i = mine[c] => res'[i] = [res[i] EXCEPT !.ech = found[c].ech]
    BY <1>3 DEF FillKey, IInv, TypeOK, ResolverTypeOK
  <2>3. i # mine[c] => res'[i] = res[i]
    BY <1>3 DEF FillKey, IInv, TypeOK, ResolverTypeOK
  <2>4. res[i] \in Result
    BY DEF IInv, TypeOK, ResolverTypeOK
  <2> QED
    BY <2>1, <2>2, <2>3, <2>4 DEF Result
<1>4. ASSUME NEW c \in Callers, Finish(c), UNCHANGED cache PROVE Kind(i)
  <2>1. i = cache \/ \E d \in Callers : mine'[d] = i
    BY <1>4 DEF Held
  <2>2. res'[i] = res[i]
    BY <1>4, <2>1, SweptKeeps DEF Finish
  <2> QED
    BY <2>2
<1>5. CASE Change
  <2>1. \E d \in Callers : mine[d] = i
    BY <1>5 DEF Change, Held
  <2>2. res'[i] = res[i]
    BY <1>5, <2>1, SweptKeeps DEF Change
  <2> QED
    BY <2>2
<1>6. ASSUME NEW c \in Callers, NextCandidate(c), UNCHANGED cache PROVE Kind(i)
  BY <1>1, <1>4, <1>6 DEF NextCandidate
<1>7. ASSUME NEW c \in Callers, Resolve(c) PROVE Kind(i)
  BY <1>1, <1>2, <1>7 DEF Resolve, Lookup, LookupCached, LookupOverride, LookupMiss, QueryAnswered,
     QueryFails, FetchECHConfig, FetchFile, FetchMiss, FetchPublished, FetchBuiltin, FetchKeep
<1>8. ASSUME NEW c \in Callers, Dial(c) PROVE Kind(i)
  <2>1. CASE EnsureDone(c) \/ EnsureFetches(c) \/ Configure(c) \/ Rejected(c) \/ RetryConnects(c)
    BY <1>1, <2>1 DEF EnsureDone, EnsureFetches, Configure, Rejected, RetryConnects
  <2>2. CASE FillKey(c)
    BY <1>3, <2>2
  <2>3. CASE Connect(c) \/ RetrySink(c) \/ PlainConnects(c)
    BY <1>4, <2>3 DEF Connect, RetrySink, PlainConnects, cacheVars
  <2>4. CASE AttemptFails(c) \/ RetryFails(c)
    BY <1>6, <2>4 DEF AttemptFails, RetryFails, cacheVars
  <2>5. CASE PlainFails(c)
    BY <1>1, <1>4, <2>5 DEF PlainFails, cacheVars
  <2> QED
    BY <1>8, <2>1, <2>2, <2>3, <2>4, <2>5 DEF Dial
<1>9. CASE Around
  BY <1>1, <1>5, <1>9 DEF Around, SetOverrides, SetDoHURLs, ResultExpires, FileLost, Rotate
<1>10. CASE UNCHANGED vars
  BY <1>1, <1>10 DEF vars
<1> QED
  BY <1>7, <1>8, <1>9, <1>10 DEF Next, DialContext

\* A caller whose part stays as it is stays good: what it holds keeps its key.
LEMMA OtherGood ==
    ASSUME IInv, [Next]_vars, NEW d \in Callers, Same(d), UNCHANGED fallbackPlain
    PROVE  Good(d)' /\ (pc'[d] \notin {"idle", "query", "store"} => mine'[d] \in Ids)
<1>1. pc'[d] \notin {"idle", "query", "store"} => mine'[d] \in Ids
  BY DEF IInv, Holding, Same
<1>2. CASE pc[d] \in {"dial", "try", "retry"}
  <2>1. PICK i \in Ids : i = mine[d]
    BY <1>2 DEF IInv, Holding
  <2>2. Kind(i)
    <3>1. i = mine'[d]
      BY <2>1 DEF Same
    <3>2. Held(i) /\ Held(i)'
      BY <2>1, <3>1 DEF Held
    <3> QED
      BY <3>2, HeldStep
  <2>3. Good(d)
    BY DEF IInv
  <2> QED
    BY <1>1, <1>2, <2>1, <2>2, <2>3 DEF Good, Same, Kind
<1>3. CASE pc[d] \notin {"dial", "try", "retry"}
  <2>1. Good(d)
    BY DEF IInv
  <2> QED
    BY <1>1, <1>3, <2>1 DEF Good, Same
<1> QED
  BY <1>2, <1>3

\* An end of a dial is good.
LEMMA FinishGood ==
    ASSUME IInv, NEW c \in Callers, Finish(c)
    PROVE  Good(c)' /\ pc'[c] = "idle"
BY DEF Finish, Goto, Good, IInv, TypeOK, ResolverTypeOK

\* So is the way on to the next candidate.
LEMMA NextCandidateGood ==
    ASSUME IInv, NEW c \in Callers, pc[c] \in {"try", "retry"}, NextCandidate(c), UNCHANGED fallbackPlain
    PROVE  Good(c)' /\ (pc'[c] # "idle" => mine'[c] \in Ids)
<1>1. /\ cand[c] \in 1 .. Candidates /\ refused[c] = 1 .. cand[c] - 1
      /\ cfg[c] = NoKey => res[mine[c]].ips = "other"
      /\ mine[c] \in Ids
  BY DEF IInv, Good, Holding, TypeOK
<1>2. CASE cand[c] < Candidates
  <2>1. /\ pc'[c] = "try" /\ cand'[c] = cand[c] + 1 /\ refused'[c] = refused[c] \cup {cand[c]}
        /\ UNCHANGED <<mine, res, cfg>>
    BY <1>2 DEF NextCandidate, Goto, IInv, TypeOK
  <2>2. refused'[c] = 1 .. cand'[c] - 1
    BY <1>1, <2>1
  <2> QED
    BY <1>1, <2>1, <2>2 DEF Good
<1>3. CASE ~ (cand[c] < Candidates) /\ cfg[c] # NoKey /\ fallbackPlain
  <2>1. /\ pc'[c] = "plain" /\ refused'[c] = refused[c] \cup {cand[c]}
        /\ UNCHANGED <<mine, res, cfg>>
    BY <1>3 DEF NextCandidate, Goto, IInv, TypeOK
  <2>2. refused'[c] = 1 .. Candidates
    BY <1>1, <1>3, <2>1
  <2> QED
    BY <1>1, <1>3, <2>1, <2>2 DEF Good
<1>4. CASE ~ (cand[c] < Candidates) /\ ~ (cfg[c] # NoKey /\ fallbackPlain)
  <2>1. Finish(c)
    BY <1>4 DEF NextCandidate
  <2> QED
    BY <2>1, FinishGood
<1> QED
  BY <1>2, <1>3, <1>4

LEMMA ResolveGood ==
    ASSUME IInv, NEW c \in Callers, Resolve(c)
    PROVE  Good(c)' /\ (pc'[c] \notin {"idle", "query", "store"} => mine'[c] \in Ids)
<1> USE DEF Goto, Hold, Find, dialVars
<1> DEFINE Wanted == Good(c)' /\ (pc'[c] \notin {"idle", "query", "store"} => mine'[c] \in Ids)
<1>1. Good(c) /\ (pc[c] \notin {"idle", "query", "store"} => mine[c] \in Ids)
  BY DEF IInv, Holding
<1>2. pc \in [Callers -> Places] /\ mine \in [Callers -> Ids \cup {NoResult}] /\ found \in [Callers -> Search]
  BY DEF IInv, TypeOK, ResolverTypeOK
<1>3. UNCHANGED dialVars
  BY DEF Resolve
<1>4. CASE LookupCached(c)
  <2>1. cache \in Ids
    BY <1>4 DEF LookupCached, Live, IInv, TypeOK, ResolverTypeOK
  <2> QED
    BY <1>1, <1>2, <1>3, <1>4, <2>1 DEF LookupCached, Good
<1>5. CASE LookupOverride(c) \/ LookupMiss(c) \/ QueryAnswered(c)
  BY <1>1, <1>2, <1>3, <1>5 DEF LookupOverride, LookupMiss, QueryAnswered, Good
<1>6. CASE QueryFails(c)
  <2>1. cache # NoResult => cache \in Ids
    BY DEF IInv, TypeOK, ResolverTypeOK
  <2> QED
    BY <1>1, <1>2, <1>3, <1>6, <2>1 DEF QueryFails, Good
<1>7. CASE LookupStore(c)
  <2>1. mine'[c] \in Ids /\ pc'[c] = "ensure"
    BY <1>2, <1>7 DEF LookupStore
  <2> QED
    BY <1>1, <1>3, <1>7, <2>1 DEF LookupStore, Good
<1>8. CASE FetchFile(c)
  <2>1. found'[c].ech = file /\ file # NoKey
    BY <1>2, <1>8 DEF FetchFile, Search
  <2> QED
    BY <1>1, <1>2, <1>3, <1>8, <2>1 DEF FetchFile, Good
<1>9. CASE FetchPublished(c)
  <2>1. found'[c].ech # NoKey
    BY <1>2, <1>9 DEF FetchPublished, Published, Search
  <2> QED
    BY <1>1, <1>2, <1>3, <1>9, <2>1 DEF FetchPublished, Good
<1>10. CASE FetchBuiltin(c)
  <2>1. found'[c].ech # NoKey
    BY <1>2, <1>10 DEF FetchBuiltin, Search
  <2> QED
    BY <1>1, <1>2, <1>3, <1>10, <2>1 DEF FetchBuiltin, Good
<1>11. CASE FetchKeep(c)
  BY <1>1, <1>2, <1>3, <1>11 DEF FetchKeep, Good
<1>12. CASE FetchMiss(c)
  BY <1>1, <1>2, <1>3, <1>12 DEF FetchMiss, Good
<1> QED
  BY <1>4, <1>5, <1>6, <1>7, <1>8, <1>9, <1>10, <1>11, <1>12 DEF Resolve, Lookup, FetchECHConfig

LEMMA DialGood ==
    ASSUME IInv, NEW c \in Callers, Dial(c)
    PROVE  Good(c)' /\ (pc'[c] \notin {"idle", "query", "store"} => mine'[c] \in Ids)
<1> USE DEF Goto, Find, dialVars
<1>1. Good(c) /\ (pc[c] \notin {"idle", "query", "store"} => mine[c] \in Ids)
  BY DEF IInv, Holding
<1>2. pc \in [Callers -> Places] /\ cfg \in [Callers -> Key]
  BY DEF IInv, TypeOK
<1>3. CASE EnsureDone(c) \/ EnsureFetches(c)
  BY <1>1, <1>2, <1>3 DEF EnsureDone, EnsureFetches, Good
<1>4. CASE FillKey(c)
  <2>1. mine[c] \in Ids /\ found[c].ech # NoKey
    BY <1>1, <1>4 DEF FillKey, Good
  <2>2. res[mine[c]] \in Result /\ res'[mine[c]] = [res[mine[c]] EXCEPT !.ech = found[c].ech]
    BY <1>4, <2>1 DEF FillKey, IInv, TypeOK, ResolverTypeOK
  <2>3. res'[mine[c]].ech # NoKey
    BY <2>1, <2>2 DEF Result
  <2> QED
    BY <1>1, <1>2, <1>4, <2>1, <2>3 DEF FillKey, Good
<1>5. CASE Configure(c)
  <2>1. cfg'[c] = res[mine[c]].ech /\ pc'[c] = "try"
    BY <1>2, <1>5 DEF Configure
  <2>2. cand[c] = 1 /\ refused[c] = {} /\ (res[mine[c]].ech = NoKey => res[mine[c]].ips = "other")
    BY <1>1, <1>5 DEF Configure, Good
  <2> QED
    BY <1>1, <1>5, <2>1, <2>2 DEF Configure, Good
<1>6. CASE Rejected(c)
  BY <1>1, <1>2, <1>6 DEF Rejected, Good
<1>7. CASE RetryConnects(c)
  BY <1>1, <1>2, <1>7 DEF RetryConnects, Good
<1>8. CASE AttemptFails(c) \/ RetryFails(c)
  BY <1>8, NextCandidateGood DEF AttemptFails, RetryFails
<1>9. CASE Connect(c) \/ RetrySink(c) \/ PlainConnects(c)
  BY <1>9, FinishGood DEF Connect, RetrySink, PlainConnects
<1>10. CASE PlainFails(c)
  BY <1>1, <1>10, FinishGood DEF PlainFails, Good
<1> QED
  BY <1>3, <1>4, <1>5, <1>6, <1>7, <1>8, <1>9, <1>10 DEF Dial

LEMMA NextIInv == IInv /\ [Next]_vars => IInv'
<1> SUFFICES ASSUME IInv, [Next]_vars PROVE IInv'
  OBVIOUS
<1> DEFINE Fine(d) == Good(d)' /\ (pc'[d] \notin {"idle", "query", "store"} => mine'[d] \in Ids)
<1>1. TypeOK /\ TypeOK'
  BY TypeStep DEF IInv
<1>2. UNCHANGED fallbackPlain
  BY DEF Next, DialContext, Resolve, Dial, EnsureDone, EnsureFetches, FillKey, Configure, Connect,
     AttemptFails, Rejected, RetryConnects, RetryFails, RetrySink, PlainConnects, PlainFails, vars
<1>3. ASSUME NEW c \in Callers, DialContext(c), NEW d \in Callers PROVE Fine(d)
  <2>1. CASE d = c
    BY <1>3, <2>1, ResolveGood, DialGood DEF DialContext
  <2>2. CASE d # c
    BY <1>1, <1>2, <1>3, <2>2, OthersSame, OtherGood
  <2> QED
    BY <2>1, <2>2
<1>4. ASSUME Around, UNCHANGED dialVars, NEW d \in Callers PROVE Fine(d)
  BY <1>1, <1>2, <1>4, AroundSame, OtherGood
<1>5. ASSUME UNCHANGED vars, NEW d \in Callers PROVE Fine(d)
  <2>1. Same(d)
    BY <1>5 DEF vars, dialVars, Same
  <2> QED
    BY <1>2, <2>1, OtherGood
<1>6. \A d \in Callers : Fine(d)
  BY <1>3, <1>4, <1>5 DEF Next
<1> QED
  BY <1>1, <1>6 DEF IInv, Holding

LEMMA InitIInv == Init => IInv
<1> SUFFICES ASSUME Init PROVE IInv
  OBVIOUS
<1>1. Blank \in Result /\ Began \in Search
  BY BeganType DEF Blank, Result, Kinds, Key
<1>2. TypeOK
  <2>1. ResolverTypeOK
    BY <1>1 DEF Init, ResolverInit, ResolverTypeOK, Kinds, Key
  <2>2. pc \in [Callers -> Places] /\ cfg \in [Callers -> Key] /\ retry \in [Callers -> Key]
    BY DEF Init, ResolverInit, Places, Key
  <2>3. cand \in [Callers -> 1 .. Candidates] /\ refused \in [Callers -> SUBSET (1 .. Candidates)]
    <3>1. 1 \in 1 .. Candidates
      OBVIOUS
    <3> QED
      BY <3>1 DEF Init
  <2> QED
    BY <2>1, <2>2, <2>3 DEF Init, TypeOK
<1>3. Holding /\ \A c \in Callers : Good(c)
  BY DEF Init, ResolverInit, Holding, Good
<1> QED
  BY <1>2, <1>3 DEF IInv

-----------------------------------------------------------------------------
(* Theorems.                                                               *)

\* Types, what is held and what each caller has tried, for every instance.
THEOREM DialInvariant == Spec => []IInv
BY InitIInv, NextIInv, PTL DEF Spec

\* Every variable of resolver and dialer keeps its type.
THEOREM DialTypeCorrect == Spec => []TypeOK
<1>1. IInv => TypeOK
  BY DEF IInv
<1> QED
  BY <1>1, DialInvariant, PTL

\* A host with a Cloudflare address is tried without ECH only in the plain
\* round, and that is entered only where it is allowed (ensureECH, DialECH).
THEOREM NoDowngrade == Spec => []ProtectedNeverPlain
<1>1. IInv => ProtectedNeverPlain
  BY DEF IInv, Good, ProtectedNeverPlain
<1> QED
  BY <1>1, DialInvariant, PTL

\* Whatever fails, every candidate is refused with ECH before the plain round
\* (the loops of DialECH).
THEOREM PlainComesLast == Spec => []PlainIsLast
<1>1. IInv => PlainIsLast
  BY DEF IInv, Good, PlainIsLast
<1> QED
  BY <1>1, DialInvariant, PTL

\* Callers that share a result never take its key or addresses from each
\* other (ensureECH writes without a lock).
THEOREM SharedResultsKeepKeys == Spec => ResultsKeepKeys
<1>1. IInv /\ [Next]_vars =>
        [\A i \in Ids :
            Held(i) /\ Held(i)' =>
                /\ res'[i].ips = res[i].ips
                /\ res[i].ech # NoKey => res'[i].ech # NoKey]_vars
  BY HeldStep DEF Kind
<1> QED
  BY <1>1, DialInvariant, PTL DEF Spec, ResultsKeepKeys
-----------------------------------------------------------------------------
(* The cache after a change of the configuration.                          *)

\* Unless the last change met a lookup on its way, the lookups on their way now
\* began after it, and so did the one whose result is cached.
Clean ==
    ~ straddled =>
        /\ \A c \in Callers : pc[c] \in {"query", "store"} => found[c].current
        /\ cache # NoResult => current

\* A caller's steps leave the others' searches alone.
LEMMA OthersSearch ==
    ASSUME TypeOK, NEW c \in Callers, DialContext(c), NEW d \in Callers, d # c
    PROVE  found'[d] = found[d] /\ pc'[d] = pc[d]
<1>1. pc'[d] = pc[d]
  BY OthersSame DEF Same
<1>2. UNCHANGED found \/ \E f : Find(c, f)
  BY DEF DialContext, Resolve, Lookup, FetchECHConfig, Dial, LookupCached, LookupOverride,
         LookupMiss, QueryAnswered, QueryFails, LookupStore, FetchFile, FetchMiss, FetchPublished,
         FetchBuiltin, FetchKeep, EnsureDone, EnsureFetches, FillKey, Configure, Connect,
         AttemptFails, Rejected, RetryConnects, RetryFails, RetrySink, PlainConnects, PlainFails,
         dialVars
<1>3. found'[d] = found[d]
  BY <1>2 DEF Find, TypeOK, ResolverTypeOK
<1> QED
  BY <1>1, <1>3

\* What c's own search is after its step.
LEMMA OwnSearch ==
    ASSUME TypeOK, NEW c \in Callers, DialContext(c),
           pc[c] \in {"query", "store"} => found[c].current
    PROVE  pc'[c] \in {"query", "store"} => found'[c].current
<1> USE DEF Goto, Find
<1>1. pc \in [Callers -> Places] /\ found \in [Callers -> Search]
  BY DEF TypeOK, ResolverTypeOK
<1>2. CASE LookupOverride(c)
  <2>1. found'[c] = [Began EXCEPT !.ips = override]
    BY <1>1, <1>2 DEF LookupOverride
  <2>2. [Began EXCEPT !.ips = override].current
    BY DEF Began
  <2> QED
    BY <2>1, <2>2
<1>3. CASE LookupMiss(c)
  BY <1>1, <1>3 DEF LookupMiss, Began
<1>4. CASE QueryAnswered(c)
  <2>1. PICK kind, k : found'[c] = [found[c] EXCEPT !.ips = kind, !.ech = k]
    BY <1>1, <1>4 DEF QueryAnswered
  <2>2. found'[c].current = found[c].current
    BY <1>1, <2>1 DEF Search
  <2>3. found[c].current
    BY <1>4 DEF QueryAnswered
  <2> QED
    BY <2>2, <2>3
<1>5. CASE LookupCached(c) \/ QueryFails(c) \/ LookupStore(c) \/ FetchECHConfig(c)
  BY <1>1, <1>5 DEF LookupCached, QueryFails, LookupStore, FetchECHConfig, FetchFile, FetchMiss,
     FetchPublished, FetchBuiltin, FetchKeep
<1>6. CASE Dial(c)
  BY <1>1, <1>6 DEF Dial, EnsureDone, EnsureFetches, FillKey, Configure, Connect, AttemptFails,
     Rejected, RetryConnects, RetryFails, RetrySink, PlainConnects, PlainFails, NextCandidate, Finish
<1> QED
  BY <1>2, <1>3, <1>4, <1>5, <1>6 DEF DialContext, Resolve, Lookup

LEMMA CallerClean ==
    ASSUME TypeOK, Clean, NEW c \in Callers, DialContext(c)
    PROVE  Clean'
<1>1. UNCHANGED straddled /\ (LookupStore(c) \/ UNCHANGED <<cache, current>>)
  BY DEF DialContext, Resolve, Lookup, FetchECHConfig, Dial, LookupCached, LookupOverride,
         LookupMiss, QueryAnswered, QueryFails, LookupStore, FetchFile, FetchMiss, FetchPublished,
         FetchBuiltin, FetchKeep, EnsureDone, EnsureFetches, FillKey, Configure, Connect,
         AttemptFails, Rejected, RetryConnects, RetryFails, RetrySink, PlainConnects, PlainFails,
         configVars, cacheVars
<1> SUFFICES ASSUME ~ straddled
             PROVE  /\ \A d \in Callers : pc'[d] \in {"query", "store"} => found'[d].current
                    /\ cache' # NoResult => current'
  BY <1>1 DEF Clean
<1>2. \A d \in Callers : pc'[d] \in {"query", "store"} => found'[d].current
  <2>1. pc'[c] \in {"query", "store"} => found'[c].current
    BY OwnSearch DEF Clean
  <2>2. \A d \in Callers : d # c => found'[d] = found[d] /\ pc'[d] = pc[d]
    BY OthersSearch
  <2> QED
    BY <2>1, <2>2 DEF Clean
<1>3. CASE LookupStore(c)
  <2>1. pc[c] = "store" /\ current' = found[c].current
    BY <1>3 DEF LookupStore
  <2>2. found[c].current
    BY <2>1 DEF Clean
  <2> QED
    BY <1>2, <2>1, <2>2
<1>4. CASE UNCHANGED <<cache, current>>
  BY <1>2, <1>4 DEF Clean
<1> QED
  BY <1>1, <1>3, <1>4

LEMMA AroundClean ==
    ASSUME TypeOK, Clean, Around
    PROVE  Clean'
<1>1. CASE Change
  <2>1. /\ straddled' = \E c \in Callers : pc[c] \in {"query", "store"}
        /\ cache' = NoResult /\ pc' = pc
    BY <1>1 DEF Change
  <2> QED
    BY <2>1 DEF Clean
<1>2. CASE ResultExpires \/ FileLost \/ Rotate
  <2>1. UNCHANGED <<straddled, cache, current, pc, found>>
    BY <1>2 DEF ResultExpires, FileLost, Rotate, configVars, cacheVars
  <2> QED
    BY <2>1 DEF Clean
<1> QED
  BY <1>1, <1>2 DEF Around, SetOverrides, SetDoHURLs

LEMMA CleanStep == IInv /\ Clean /\ [Next]_vars => Clean'
<1> SUFFICES ASSUME IInv, Clean, [Next]_vars PROVE Clean'
  OBVIOUS
<1>1. TypeOK
  BY DEF IInv
<1>2. CASE UNCHANGED vars
  BY <1>2 DEF vars, configVars, cacheVars, Clean
<1> QED
  BY <1>1, <1>2, CallerClean, AroundClean DEF Next

\* A change that meets no lookup on its way leaves nothing behind: whatever is
\* cached until the next change was resolved under the configuration in force
\* (SetOverrides and SetDoHURLs clear the cache, not the lookups under way).
THEOREM CacheCleanAfterChange == Spec => []CleanAfterChange
<1>1. Init => Clean
  BY DEF Init, ResolverInit, Clean
<1>2. IInv /\ Clean /\ [Next]_vars => Clean'
  BY CleanStep
<1>3. Clean => CleanAfterChange
  BY DEF Clean, CleanAfterChange
<1> QED
  BY <1>1, <1>2, <1>3, DialInvariant, PTL DEF Spec
=============================================================================
