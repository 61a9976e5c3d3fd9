----------------------------- MODULE DohServerProofs -----------------------------
(***************************************************************************)
(* Proofs about DohServer, for any handlers, refreshers, names, rules and  *)
(* times: every handler answers once, and every answer follows from rules  *)
(* each of which was in force at most Window ago.                          *)
(*                                                                         *)
(* The invariant keeps, for every answer that is under construction, in    *)
(* the cache or on its way into it, a time t such that the answer is Due   *)
(* to rules in force at t or later: the arrival of the query.  The bound   *)
(* on the service time and the life of a cache entry then give Window.     *)
(***************************************************************************)
EXTENDS DohServer, TLAPS

USE RuleAssumption, QuestionAssumption, TimeAssumption

-----------------------------------------------------------------------------
(* The inductive invariant.                                                *)

\* The values in force at t or later, and those of a name.
Since(last, now, t) == {v \in DOMAIN last : v = now \/ last[v] >= t}

Past(n, t) == [rules  |-> Since(lastRule[n], override[n], t),
               v6     |-> Since(lastV6[n], overrideV6[n], t),
               forced |-> Since(lastForced[n], forced[n], t)]

\* The warm-up's answer to an AAAA query: an IPv6 rule counts under an IPv4 rule only.
WarmAAAA(r, v, f) ==
    IF r # NoRule THEN {IF v # NoRule THEN Body("v6", v) ELSE Empty}
                  ELSE {IF f THEN Empty ELSE Own}

Answers(qtype, by, r, v, f) ==
    IF by = "warm" /\ qtype = "AAAA" THEN WarmAAAA(r, v, f) ELSE Explained(qtype, r, v, f)

\* An answer that follows from rules in P.
Due(P, qtype, by, b) ==
    \E r \in P.rules, v \in P.v6, f \in P.forced : b \in Answers(qtype, by, r, v, f)

\* What a handler at p has read of the rules, P being those since its query came.
Readings(p, qtype, b, P) ==
    /\ p \in {"v6", "override", "overrideAAAA", "force", "plain"} => b = Own
    /\ p \in {"v6", "overrideAAAA"} => qtype = "AAAA"
    /\ p \in {"override", "overrideAAAA", "force", "plain"} /\ qtype = "AAAA" => NoRule \in P.v6
    /\ p = "overrideAAAA" => \E r \in P.rules : r # NoRule
    /\ p \in {"force", "plain"} => NoRule \in P.rules
    /\ p = "plain" => FALSE \in P.forced
    /\ p = "write" => Due(P, qtype, "handler", b)

\* A handler that is done has written one response, one that is not has written none.
Replied(p, rep) == IF p = "done" THEN \E r \in Replies : rep = <<r>> ELSE rep = <<>>

InTime(p, t, now) ==
    /\ p # "idle" => t <= now
    /\ p \in Busy => now <= t + MaxService

\* An answer that may be given now: it is due to rules at most Window old.
Current(n, qtype, by, b) ==
    \E t \in 0 .. clock : clock <= t + Window /\ Due(Past(n, t), qtype, by, b)

Delivered(h) ==
    pc[h] = "done" /\ reply[h][1].status = "ok" =>
        Current(req[h].name, req[h].qtype, reply[h][1].by, reply[h][1].body)

HandlerGood(h) ==
    /\ Replied(pc[h], reply[h])
    /\ InTime(pc[h], began[h], clock)
    /\ Readings(pc[h], req[h].qtype, body[h], Past(req[h].name, began[h]))
    /\ Delivered(h)

\* A cached answer is due to rules at most MaxService older than the entry.
EntryGood(k, e) ==
    e.live => \E t \in 0 .. e.ts : /\ e.ts <= clock /\ e.ts <= t + MaxService
                                   /\ Due(Past(k[1], t), k[2], e.by, e.body)

CacheGood == \A k \in Names \X Asked : EntryGood(k, respCache[k])

WarmGood ==
    /\ warm.at \in {"fetched", "processed"} =>
          /\ warm.ts <= clock /\ clock <= warm.ts + MaxService
          /\ warm.q.qtype \in Cacheable
    /\ warm.at = "processed" =>
          Due(Past(warm.q.name, warm.ts), warm.q.qtype, "warm", warm.body)

HandlersGood == \A h \in Handlers : HandlerGood(h)

IInv == TypeOK /\ HandlersGood /\ CacheGood /\ WarmGood

-----------------------------------------------------------------------------
(* Constants and values.                                                   *)

LEMMA Times ==
    /\ ResponseTTL \in Nat /\ ResponseTTL >= 1 /\ MaxService \in Nat /\ MaxTicks \in Nat
    /\ Window \in Nat /\ Window = ResponseTTL + MaxService - 1 /\ Window >= MaxService
    /\ Start \in Nat /\ Start = Window + 1
    /\ 0 \in 0 .. Start + MaxTicks
    /\ Start .. Start + MaxTicks \subseteq 0 .. Start + MaxTicks
    /\ 0 .. Start + MaxTicks \subseteq Nat
BY DEF Window, Start

LEMMA BlankType == Blank \in Question
<1>1. PICK n \in Names, q \in Asked : TRUE
  OBVIOUS
<1>2. [name |-> n, qtype |-> q] \in Question
  BY DEF Question
<1> QED
  BY <1>2 DEF Blank

LEMMA QuestionParts ==
    ASSUME NEW q \in Question
    PROVE  q.name \in Names /\ q.qtype \in Asked /\ Key(q) = <<q.name, q.qtype>>
           /\ Key(q) \in Names \X Asked
BY DEF Question, Key

\* The bodies an answer may have.
LEMMA BodyTypes ==
    /\ Own \in Bodies /\ Hints \in Bodies /\ Empty \in Bodies
    /\ \A r \in Rules \cup RulesV6 \cup {NoRule} :
          Body("ech", r) \in Bodies /\ Body("rule", r) \in Bodies /\ Body("v6", r) \in Bodies
BY DEF Own, Hints, Empty, Body, Bodies

LEMMA ChoiceTypes ==
    /\ \A ech \in BOOLEAN, given \in BOOLEAN, r \in Rules \cup {NoRule} :
          Injected(ech, given, r) \subseteq Bodies
    /\ \A r \in Rules \cup {NoRule} : RuleBody(r) \in Bodies
    /\ \A qtype \in Asked, ech \in BOOLEAN, found \in BOOLEAN :
          ForcedBodies(qtype, ech, found) \subseteq Bodies
    /\ \A qtype \in Asked, ech \in BOOLEAN : PlainBodies(qtype, ech) \subseteq Bodies
<1>1. \A ech \in BOOLEAN, given \in BOOLEAN, r \in Rules \cup {NoRule} :
          Injected(ech, given, r) \subseteq Bodies
  BY BodyTypes DEF Injected
<1>2. \A r \in Rules \cup {NoRule} : RuleBody(r) \in Bodies
  BY BodyTypes DEF RuleBody
<1>3. \A qtype \in Asked, ech \in BOOLEAN, found \in BOOLEAN :
          ForcedBodies(qtype, ech, found) \subseteq Bodies
  BY <1>1, BodyTypes DEF ForcedBodies
<1>4. \A qtype \in Asked, ech \in BOOLEAN : PlainBodies(qtype, ech) \subseteq Bodies
  BY BodyTypes DEF PlainBodies, InjectECH
<1> QED
  BY <1>1, <1>2, <1>3, <1>4
-----------------------------------------------------------------------------
(* Types, one group of variables at a time.                                *)

HandlerTypes ==
    /\ pc \in [Handlers -> Labels]
    /\ req \in [Handlers -> Question]
    /\ began \in [Handlers -> 0 .. Start + MaxTicks]
    /\ hasECH \in [Handlers -> BOOLEAN]
    /\ body \in [Handlers -> Bodies]
    /\ reply \in [Handlers -> {<<>>} \cup {<<r>> : r \in Replies}]

RuleTypes ==
    /\ override \in [Names -> Rules \cup {NoRule}]
    /\ overrideV6 \in [Names -> RulesV6 \cup {NoRule}]
    /\ forced \in [Names -> BOOLEAN]
    /\ lastRule \in [Names -> [Rules \cup {NoRule} -> 0 .. Start + MaxTicks]]
    /\ lastV6 \in [Names -> [RulesV6 \cup {NoRule} -> 0 .. Start + MaxTicks]]
    /\ lastForced \in [Names -> [BOOLEAN -> 0 .. Start + MaxTicks]]

Config == [has4 : BOOLEAN, v4 : [Names -> Rules \cup {NoRule}],
           has6 : BOOLEAN, v6 : [Names -> RulesV6 \cup {NoRule}]]

FeedTypes ==
    /\ refresh \in [Refreshers -> {"idle", "apply", "clear", "applyV6", "clearV6"}]
    /\ cfg \in [Refreshers -> Config]

CacheType == respCache \in [Names \X Asked -> Entry \cup {NoEntry}]
TimeTypes == clock \in Start .. Start + MaxTicks /\ changes \in 0 .. MaxChanges
WarmType  == warm \in WarmStates

LEMMA TypeParts ==
    /\ TypeOK => HandlerTypes /\ RuleTypes /\ FeedTypes /\ CacheType /\ TimeTypes /\ WarmType
    /\ HandlerTypes' /\ RuleTypes' /\ FeedTypes' /\ CacheType' /\ TimeTypes' /\ WarmType' => TypeOK'
<1> USE DEF TypeOK, HandlerTypes, RuleTypes, FeedTypes, CacheType, TimeTypes, WarmType, Config
<1>1. TypeOK => HandlerTypes /\ RuleTypes /\ FeedTypes /\ CacheType /\ TimeTypes /\ WarmType
  OBVIOUS
<1>2. HandlerTypes' /\ RuleTypes' /\ FeedTypes' /\ CacheType' /\ TimeTypes' /\ WarmType' => TypeOK'
  OBVIOUS
<1> QED
  BY <1>1, <1>2

LEMMA Unchanging ==
    /\ HandlerTypes /\ UNCHANGED handlerVars => HandlerTypes'
    /\ RuleTypes /\ UNCHANGED ruleVars => RuleTypes'
    /\ FeedTypes /\ UNCHANGED feedVars => FeedTypes'
    /\ CacheType /\ UNCHANGED respCache => CacheType'
    /\ TimeTypes /\ UNCHANGED timeVars => TimeTypes'
    /\ WarmType /\ UNCHANGED warm => WarmType'
<1>1. HandlerTypes /\ UNCHANGED handlerVars => HandlerTypes'
  BY DEF HandlerTypes, handlerVars
<1>2. RuleTypes /\ UNCHANGED ruleVars => RuleTypes'
  BY DEF RuleTypes, ruleVars
<1>3. FeedTypes /\ UNCHANGED feedVars => FeedTypes'
  BY DEF FeedTypes, feedVars
<1>4. CacheType /\ UNCHANGED respCache => CacheType'
  BY DEF CacheType
<1>5. TimeTypes /\ UNCHANGED timeVars => TimeTypes'
  BY DEF TimeTypes, timeVars
<1>6. WarmType /\ UNCHANGED warm => WarmType'
  BY DEF WarmType
<1> QED
  BY <1>1, <1>2, <1>3, <1>4, <1>5, <1>6

LEMMA InitTypes == Init => TypeOK
<1> SUFFICES ASSUME Init PROVE TypeOK
  OBVIOUS
<1> USE DEF Init
<1>1. NoRules \in [Names -> Rules \cup {NoRule}] /\ NoRules \in [Names -> RulesV6 \cup {NoRule}]
  BY DEF NoRules
<1>2. /\ pc \in [Handlers -> Labels] /\ req \in [Handlers -> Question]
      /\ began \in [Handlers -> 0 .. Start + MaxTicks]
      /\ hasECH \in [Handlers -> BOOLEAN] /\ body \in [Handlers -> Bodies]
      /\ reply \in [Handlers -> {<<>>} \cup {<<r>> : r \in Replies}]
  BY BlankType, BodyTypes, Times DEF Labels
<1>3. respCache \in [Names \X Asked -> Entry \cup {NoEntry}]
  OBVIOUS
<1>4. /\ lastRule \in [Names -> [Rules \cup {NoRule} -> 0 .. Start + MaxTicks]]
      /\ lastV6 \in [Names -> [RulesV6 \cup {NoRule} -> 0 .. Start + MaxTicks]]
      /\ lastForced \in [Names -> [BOOLEAN -> 0 .. Start + MaxTicks]]
  BY Times
<1>5. Nothing \in Config
  BY <1>1 DEF Nothing, Config
<1>6. /\ refresh \in [Refreshers -> {"idle", "apply", "clear", "applyV6", "clearV6"}]
      /\ cfg \in [Refreshers -> Config]
  BY <1>5
<1>7. warm \in WarmStates
  BY BlankType, BodyTypes DEF WarmStates
<1>8. clock \in Start .. Start + MaxTicks /\ changes \in 0 .. MaxChanges
  BY Times
<1> QED
  BY <1>1, <1>2, <1>3, <1>4, <1>6, <1>7, <1>8 DEF TypeOK, Config

-----------------------------------------------------------------------------
(* A handler's step, seen from outside.                                    *)

\* What h's part becomes.
Becomes(h, p, q, t, e, b, rep) ==
    /\ pc' = [pc EXCEPT ![h] = p] /\ req' = [req EXCEPT ![h] = q]
    /\ began' = [began EXCEPT ![h] = t] /\ hasECH' = [hasECH EXCEPT ![h] = e]
    /\ body' = [body EXCEPT ![h] = b] /\ reply' = [reply EXCEPT ![h] = rep]

LEMMA BecomesTypes ==
    ASSUME HandlerTypes, NEW h \in Handlers, NEW p \in Labels, NEW q \in Question,
           NEW t \in 0 .. Start + MaxTicks, NEW e \in BOOLEAN, NEW b \in Bodies,
           NEW rep \in {<<>>} \cup {<<r>> : r \in Replies}, Becomes(h, p, q, t, e, b, rep)
    PROVE  /\ HandlerTypes'
           /\ pc'[h] = p /\ req'[h] = q /\ began'[h] = t /\ body'[h] = b /\ reply'[h] = rep
           /\ \A g \in Handlers \ {h} :
                 /\ pc'[g] = pc[g] /\ req'[g] = req[g] /\ began'[g] = began[g]
                 /\ body'[g] = body[g] /\ reply'[g] = reply[g]
BY DEF HandlerTypes, Becomes
-----------------------------------------------------------------------------
(* What was in force: a step takes nothing away from it.                   *)

Within(P, Q) == P.rules \subseteq Q.rules /\ P.v6 \subseteq Q.v6 /\ P.forced \subseteq Q.forced

Grows == \A n \in Names : \A t \in 0 .. clock : Within(Past(n, t), Past(n, t)')

LEMMA DueGrows ==
    ASSUME NEW P, NEW Q, NEW qtype, NEW by, NEW b, Within(P, Q), Due(P, qtype, by, b)
    PROVE  Due(Q, qtype, by, b)
BY DEF Due, Within

LEMMA ReadingsGrow ==
    ASSUME NEW P, NEW Q, NEW p, NEW qtype, NEW b, Within(P, Q), Readings(p, qtype, b, P)
    PROVE  Readings(p, qtype, b, Q)
<1>1. p = "write" => Due(Q, qtype, "handler", b)
  BY DueGrows DEF Readings
<1> QED
  BY <1>1 DEF Readings, Within

LEMMA PastSame == UNCHANGED ruleVars => Grows /\ \A n \in Names : \A t : Past(n, t)' = Past(n, t)
<1> SUFFICES ASSUME UNCHANGED ruleVars PROVE Grows /\ \A n \in Names : \A t : Past(n, t)' = Past(n, t)
  OBVIOUS
<1>1. \A n \in Names : \A t : Past(n, t)' = Past(n, t)
  BY DEF Past, Since, ruleVars
<1>2. \A P : Within(P, P)
  BY DEF Within
<1> QED
  BY <1>1, <1>2 DEF Grows

LEMMA CurrentStays ==
    ASSUME Grows, clock' = clock, NEW n \in Names, NEW qtype, NEW by, NEW b,
           Current(n, qtype, by, b)
    PROVE  Current(n, qtype, by, b)'
<1>1. PICK t \in 0 .. clock : clock <= t + Window /\ Due(Past(n, t), qtype, by, b)
  BY DEF Current
<1>2. Within(Past(n, t), Past(n, t)')
  BY DEF Grows
<1>3. Due(Past(n, t)', qtype, by, b)
  BY <1>1, <1>2, DueGrows
<1> QED
  BY <1>1, <1>3 DEF Current

LEMMA EntryStays ==
    ASSUME Grows, clock' = clock, clock \in Nat, NEW k \in Names \X Asked,
           NEW e \in Entry \cup {NoEntry}, EntryGood(k, e)
    PROVE  EntryGood(k, e)'
<1> SUFFICES ASSUME e.live
             PROVE  \E t \in 0 .. e.ts : /\ e.ts <= clock' /\ e.ts <= t + MaxService
                                         /\ Due(Past(k[1], t)', k[2], e.by, e.body)
  BY DEF EntryGood
<1>1. PICK t \in 0 .. e.ts : /\ e.ts <= clock /\ e.ts <= t + MaxService
                             /\ Due(Past(k[1], t), k[2], e.by, e.body)
  BY DEF EntryGood
<1>2. e.ts \in Nat /\ k[1] \in Names
  <2>1. e # NoEntry
    BY DEF NoEntry
  <2>2. e.ts \in Nat
    BY <2>1 DEF Entry
  <2> QED
    BY <2>2
<1>3. t \in 0 .. clock
  BY <1>1, <1>2
<1>4. Within(Past(k[1], t), Past(k[1], t)')
  BY <1>2, <1>3 DEF Grows
<1>5. Due(Past(k[1], t)', k[2], e.by, e.body)
  BY <1>1, <1>4, DueGrows
<1> QED
  BY <1>1, <1>5

\* A cache that is left alone or cleared.
LEMMA CacheStays ==
    ASSUME TypeOK, CacheGood, Grows, clock' = clock, UNCHANGED respCache \/ respCacheClear
    PROVE  CacheType' /\ CacheGood'
<1>1. clock \in Nat /\ CacheType
  BY Times, TypeParts DEF TypeOK
<1>2. CASE UNCHANGED respCache
  <2>1. ASSUME NEW k \in Names \X Asked PROVE EntryGood(k, respCache[k])'
    <3>1. respCache[k] \in Entry \cup {NoEntry} /\ respCache'[k] = respCache[k]
      BY <1>1, <1>2 DEF CacheType
    <3>2. EntryGood(k, respCache[k])
      BY DEF CacheGood
    <3> QED
      BY <1>1, <3>1, <3>2, EntryStays
  <2> QED
    BY <1>1, <1>2, <2>1 DEF CacheGood, CacheType
<1>3. CASE respCacheClear
  <2>1. \A k \in Names \X Asked : respCache'[k] = NoEntry
    BY <1>3 DEF respCacheClear
  <2>2. \A k \in Names \X Asked : EntryGood(k, respCache[k])'
    BY <2>1 DEF EntryGood, NoEntry
  <2> QED
    BY <1>3, <2>2 DEF CacheGood, CacheType, respCacheClear
<1> QED
  BY <1>2, <1>3
-----------------------------------------------------------------------------
(* What a step leaves alone stays good.                                    *)

LEMMA ReadingsStay ==
    ASSUME Grows, NEW n \in Names, NEW t, NEW p, NEW qtype, NEW b,
           p # "idle" => t \in 0 .. clock, Readings(p, qtype, b, Past(n, t))
    PROVE  Readings(p, qtype, b, Past(n, t)')
<1>1. CASE p = "idle"
  BY <1>1 DEF Readings
<1>2. CASE p # "idle"
  <2>1. Within(Past(n, t), Past(n, t)')
    BY <1>2 DEF Grows
  <2> QED
    BY <2>1, ReadingsGrow
<1> QED
  BY <1>1, <1>2

\* HandlerGood, of values.
Good(p, q, t, b, rep) ==
    /\ Replied(p, rep)
    /\ InTime(p, t, clock)
    /\ Readings(p, q.qtype, b, Past(q.name, t))
    /\ p = "done" /\ rep[1].status = "ok" => Current(q.name, q.qtype, rep[1].by, rep[1].body)

LEMMA GoodIsGood ==
    \A h \in Handlers : HandlerGood(h) <=> Good(pc[h], req[h], began[h], body[h], reply[h])
BY DEF HandlerGood, Good, Delivered

LEMMA GoodStays ==
    ASSUME TypeOK, Grows, clock' = clock, NEW p, NEW q \in Question, NEW t \in Nat, NEW b,
           NEW rep, Good(p, q, t, b, rep)
    PROVE  Good(p, q, t, b, rep)'
<1>1. q.name \in Names /\ clock \in Nat
  BY QuestionParts, Times DEF TypeOK
<1>2. p # "idle" => t \in 0 .. clock
  BY <1>1 DEF Good, InTime
<1>3. Readings(p, q.qtype, b, Past(q.name, t)')
  BY <1>1, <1>2, ReadingsStay DEF Good
<1>4. p = "done" /\ rep[1].status = "ok" =>
         Current(q.name, q.qtype, rep[1].by, rep[1].body)'
  BY <1>1, CurrentStays DEF Good
<1> QED
  BY <1>3, <1>4 DEF Good

LEMMA HandlerStays ==
    ASSUME TypeOK, Grows, clock' = clock, NEW g \in Handlers, HandlerGood(g),
           pc'[g] = pc[g], req'[g] = req[g], began'[g] = began[g],
           body'[g] = body[g], reply'[g] = reply[g]
    PROVE  HandlerGood(g)'
<1>1. req[g] \in Question /\ began[g] \in Nat
  BY Times DEF TypeOK
<1>2. Good(pc[g], req[g], began[g], body[g], reply[g])
  BY GoodIsGood
<1>3. Good(pc[g], req[g], began[g], body[g], reply[g])'
  BY <1>1, <1>2, GoodStays
<1> QED
  BY <1>3 DEF HandlerGood, Good, Delivered

LEMMA WarmStays ==
    ASSUME TypeOK, Grows, clock' = clock, warm' = warm, WarmGood
    PROVE  WarmGood'
<1>1. warm.q \in Question /\ warm.ts \in Nat /\ clock \in Nat
  BY Times DEF TypeOK, WarmStates
<1>2. CASE warm.at = "processed"
  <2>1. warm.ts \in 0 .. clock /\ warm.q.name \in Names
    BY <1>1, <1>2, QuestionParts DEF WarmGood
  <2>2. Within(Past(warm.q.name, warm.ts), Past(warm.q.name, warm.ts)')
    BY <2>1 DEF Grows
  <2> QED
    BY <1>2, <2>2, DueGrows DEF WarmGood
<1>3. CASE warm.at # "processed"
  BY <1>3 DEF WarmGood
<1> QED
  BY <1>2, <1>3
\* A step that leaves the handlers alone.
LEMMA OutsideStep ==
    ASSUME IInv, UNCHANGED handlerVars, Grows, clock' = clock, changes' \in 0 .. MaxChanges,
           RuleTypes', FeedTypes', CacheType', CacheGood', WarmType', WarmGood'
    PROVE  IInv'
<1>1. HandlerTypes' /\ TimeTypes'
  <2>1. HandlerTypes /\ TimeTypes
    BY TypeParts DEF IInv
  <2>2. HandlerTypes'
    BY <2>1, Unchanging
  <2> QED
    BY <2>1, <2>2 DEF TimeTypes
<1>2. TypeOK'
  BY <1>1, TypeParts
<1>3. ASSUME NEW g \in Handlers PROVE HandlerGood(g)'
  <2>1. HandlerGood(g)
    BY DEF IInv, HandlersGood
  <2>2. /\ pc'[g] = pc[g] /\ req'[g] = req[g] /\ began'[g] = began[g]
        /\ body'[g] = body[g] /\ reply'[g] = reply[g]
    BY DEF handlerVars
  <2>3. TypeOK
    BY DEF IInv
  <2> QED
    BY <2>1, <2>2, <2>3, HandlerStays
<1> QED
  BY <1>2, <1>3 DEF IInv, HandlersGood

LEMMA HandlerStep ==
    ASSUME IInv, NEW h \in Handlers, NEW p \in Labels, NEW q \in Question,
           NEW t \in 0 .. Start + MaxTicks, NEW e \in BOOLEAN, NEW b \in Bodies,
           NEW rep \in {<<>>} \cup {<<r>> : r \in Replies}, Becomes(h, p, q, t, e, b, rep),
           UNCHANGED <<ruleVars, feedVars, warm, timeVars>>, CacheType', CacheGood',
           Good(p, q, t, b, rep)
    PROVE  IInv'
<1>1. TypeOK /\ HandlerTypes /\ RuleTypes /\ FeedTypes /\ TimeTypes /\ WarmType
  BY TypeParts DEF IInv
<1>2. HandlerTypes' /\ RuleTypes' /\ FeedTypes' /\ TimeTypes' /\ WarmType'
  BY <1>1, BecomesTypes, Unchanging
<1>3. TypeOK'
  BY <1>2, TypeParts
<1>4. Grows /\ clock' = clock
  BY PastSame DEF timeVars
<1>5. ASSUME NEW g \in Handlers \ {h} PROVE HandlerGood(g)'
  <2>1. HandlerGood(g)
    BY DEF IInv, HandlersGood
  <2>2. /\ pc'[g] = pc[g] /\ req'[g] = req[g] /\ began'[g] = began[g]
        /\ body'[g] = body[g] /\ reply'[g] = reply[g]
    BY <1>1, BecomesTypes
  <2> QED
    BY <1>1, <1>4, <2>1, <2>2, HandlerStays
<1>6. HandlerGood(h)'
  <2>1. pc'[h] = p /\ req'[h] = q /\ began'[h] = t /\ body'[h] = b /\ reply'[h] = rep
    BY <1>1, BecomesTypes
  <2>2. t \in Nat
    BY Times
  <2>3. Good(p, q, t, b, rep)'
    BY <1>1, <1>4, <2>2, GoodStays
  <2> QED
    BY <2>1, <2>3 DEF HandlerGood, Good, Delivered
<1>7. HandlersGood'
  BY <1>5, <1>6 DEF HandlersGood
<1>8. WarmGood'
  BY <1>1, <1>4, WarmStays DEF IInv
<1> QED
  BY <1>3, <1>7, <1>8 DEF IInv
-----------------------------------------------------------------------------
(* The steps of a handler.                                                 *)

\* What the invariant says of one handler.
LEMMA At ==
    ASSUME IInv, NEW h \in Handlers
    PROVE  /\ TypeOK /\ HandlerTypes /\ RuleTypes /\ CacheType /\ CacheGood
           /\ pc[h] \in Labels /\ req[h] \in Question /\ began[h] \in 0 .. Start + MaxTicks
           /\ began[h] \in Nat /\ clock \in Nat /\ clock \in 0 .. Start + MaxTicks
           /\ hasECH[h] \in BOOLEAN /\ body[h] \in Bodies
           /\ req[h].name \in Names /\ req[h].qtype \in Asked
           /\ Key(req[h]) = <<req[h].name, req[h].qtype>> /\ Key(req[h]) \in Names \X Asked
           /\ Good(pc[h], req[h], began[h], body[h], reply[h])
<1>1. TypeOK /\ HandlerTypes /\ RuleTypes /\ CacheType /\ CacheGood
  BY TypeParts DEF IInv
<1>2. /\ pc[h] \in Labels /\ req[h] \in Question /\ began[h] \in 0 .. Start + MaxTicks
      /\ hasECH[h] \in BOOLEAN /\ body[h] \in Bodies
  BY <1>1 DEF HandlerTypes
<1>3. began[h] \in Nat /\ clock \in Nat /\ clock \in 0 .. Start + MaxTicks
  BY <1>1, <1>2, Times DEF TypeOK
<1>4. Good(pc[h], req[h], began[h], body[h], reply[h])
  BY GoodIsGood DEF IInv, HandlersGood
<1> QED
  BY <1>1, <1>2, <1>3, <1>4, QuestionParts

\* What a step does not touch, written as it is assigned.
LEMMA Leave ==
    ASSUME HandlerTypes, NEW h \in Handlers
    PROVE  /\ pc = [pc EXCEPT ![h] = pc[h]] /\ req = [req EXCEPT ![h] = req[h]]
           /\ began = [began EXCEPT ![h] = began[h]] /\ hasECH = [hasECH EXCEPT ![h] = hasECH[h]]
           /\ body = [body EXCEPT ![h] = body[h]] /\ reply = [reply EXCEPT ![h] = reply[h]]
BY DEF HandlerTypes

LEMMA CacheKept ==
    ASSUME IInv, UNCHANGED <<respCache, ruleVars, timeVars>>
    PROVE  CacheType' /\ CacheGood'
<1>1. TypeOK /\ CacheGood /\ Grows /\ clock' = clock
  BY PastSame DEF IInv, timeVars
<1> QED
  BY <1>1, CacheStays

\* From one section of the code to the next.
LEMMA Moves ==
    ASSUME IInv, NEW h \in Handlers, pc[h] \in Busy, NEW p \in Busy, NEW e \in BOOLEAN,
           NEW b \in Bodies, Becomes(h, p, req[h], began[h], e, b, reply[h]),
           Readings(p, req[h].qtype, b, Past(req[h].name, began[h])),
           UNCHANGED <<respCache, ruleVars, feedVars, warm, timeVars>>
    PROVE  IInv'
<1>1. p \in Labels /\ p # "done" /\ p # "idle" /\ pc[h] # "done" /\ pc[h] # "idle"
  BY DEF Busy
<1>2. Replied(p, reply[h]) /\ reply[h] = <<>>
  BY <1>1, At DEF Good, Replied
<1>3. InTime(p, began[h], clock)
  BY <1>1, At DEF Good, InTime
<1>4. Good(p, req[h], began[h], b, reply[h])
  BY <1>1, <1>2, <1>3 DEF Good
<1>5. CacheType' /\ CacheGood'
  BY CacheKept
<1>6. /\ req[h] \in Question /\ began[h] \in 0 .. Start + MaxTicks
      /\ reply[h] \in {<<>>} \cup {<<r>> : r \in Replies}
  BY At, <1>2
<1> QED
  BY <1>1, <1>4, <1>5, <1>6, HandlerStep

\* The end of a query, its one response written.
LEMMA Ends ==
    ASSUME IInv, NEW h \in Handlers, NEW q \in Question, NEW t \in 0 .. Start + MaxTicks,
           t <= clock, pc[h] # "done", NEW r \in Replies,
           Becomes(h, "done", q, t, hasECH[h], body[h], Append(reply[h], r)),
           r.status = "ok" => Current(q.name, q.qtype, r.by, r.body),
           UNCHANGED <<ruleVars, feedVars, warm, timeVars>>, CacheType', CacheGood'
    PROVE  IInv'
<1>1. reply[h] = <<>>
  BY At DEF Good, Replied
<1>2. Append(reply[h], r) = <<r>>
  BY <1>1
<1>3. Replied("done", <<r>>) /\ InTime("done", t, clock)
  BY DEF Replied, InTime, Busy
<1>4. Readings("done", q.qtype, body[h], Past(q.name, t))
  BY DEF Readings
<1>5. <<r>>[1] = r
  OBVIOUS
<1>6. Good("done", q, t, body[h], <<r>>)
  BY <1>3, <1>4, <1>5 DEF Good
<1>7. Becomes(h, "done", q, t, hasECH[h], body[h], <<r>>)
  BY <1>2
<1>8. "done" \in Labels /\ <<r>> \in {<<>>} \cup {<<x>> : x \in Replies}
  BY DEF Labels
<1> QED
  BY <1>6, <1>7, <1>8, At, HandlerStep
-----------------------------------------------------------------------------
(* What the branches compute is due to the rules they have read.           *)

\* The value in force is one of those since any time.
LEMMA InForce ==
    ASSUME RuleTypes, NEW n \in Names, NEW t
    PROVE  /\ override[n] \in Past(n, t).rules
           /\ overrideV6[n] \in Past(n, t).v6
           /\ forced[n] \in Past(n, t).forced
           /\ override[n] \in Rules \cup {NoRule} /\ overrideV6[n] \in RulesV6 \cup {NoRule}
           /\ forced[n] \in BOOLEAN
BY DEF RuleTypes, Past, Since

LEMMA InForceForced ==
    ASSUME RuleTypes, NEW n \in Names, NEW t
    PROVE  /\ forced[n] => TRUE \in Past(n, t).forced
           /\ ~ forced[n] => FALSE \in Past(n, t).forced
<1> DEFINE L == lastForced[n]
<1>1. DOMAIN L = BOOLEAN /\ forced[n] \in BOOLEAN
  BY DEF RuleTypes
<1>2. Past(n, t).forced = {f \in DOMAIN L : f = forced[n] \/ L[f] >= t}
  BY DEF Past, Since
<1>3. forced[n] => TRUE \in Past(n, t).forced
  BY <1>1, <1>2
<1>4. ~ forced[n] => FALSE \in Past(n, t).forced
  BY <1>1, <1>2
<1> QED
  BY <1>3, <1>4

\* A set of values with at least one of each kind.
Full(P) == (\E r : r \in P.rules) /\ (\E v : v \in P.v6) /\ (\E f : f \in P.forced)

LEMMA RuleV6Due ==
    ASSUME NEW P, Full(P), NEW v \in P.v6, v # NoRule
    PROVE  Due(P, "AAAA", "handler", Body("v6", v))
BY DEF Due, Full, Answers, Explained

LEMMA RuleDue ==
    ASSUME NEW P, Full(P), NEW r \in P.rules, r # NoRule
    PROVE  /\ Due(P, "A", "handler", RuleBody(r))
           /\ \A ech \in BOOLEAN : \A b \in Injected(ech, TRUE, r) :
                 Due(P, "HTTPS", "handler", b)
           /\ Due(P, "OTHER", "handler", Own)
           /\ NoRule \in P.v6 => Due(P, "AAAA", "handler", Empty)
<1>1. PICK v \in P.v6, f \in P.forced : TRUE
  BY DEF Full
<1>2. RuleBody(r) \in Answers("A", "handler", r, v, f)
  BY DEF Answers, Explained
<1>3. \A ech \in BOOLEAN : \A b \in Injected(ech, TRUE, r) :
         b \in Answers("HTTPS", "handler", r, v, f)
  BY DEF Answers, Explained, Injected
<1>4. Own \in Answers("OTHER", "handler", r, v, f)
  BY DEF Answers, Explained
<1>5. Empty \in Answers("AAAA", "handler", r, NoRule, f)
  BY DEF Answers, Explained
<1> QED
  BY <1>1, <1>2, <1>3, <1>4, <1>5 DEF Due

LEMMA ForcedDue ==
    ASSUME NEW P, Full(P), NoRule \in P.rules, TRUE \in P.forced, NEW qtype \in Asked,
           NEW ech \in BOOLEAN, NEW found \in BOOLEAN, qtype = "AAAA" => NoRule \in P.v6,
           NEW b \in ForcedBodies(qtype, ech, found)
    PROVE  Due(P, qtype, "handler", b)
<1>2. CASE qtype = "A"
  BY <1>2 DEF Due, Answers, Explained, ForcedBodies, Full
<1>3. CASE qtype = "AAAA"
  BY <1>3 DEF Due, Answers, Explained, ForcedBodies, Full
<1>4. CASE qtype = "HTTPS"
  BY <1>4 DEF Due, Answers, Explained, ForcedBodies, Full, Injected
<1>5. CASE qtype = "OTHER"
  BY <1>5 DEF Due, Answers, Explained, ForcedBodies, Full
<1> QED
  BY <1>2, <1>3, <1>4, <1>5

LEMMA PlainDue ==
    ASSUME NEW P, Full(P), NoRule \in P.rules, FALSE \in P.forced, NEW qtype \in Asked,
           NEW ech \in BOOLEAN, qtype = "AAAA" => NoRule \in P.v6,
           NEW b \in PlainBodies(qtype, ech)
    PROVE  Due(P, qtype, "handler", b)
<1>2. CASE qtype = "A"
  BY <1>2 DEF Due, Answers, Explained, PlainBodies, Full
<1>3. CASE qtype = "AAAA"
  BY <1>3 DEF Due, Answers, Explained, PlainBodies, Full
<1>4. CASE qtype = "HTTPS"
  BY <1>4 DEF Due, Answers, Explained, PlainBodies, Full, InjectECH
<1>5. CASE qtype = "OTHER"
  BY <1>5 DEF Due, Answers, Explained, PlainBodies, Full
<1> QED
  BY <1>2, <1>3, <1>4, <1>5

LEMMA PastFull ==
    ASSUME RuleTypes, NEW n \in Names, NEW t
    PROVE  Full(Past(n, t))
BY InForce DEF Full
-----------------------------------------------------------------------------
(* One lemma per step of a handler.                                        *)

LEMMA BadQueryStep == ASSUME IInv, NEW h \in Handlers, BadQuery(h) PROVE IInv'
<1> DEFINE r == [status |-> "error", body |-> Empty, by |-> "handler"]
<1>1. PICK q \in Question : req' = [req EXCEPT ![h] = q]
  BY DEF BadQuery
<1>2. Becomes(h, "done", q, clock, hasECH[h], body[h], Append(reply[h], r))
  BY <1>1, At, Leave DEF BadQuery, Becomes, Refuse, Answer, GoTo
<1>3. r \in Replies /\ r.status # "ok" /\ pc[h] # "done"
  BY BodyTypes DEF Replies, BadQuery
<1>4. clock \in 0 .. Start + MaxTicks /\ clock <= clock
  BY At
<1>5. UNCHANGED <<respCache, ruleVars, feedVars, warm, timeVars>>
  BY DEF BadQuery
<1>6. CacheType' /\ CacheGood'
  BY <1>5, CacheKept
<1> QED
  BY <1>2, <1>3, <1>4, <1>5, <1>6, Ends

LEMMA ReceiveStep == ASSUME IInv, NEW h \in Handlers, Receive(h) PROVE IInv'
<1>1. PICK q \in Question : req' = [req EXCEPT ![h] = q]
  BY DEF Receive
<1>2. Becomes(h, "lookup", q, clock, hasECH[h], body[h], reply[h])
  BY <1>1, At, Leave DEF Receive, Becomes, GoTo
<1>3. reply[h] = <<>>
  BY At DEF Receive, Good, Replied
<1>4. Replied("lookup", reply[h]) /\ InTime("lookup", clock, clock)
  BY <1>3, At, Times DEF Replied, InTime
<1>5. Readings("lookup", q.qtype, body[h], Past(q.name, clock))
  BY DEF Readings
<1>6. Good("lookup", q, clock, body[h], reply[h])
  BY <1>4, <1>5 DEF Good
<1>7. UNCHANGED <<respCache, ruleVars, feedVars, warm, timeVars>>
  BY DEF Receive
<1>8. CacheType' /\ CacheGood'
  BY <1>7, CacheKept
<1>9. "lookup" \in Labels /\ reply[h] \in {<<>>} \cup {<<r>> : r \in Replies}
  BY <1>3 DEF Labels
<1> QED
  BY <1>2, <1>6, <1>7, <1>8, <1>9, At, HandlerStep

\* A cached answer is read before its entry's time is up, so it is current.
LEMMA FreshCurrent ==
    ASSUME TypeOK, NEW k \in Names \X Asked, NEW e \in Entry \cup {NoEntry},
           EntryGood(k, e), Fresh(e, clock)
    PROVE  e \in Entry /\ Current(k[1], k[2], e.by, e.body)
<1>1. e \in Entry
  BY DEF Fresh, NoEntry
<1>2. e.ts \in Nat /\ clock \in Nat
  BY <1>1, Times DEF Entry, TypeOK
<1>3. PICK t \in 0 .. e.ts : /\ e.ts <= clock /\ e.ts <= t + MaxService
                             /\ Due(Past(k[1], t), k[2], e.by, e.body)
  BY DEF EntryGood, Fresh
<1>4. clock - e.ts < ResponseTTL
  BY DEF Fresh
<1>5. t \in 0 .. clock /\ clock <= t + Window
  BY <1>2, <1>3, <1>4, Times
<1> QED
  BY <1>1, <1>3, <1>5 DEF Current

LEMMA CacheHitStep == ASSUME IInv, NEW h \in Handlers, CacheHit(h) PROVE IInv'
<1> DEFINE k == Key(req[h])
           e == respCache[k]
           r == [status |-> "ok", body |-> e.body, by |-> e.by]
<1>1. k \in Names \X Asked /\ k[1] = req[h].name /\ k[2] = req[h].qtype
  BY At
<1>2. e \in Entry \cup {NoEntry} /\ EntryGood(k, e) /\ Fresh(e, clock)
  BY <1>1, At DEF CacheType, CacheGood, CacheHit, Cached
<1>3. e \in Entry /\ Current(k[1], k[2], e.by, e.body)
  BY <1>1, <1>2, At, FreshCurrent
<1>4. r \in Replies /\ r.by = e.by /\ r.body = e.body
  BY <1>3 DEF Entry, Replies
<1>5. Becomes(h, "done", req[h], began[h], hasECH[h], body[h], Append(reply[h], r))
  BY At, Leave DEF CacheHit, Becomes, Answer, GoTo
<1>6. began[h] <= clock /\ pc[h] # "done"
  BY At DEF Good, InTime, CacheHit
<1>7. UNCHANGED <<respCache, ruleVars, feedVars, warm, timeVars>>
  BY DEF CacheHit
<1>8. CacheType' /\ CacheGood'
  BY <1>7, CacheKept
<1>9. Current(req[h].name, req[h].qtype, r.by, r.body)
  BY <1>1, <1>3, <1>4
<1> QED
  BY <1>4, <1>5, <1>6, <1>7, <1>8, <1>9, At, Ends

LEMMA UpstreamFailsStep == ASSUME IInv, NEW h \in Handlers, UpstreamFails(h) PROVE IInv'
<1> DEFINE r == [status |-> "servfail", body |-> Empty, by |-> "handler"]
<1>1. Becomes(h, "done", req[h], began[h], hasECH[h], body[h], Append(reply[h], r))
  BY At, Leave DEF UpstreamFails, Becomes, Refuse, Answer, GoTo
<1>2. r \in Replies /\ r.status # "ok" /\ pc[h] # "done"
  BY BodyTypes DEF Replies, UpstreamFails
<1>3. began[h] <= clock
  BY At DEF Good, InTime, UpstreamFails
<1>4. UNCHANGED <<respCache, ruleVars, feedVars, warm, timeVars>>
  BY DEF UpstreamFails
<1>5. CacheType' /\ CacheGood'
  BY <1>4, CacheKept
<1> QED
  BY <1>1, <1>2, <1>3, <1>4, <1>5, At, Ends

LEMMA PackFailsStep == ASSUME IInv, NEW h \in Handlers, PackFails(h) PROVE IInv'
<1> DEFINE r == [status |-> "error", body |-> Empty, by |-> "handler"]
<1>1. Becomes(h, "done", req[h], began[h], hasECH[h], body[h], Append(reply[h], r))
  BY At, Leave DEF PackFails, Becomes, Refuse, Answer, GoTo
<1>2. r \in Replies /\ r.status # "ok" /\ pc[h] # "done"
  BY BodyTypes DEF Replies, PackFails
<1>3. began[h] <= clock
  BY At DEF Good, InTime, PackFails
<1>4. UNCHANGED <<respCache, ruleVars, feedVars, warm, timeVars>>
  BY DEF PackFails
<1>5. CacheType' /\ CacheGood'
  BY <1>4, CacheKept
<1> QED
  BY <1>1, <1>2, <1>3, <1>4, <1>5, At, Ends
LEMMA BusyLabels ==
    /\ "lookup" \in Busy /\ "upstream" \in Busy /\ "v6" \in Busy /\ "override" \in Busy
    /\ "overrideAAAA" \in Busy /\ "force" \in Busy /\ "plain" \in Busy /\ "write" \in Busy
BY DEF Busy, Labels

LEMMA CacheMissStep == ASSUME IInv, NEW h \in Handlers, CacheMiss(h) PROVE IInv'
<1>1. Becomes(h, "upstream", req[h], began[h], hasECH[h], body[h], reply[h])
  BY At, Leave DEF CacheMiss, Becomes, GoTo
<1>2. Readings("upstream", req[h].qtype, body[h], Past(req[h].name, began[h]))
  BY DEF Readings
<1>3. pc[h] \in Busy /\ UNCHANGED <<respCache, ruleVars, feedVars, warm, timeVars>>
  BY BusyLabels DEF CacheMiss
<1> QED
  BY <1>1, <1>2, <1>3, At, BusyLabels, Moves

LEMMA UpstreamAnswersStep == ASSUME IInv, NEW h \in Handlers, UpstreamAnswers(h) PROVE IInv'
<1> DEFINE p == IF req[h].qtype = "AAAA" THEN "v6" ELSE "override"
<1>1. PICK ech \in BOOLEAN : hasECH' = [hasECH EXCEPT ![h] = ech]
  BY DEF UpstreamAnswers
<1>2. Becomes(h, p, req[h], began[h], ech, Own, reply[h])
  BY <1>1, At, Leave DEF UpstreamAnswers, Becomes, GoTo
<1>3. Readings(p, req[h].qtype, Own, Past(req[h].name, began[h]))
  BY DEF Readings
<1>4. pc[h] \in Busy /\ UNCHANGED <<respCache, ruleVars, feedVars, warm, timeVars>>
  BY BusyLabels DEF UpstreamAnswers
<1>5. p \in Busy /\ Own \in Bodies
  BY BusyLabels, BodyTypes
<1> QED
  BY <1>2, <1>3, <1>4, <1>5, At, Moves

LEMMA MatchV6Step == ASSUME IInv, NEW h \in Handlers, MatchV6(h) PROVE IInv'
<1> DEFINE n == req[h].name
           P == Past(n, began[h])
           v == overrideV6[n]
<1>1. /\ req[h].qtype = "AAAA" /\ body[h] = Own /\ pc[h] \in Busy
      /\ UNCHANGED <<respCache, ruleVars, feedVars, warm, timeVars>>
  BY At, BusyLabels DEF Good, Readings, MatchV6
<1>2. Full(P) /\ v \in P.v6 /\ v \in RulesV6 \cup {NoRule}
  BY At, InForce, PastFull
<1>3. CASE v # NoRule
  <2>1. Becomes(h, "write", req[h], began[h], hasECH[h], Body("v6", v), reply[h])
    BY <1>3, At, Leave DEF MatchV6, RuleV6, Becomes, GoTo
  <2>2. Readings("write", req[h].qtype, Body("v6", v), P)
    <3>1. Due(P, "AAAA", "handler", Body("v6", v))
      BY <1>2, <1>3, RuleV6Due
    <3> QED
      BY <1>1, <3>1 DEF Readings
  <2>3. Body("v6", v) \in Bodies
    BY <1>2, BodyTypes
  <2> QED
    BY <1>1, <2>1, <2>2, <2>3, At, BusyLabels, Moves
<1>4. CASE v = NoRule
  <2>1. Becomes(h, "override", req[h], began[h], hasECH[h], body[h], reply[h])
    BY <1>4, At, Leave DEF MatchV6, RuleV6, Becomes, GoTo
  <2>2. Readings("override", req[h].qtype, body[h], P)
    BY <1>1, <1>2, <1>4 DEF Readings
  <2> QED
    BY <1>1, <2>1, <2>2, At, BusyLabels, Moves
<1> QED
  BY <1>3, <1>4

LEMMA MatchOverrideStep == ASSUME IInv, NEW h \in Handlers, MatchOverride(h) PROVE IInv'
<1> DEFINE n == req[h].name
           P == Past(n, began[h])
           r == override[n]
           qtype == req[h].qtype
<1>1. /\ body[h] = Own /\ pc[h] \in Busy /\ r # NoRule
      /\ UNCHANGED <<respCache, ruleVars, feedVars, warm, timeVars>>
      /\ qtype = "AAAA" => NoRule \in P.v6
  BY At, BusyLabels DEF Good, Readings, MatchOverride, Rule
<1>2. Full(P) /\ r \in P.rules /\ r \in Rules
  BY <1>1, At, InForce, PastFull
<1>3. CASE qtype = "A"
  <2>1. Becomes(h, "write", req[h], began[h], hasECH[h], RuleBody(r), reply[h])
    BY <1>3, At, Leave DEF MatchOverride, Rule, Becomes, GoTo
  <2>2. Readings("write", qtype, RuleBody(r), P)
    <3>1. Due(P, "A", "handler", RuleBody(r))
      BY <1>1, <1>2, RuleDue
    <3> QED
      BY <1>3, <3>1 DEF Readings
  <2>3. RuleBody(r) \in Bodies
    BY <1>2, ChoiceTypes
  <2> QED
    BY <1>1, <2>1, <2>2, <2>3, At, BusyLabels, Moves
<1>4. CASE qtype = "AAAA"
  <2>1. Becomes(h, "overrideAAAA", req[h], began[h], hasECH[h], body[h], reply[h])
    BY <1>4, At, Leave DEF MatchOverride, Rule, Becomes, GoTo
  <2>2. Readings("overrideAAAA", qtype, body[h], P)
    BY <1>1, <1>2, <1>4 DEF Readings
  <2> QED
    BY <1>1, <2>1, <2>2, At, BusyLabels, Moves
<1>5. CASE qtype = "HTTPS"
  <2>1. PICK b \in Injected(hasECH[h], TRUE, r) : body' = [body EXCEPT ![h] = b]
    BY <1>5 DEF MatchOverride, Rule
  <2>2. Becomes(h, "write", req[h], began[h], hasECH[h], b, reply[h])
    BY <1>5, <2>1, At, Leave DEF MatchOverride, Rule, Becomes, GoTo
  <2>3. Due(P, "HTTPS", "handler", b)
    BY <1>1, <1>2, At, RuleDue
  <2>4. Readings("write", qtype, b, P)
    BY <1>5, <2>3 DEF Readings
  <2>5. b \in Bodies
    BY <1>2, At, ChoiceTypes
  <2> QED
    BY <1>1, <2>2, <2>4, <2>5, At, BusyLabels, Moves
<1>6. CASE qtype = "OTHER"
  <2>1. Becomes(h, "write", req[h], began[h], hasECH[h], body[h], reply[h])
    BY <1>6, At, Leave DEF MatchOverride, Rule, Becomes, GoTo
  <2>2. Readings("write", qtype, body[h], P)
    <3>1. Due(P, "OTHER", "handler", Own)
      BY <1>1, <1>2, RuleDue
    <3> QED
      BY <1>1, <1>6, <3>1 DEF Readings
  <2> QED
    BY <1>1, <2>1, <2>2, At, BusyLabels, Moves
<1> QED
  BY <1>3, <1>4, <1>5, <1>6, At
LEMMA MatchOverrideAAAAStep ==
    ASSUME IInv, NEW h \in Handlers, MatchOverrideAAAA(h) PROVE IInv'
<1> DEFINE n == req[h].name
           P == Past(n, began[h])
           v == overrideV6[n]
           b == IF v # NoRule THEN Body("v6", v) ELSE Empty
<1>1. /\ req[h].qtype = "AAAA" /\ pc[h] \in Busy
      /\ UNCHANGED <<respCache, ruleVars, feedVars, warm, timeVars>>
  BY At, BusyLabels DEF Good, Readings, MatchOverrideAAAA
<1>2. PICK r \in P.rules : r # NoRule
  BY At DEF Good, Readings, MatchOverrideAAAA
<1>3. Full(P) /\ v \in P.v6 /\ v \in RulesV6 \cup {NoRule}
  BY At, InForce, PastFull
<1>4. Becomes(h, "write", req[h], began[h], hasECH[h], b, reply[h])
  BY At, Leave DEF MatchOverrideAAAA, RuleV6, Becomes, GoTo
<1>5. Due(P, "AAAA", "handler", b)
  <2>1. CASE v # NoRule
    BY <1>3, <2>1, RuleV6Due
  <2>2. CASE v = NoRule
    BY <1>2, <1>3, <2>2, RuleDue
  <2> QED
    BY <2>1, <2>2
<1>6. Readings("write", req[h].qtype, b, P)
  BY <1>1, <1>5 DEF Readings
<1>7. b \in Bodies
  BY <1>3, BodyTypes
<1> QED
  BY <1>1, <1>4, <1>6, <1>7, At, BusyLabels, Moves

LEMMA NoOverrideStep == ASSUME IInv, NEW h \in Handlers, NoOverride(h) PROVE IInv'
<1> DEFINE P == Past(req[h].name, began[h])
<1>1. Becomes(h, "force", req[h], began[h], hasECH[h], body[h], reply[h])
  BY At, Leave DEF NoOverride, Becomes, GoTo
<1>2. NoRule \in P.rules
  BY At, InForce DEF NoOverride, Rule
<1>3. Readings("force", req[h].qtype, body[h], P)
  BY <1>2, At DEF Good, Readings, NoOverride
<1>4. pc[h] \in Busy /\ UNCHANGED <<respCache, ruleVars, feedVars, warm, timeVars>>
  BY BusyLabels DEF NoOverride
<1> QED
  BY <1>1, <1>3, <1>4, At, BusyLabels, Moves

LEMMA NotForcedStep == ASSUME IInv, NEW h \in Handlers, NotForced(h) PROVE IInv'
<1> DEFINE P == Past(req[h].name, began[h])
<1>1. Becomes(h, "plain", req[h], began[h], hasECH[h], body[h], reply[h])
  BY At, Leave DEF NotForced, Becomes, GoTo
<1>2. ~ forced[req[h].name]
  BY DEF NotForced
<1>3. FALSE \in P.forced
  BY <1>2, At, InForceForced
<1>4. Readings("plain", req[h].qtype, body[h], P)
  BY <1>3, At DEF Good, Readings, NotForced
<1>5. pc[h] \in Busy /\ UNCHANGED <<respCache, ruleVars, feedVars, warm, timeVars>>
  BY BusyLabels DEF NotForced
<1> QED
  BY <1>1, <1>4, <1>5, At, BusyLabels, Moves

LEMMA ForceRewriteStep == ASSUME IInv, NEW h \in Handlers, ForceRewrite(h) PROVE IInv'
<1> DEFINE P == Past(req[h].name, began[h])
           qtype == req[h].qtype
<1>1. PICK found \in BOOLEAN : \E b \in ForcedBodies(qtype, hasECH[h], found) :
         body' = [body EXCEPT ![h] = b]
  BY DEF ForceRewrite
<1>2. PICK b \in ForcedBodies(qtype, hasECH[h], found) : body' = [body EXCEPT ![h] = b]
  BY <1>1
<1>3. Becomes(h, "write", req[h], began[h], hasECH[h], b, reply[h])
  BY <1>2, At, Leave DEF ForceRewrite, Becomes, GoTo
<1>4. NoRule \in P.rules /\ (qtype = "AAAA" => NoRule \in P.v6)
  BY At DEF Good, Readings, ForceRewrite
<1>5. forced[req[h].name]
  BY DEF ForceRewrite
<1>6. TRUE \in P.forced /\ Full(P)
  BY <1>5, At, InForceForced, PastFull
<1>7. Due(P, qtype, "handler", b)
  BY <1>4, <1>6, At, ForcedDue
<1>8. Readings("write", qtype, b, P)
  BY <1>7 DEF Readings
<1>9. b \in Bodies
  BY At, ChoiceTypes
<1>10. pc[h] \in Busy /\ UNCHANGED <<respCache, ruleVars, feedVars, warm, timeVars>>
  BY BusyLabels DEF ForceRewrite
<1> QED
  BY <1>3, <1>8, <1>9, <1>10, At, BusyLabels, Moves

LEMMA PlainStep == ASSUME IInv, NEW h \in Handlers, Plain(h) PROVE IInv'
<1> DEFINE P == Past(req[h].name, began[h])
           qtype == req[h].qtype
<1>1. PICK b \in PlainBodies(qtype, hasECH[h]) : body' = [body EXCEPT ![h] = b]
  BY DEF Plain
<1>2. Becomes(h, "write", req[h], began[h], hasECH[h], b, reply[h])
  BY <1>1, At, Leave DEF Plain, Becomes, GoTo
<1>3. NoRule \in P.rules /\ FALSE \in P.forced /\ (qtype = "AAAA" => NoRule \in P.v6)
  BY At DEF Good, Readings, Plain
<1>4. Full(P)
  BY At, PastFull
<1>5. Due(P, qtype, "handler", b)
  BY <1>3, <1>4, At, PlainDue
<1>6. Readings("write", qtype, b, P)
  BY <1>5 DEF Readings
<1>7. b \in Bodies
  BY At, ChoiceTypes
<1>8. pc[h] \in Busy /\ UNCHANGED <<respCache, ruleVars, feedVars, warm, timeVars>>
  BY BusyLabels DEF Plain
<1> QED
  BY <1>2, <1>6, <1>7, <1>8, At, BusyLabels, Moves

\* A put of an answer that is due to rules at most MaxService old.
LEMMA PutKeeps ==
    ASSUME TypeOK, CacheGood, UNCHANGED <<ruleVars, timeVars>>, NEW k \in Names \X Asked,
           NEW b \in Bodies, NEW by \in {"handler", "warm"}, respCachePut(k, b, by),
           NEW t \in 0 .. clock, clock <= t + MaxService, Due(Past(k[1], t), k[2], by, b)
    PROVE  CacheType' /\ CacheGood'
<1> DEFINE e == [live |-> TRUE, body |-> b, by |-> by, ts |-> clock]
<1>1. CacheType /\ clock \in Nat /\ Grows /\ clock' = clock
  BY Times, TypeParts, PastSame DEF TypeOK, timeVars
<1>2. e \in Entry
  BY <1>1 DEF Entry
<1>3. EntryGood(k, e)
  BY <1>1 DEF EntryGood
<1>4. respCache'[k] = e /\ \A j \in (Names \X Asked) \ {k} : respCache'[j] = respCache[j]
  BY <1>1 DEF respCachePut, CacheType
<1>5. CacheType'
  BY <1>1, <1>2 DEF respCachePut, CacheType
<1>6. ASSUME NEW j \in Names \X Asked PROVE EntryGood(j, respCache[j])'
  <2>1. CASE j = k
    BY <1>1, <1>2, <1>3, <1>4, <2>1, EntryStays
  <2>2. CASE j # k
    <3>1. respCache[j] \in Entry \cup {NoEntry} /\ EntryGood(j, respCache[j])
      BY <1>1 DEF CacheType, CacheGood
    <3> QED
      BY <1>1, <1>4, <2>2, <3>1, EntryStays
  <2> QED
    BY <2>1, <2>2
<1> QED
  BY <1>5, <1>6 DEF CacheGood

LEMMA WriteStep == ASSUME IInv, NEW h \in Handlers, Write(h) PROVE IInv'
<1> DEFINE k == Key(req[h])
           b == body[h]
           r == [status |-> "ok", body |-> b, by |-> "handler"]
<1>1. k \in Names \X Asked /\ k[1] = req[h].name /\ k[2] = req[h].qtype
  BY At
<1>2. began[h] <= clock /\ clock <= began[h] + MaxService /\ pc[h] # "done"
  BY At, BusyLabels DEF Good, InTime, Write
<1>3. Due(Past(req[h].name, began[h]), req[h].qtype, "handler", b)
  BY At DEF Good, Readings, Write
<1>4. UNCHANGED <<ruleVars, feedVars, warm, timeVars>> /\ respCachePut(k, b, "handler")
  BY DEF Write
<1>5. began[h] \in 0 .. clock /\ clock <= began[h] + Window
  BY <1>2, At, Times
<1>6. CacheType' /\ CacheGood'
  BY <1>1, <1>2, <1>3, <1>4, <1>5, At, PutKeeps
<1>7. Current(req[h].name, req[h].qtype, "handler", b)
  BY <1>3, <1>5 DEF Current
<1>8. r \in Replies /\ r.by = "handler" /\ r.body = b
  BY At DEF Replies
<1>9. Becomes(h, "done", req[h], began[h], hasECH[h], body[h], Append(reply[h], r))
  BY At, Leave DEF Write, Becomes, Answer, GoTo
<1> QED
  BY <1>2, <1>4, <1>6, <1>7, <1>8, <1>9, At, Ends

LEMMA FinishStep == ASSUME IInv, NEW h \in Handlers, Finish(h) PROVE IInv'
<1>1. Becomes(h, "idle", Blank, 0, FALSE, Empty, <<>>)
  BY DEF Finish, Becomes, GoTo
<1>2. UNCHANGED <<respCache, ruleVars, feedVars, warm, timeVars>>
  BY DEF Finish
<1>3. CacheType' /\ CacheGood'
  BY <1>2, CacheKept
<1>4. Good("idle", Blank, 0, Empty, <<>>)
  BY DEF Good, Replied, InTime, Readings, Busy
<1>5. "idle" \in Labels
  BY DEF Labels
<1> QED
  BY <1>1, <1>2, <1>3, <1>4, <1>5, BlankType, BodyTypes, Times, HandlerStep
-----------------------------------------------------------------------------
(* A change of the rules retires the values it replaces and forgets none.  *)

LEMMA RetireKeeps ==
    ASSUME clock \in Start .. Start + MaxTicks, NEW V,
           NEW last \in [Names -> [V -> 0 .. Start + MaxTicks]],
           NEW old \in [Names -> V], NEW new \in [Names -> V]
    PROVE  /\ Retire(last, old, new) \in [Names -> [V -> 0 .. Start + MaxTicks]]
           /\ \A n \in Names : \A t \in 0 .. clock :
                 Since(last[n], old[n], t) \subseteq Since(Retire(last, old, new)[n], new[n], t)
<1> DEFINE R == Retire(last, old, new)
<1>1. clock \in Nat /\ clock \in 0 .. Start + MaxTicks
  BY Times
<1>2. R \in [Names -> [V -> 0 .. Start + MaxTicks]]
  BY <1>1 DEF Retire
<1>3. ASSUME NEW n \in Names, NEW t \in 0 .. clock, NEW v \in Since(last[n], old[n], t)
      PROVE  v \in Since(R[n], new[n], t)
  <2>1. v \in V /\ (v = old[n] \/ last[n][v] >= t) /\ DOMAIN R[n] = V
    BY <1>2 DEF Since
  <2>2. CASE old[n] = new[n]
    BY <2>1, <2>2 DEF Since, Retire
  <2>3. CASE old[n] # new[n]
    <3>1. R[n] = [last[n] EXCEPT ![old[n]] = clock]
      BY <2>3 DEF Retire
    <3>2. v = old[n] => R[n][v] = clock
      BY <3>1
    <3>3. v # old[n] => R[n][v] = last[n][v]
      BY <2>1, <3>1
    <3>4. R[n][v] >= t
      BY <1>1, <2>1, <3>2, <3>3
    <3> QED
      BY <2>1, <3>4 DEF Since
  <2> QED
    BY <2>2, <2>3
<1> QED
  BY <1>2, <1>3

LEMMA SetOverrideKeeps ==
    ASSUME RuleTypes, TimeTypes, NEW new \in [Names -> Rules \cup {NoRule}], SetOverride(new),
           UNCHANGED <<overrideV6, forced, lastV6, lastForced>>
    PROVE  RuleTypes' /\ Grows
<1>1. /\ lastRule \in [Names -> [Rules \cup {NoRule} -> 0 .. Start + MaxTicks]]
      /\ override \in [Names -> Rules \cup {NoRule}] /\ clock \in Start .. Start + MaxTicks
  BY DEF RuleTypes, TimeTypes
<1>2. override' = new /\ lastRule' = Retire(lastRule, override, new)
  BY DEF SetOverride
<1>3. lastRule' \in [Names -> [Rules \cup {NoRule} -> 0 .. Start + MaxTicks]]
  BY <1>1, <1>2, RetireKeeps
<1>4. \A n \in Names : \A t \in 0 .. clock :
         Since(lastRule[n], override[n], t) \subseteq Since(lastRule'[n], override'[n], t)
  BY <1>1, <1>2, RetireKeeps
<1>5. RuleTypes'
  BY <1>2, <1>3 DEF RuleTypes
<1>6. ASSUME NEW n \in Names, NEW t \in 0 .. clock PROVE Within(Past(n, t), Past(n, t)')
  <2>1. Past(n, t).v6 = Past(n, t)'.v6 /\ Past(n, t).forced = Past(n, t)'.forced
    BY DEF Past
  <2>2. Past(n, t).rules \subseteq Past(n, t)'.rules
    BY <1>4 DEF Past
  <2> QED
    BY <2>1, <2>2 DEF Within
<1> QED
  BY <1>5, <1>6 DEF Grows

LEMMA SetOverrideV6Keeps ==
    ASSUME RuleTypes, TimeTypes, NEW new \in [Names -> RulesV6 \cup {NoRule}],
           SetOverrideV6(new), UNCHANGED <<override, forced, lastRule, lastForced>>
    PROVE  RuleTypes' /\ Grows
<1>1. /\ lastV6 \in [Names -> [RulesV6 \cup {NoRule} -> 0 .. Start + MaxTicks]]
      /\ overrideV6 \in [Names -> RulesV6 \cup {NoRule}] /\ clock \in Start .. Start + MaxTicks
  BY DEF RuleTypes, TimeTypes
<1>2. overrideV6' = new /\ lastV6' = Retire(lastV6, overrideV6, new)
  BY DEF SetOverrideV6
<1>3. lastV6' \in [Names -> [RulesV6 \cup {NoRule} -> 0 .. Start + MaxTicks]]
  BY <1>1, <1>2, RetireKeeps
<1>4. \A n \in Names : \A t \in 0 .. clock :
         Since(lastV6[n], overrideV6[n], t) \subseteq Since(lastV6'[n], overrideV6'[n], t)
  BY <1>1, <1>2, RetireKeeps
<1>5. RuleTypes'
  BY <1>2, <1>3 DEF RuleTypes
<1>6. ASSUME NEW n \in Names, NEW t \in 0 .. clock PROVE Within(Past(n, t), Past(n, t)')
  <2>1. Past(n, t).rules = Past(n, t)'.rules /\ Past(n, t).forced = Past(n, t)'.forced
    BY DEF Past
  <2>2. Past(n, t).v6 \subseteq Past(n, t)'.v6
    BY <1>4 DEF Past
  <2> QED
    BY <2>1, <2>2 DEF Within
<1> QED
  BY <1>5, <1>6 DEF Grows

LEMMA ReclassifyKeeps ==
    ASSUME RuleTypes, TimeTypes, NEW new \in [Names -> BOOLEAN], forced' = new,
           lastForced' = Retire(lastForced, forced, new),
           UNCHANGED <<override, overrideV6, lastRule, lastV6>>
    PROVE  RuleTypes' /\ Grows
<1>1. /\ lastForced \in [Names -> [BOOLEAN -> 0 .. Start + MaxTicks]]
      /\ forced \in [Names -> BOOLEAN] /\ clock \in Start .. Start + MaxTicks
  BY DEF RuleTypes, TimeTypes
<1>2. lastForced' \in [Names -> [BOOLEAN -> 0 .. Start + MaxTicks]]
  BY <1>1, RetireKeeps
<1>3. \A n \in Names : \A t \in 0 .. clock :
         Since(lastForced[n], forced[n], t) \subseteq Since(lastForced'[n], forced'[n], t)
  BY <1>1, RetireKeeps
<1>4. RuleTypes'
  BY <1>2 DEF RuleTypes
<1>5. ASSUME NEW n \in Names, NEW t \in 0 .. clock PROVE Within(Past(n, t), Past(n, t)')
  <2>1. Past(n, t).rules = Past(n, t)'.rules /\ Past(n, t).v6 = Past(n, t)'.v6
    BY DEF Past
  <2>2. Past(n, t).forced \subseteq Past(n, t)'.forced
    BY <1>3 DEF Past
  <2> QED
    BY <2>1, <2>2 DEF Within
<1> QED
  BY <1>4, <1>5 DEF Grows
-----------------------------------------------------------------------------
(* The steps of the application, the prober and the cloud refresh.         *)

LEMMA RuleStep ==
    ASSUME IInv, UNCHANGED <<handlerVars, warm, clock>>, changes' \in 0 .. MaxChanges,
           RuleTypes', Grows, FeedTypes', UNCHANGED respCache \/ respCacheClear
    PROVE  IInv'
<1>1. TypeOK /\ CacheGood /\ WarmGood /\ WarmType
  BY TypeParts DEF IInv
<1>2. CacheType' /\ CacheGood'
  BY <1>1, CacheStays
<1>3. WarmType' /\ WarmGood'
  BY <1>1, WarmStays, Unchanging
<1> QED
  BY <1>2, <1>3, OutsideStep

LEMMA Parts ==
    ASSUME IInv
    PROVE  /\ TypeOK /\ RuleTypes /\ FeedTypes /\ TimeTypes /\ WarmType /\ CacheGood /\ WarmGood
           /\ changes \in 0 .. MaxChanges /\ (Change => changes' \in 0 .. MaxChanges)
<1>1. TypeOK /\ RuleTypes /\ FeedTypes /\ TimeTypes /\ WarmType /\ CacheGood /\ WarmGood
  BY TypeParts DEF IInv
<1>2. changes \in 0 .. MaxChanges /\ (Change => changes' \in 0 .. MaxChanges)
  BY <1>1 DEF TimeTypes, Change
<1> QED
  BY <1>1, <1>2

LEMMA AppSetsOverrideStep == ASSUME IInv, AppSetsOverride PROVE IInv'
<1>1. PICK new \in [Names -> Rules \cup {NoRule}] : SetOverride(new)
  BY DEF AppSetsOverride
<1>2. RuleTypes' /\ Grows
  BY <1>1, Parts, SetOverrideKeeps DEF AppSetsOverride
<1>3. FeedTypes' /\ changes' \in 0 .. MaxChanges
  BY Parts, Unchanging DEF AppSetsOverride
<1> QED
  BY <1>2, <1>3, RuleStep DEF AppSetsOverride

LEMMA ReclassifyStep == ASSUME IInv, NEW n \in Names, Reclassify(n) PROVE IInv'
<1> DEFINE new == [forced EXCEPT ![n] = ~ @]
<1>1. forced \in [Names -> BOOLEAN]
  BY Parts DEF RuleTypes
<1>2. new \in [Names -> BOOLEAN]
  BY <1>1
<1>3. forced' = new /\ lastForced' = Retire(lastForced, forced, new)
  BY DEF Reclassify
<1>4. RuleTypes' /\ Grows
  BY <1>2, <1>3, Parts, ReclassifyKeeps DEF Reclassify
<1>5. FeedTypes' /\ changes' \in 0 .. MaxChanges
  BY Parts, Unchanging DEF Reclassify
<1> QED
  BY <1>4, <1>5, RuleStep DEF Reclassify

Sections == {"idle", "apply", "clear", "applyV6", "clearV6"}

LEMMA FeedMoves ==
    ASSUME FeedTypes, NEW f \in Refreshers, NEW s \in Sections, NEW c \in Config,
           refresh' = [refresh EXCEPT ![f] = s], cfg' = [cfg EXCEPT ![f] = c]
    PROVE  FeedTypes'
BY DEF FeedTypes, Sections

LEMMA FeedAt ==
    ASSUME FeedTypes, NEW f \in Refreshers
    PROVE  cfg[f] \in Config /\ cfg = [cfg EXCEPT ![f] = cfg[f]]
BY DEF FeedTypes

LEMMA PullStep == ASSUME IInv, NEW f \in Refreshers, Pull(f) PROVE IInv'
<1>1. PICK has4 \in BOOLEAN, has6 \in BOOLEAN, v4 \in [Names -> Rules \cup {NoRule}],
           v6 \in [Names -> RulesV6 \cup {NoRule}] :
         cfg' = [cfg EXCEPT ![f] = [has4 |-> has4, v4 |-> v4, has6 |-> has6, v6 |-> v6]]
  BY DEF Pull
<1> DEFINE c == [has4 |-> has4, v4 |-> v4, has6 |-> has6, v6 |-> v6]
<1>2. c \in Config
  BY DEF Config
<1>3. Then4(cfg'[f]) \in Sections /\ refresh' = [refresh EXCEPT ![f] = Then4(cfg'[f])]
  BY DEF Pull, Then4, Sections
<1>4. FeedTypes'
  BY <1>1, <1>2, <1>3, Parts, FeedMoves
<1>5. RuleTypes' /\ Grows
  BY Parts, Unchanging, PastSame DEF Pull
<1>6. changes' \in 0 .. MaxChanges
  BY Parts DEF Pull
<1> QED
  BY <1>4, <1>5, <1>6, RuleStep DEF Pull

LEMMA ApplyStep == ASSUME IInv, NEW f \in Refreshers, Apply(f) PROVE IInv'
<1>1. cfg[f] \in Config /\ cfg' = [cfg EXCEPT ![f] = cfg[f]]
  BY Parts, FeedAt DEF Apply
<1>2. FeedTypes'
  BY <1>1, Parts, FeedMoves DEF Apply, Sections
<1>3. cfg[f].v4 \in [Names -> Rules \cup {NoRule}] /\ SetOverride(cfg[f].v4)
  BY <1>1 DEF Config, Apply
<1>4. RuleTypes' /\ Grows
  BY <1>3, Parts, SetOverrideKeeps DEF Apply
<1>5. UNCHANGED <<handlerVars, warm, clock, respCache>> /\ changes' \in 0 .. MaxChanges
  BY Parts DEF Apply, timeVars
<1> QED
  BY <1>2, <1>4, <1>5, RuleStep

LEMMA ApplyV6Step == ASSUME IInv, NEW f \in Refreshers, ApplyV6(f) PROVE IInv'
<1>1. cfg[f] \in Config /\ cfg' = [cfg EXCEPT ![f] = cfg[f]]
  BY Parts, FeedAt DEF ApplyV6
<1>2. FeedTypes'
  BY <1>1, Parts, FeedMoves DEF ApplyV6, Sections
<1>3. cfg[f].v6 \in [Names -> RulesV6 \cup {NoRule}] /\ SetOverrideV6(cfg[f].v6)
  BY <1>1 DEF Config, ApplyV6
<1>4. RuleTypes' /\ Grows
  BY <1>3, Parts, SetOverrideV6Keeps DEF ApplyV6
<1>5. UNCHANGED <<handlerVars, warm, clock, respCache>> /\ changes' \in 0 .. MaxChanges
  BY Parts DEF ApplyV6, timeVars
<1> QED
  BY <1>2, <1>4, <1>5, RuleStep

LEMMA EmptyTables ==
    NoRules \in [Names -> Rules \cup {NoRule}] /\ NoRules \in [Names -> RulesV6 \cup {NoRule}]
BY DEF NoRules

LEMMA ClearStep == ASSUME IInv, NEW f \in Refreshers, Clear(f) PROVE IInv'
<1> DEFINE c == [cfg[f] EXCEPT !.has4 = FALSE, !.v4 = NoRules]
<1>1. cfg[f] \in Config /\ cfg \in [Refreshers -> Config]
  BY Parts, FeedAt DEF FeedTypes
<1>2. c \in Config
  BY <1>1, EmptyTables DEF Config
<1>3. cfg' = [cfg EXCEPT ![f] = c]
  BY <1>1 DEF Clear
<1>4. Then6(cfg[f]) \in Sections /\ refresh' = [refresh EXCEPT ![f] = Then6(cfg[f])]
  BY DEF Clear, Then6, Sections
<1>5. FeedTypes'
  BY <1>2, <1>3, <1>4, Parts, FeedMoves
<1>6. RuleTypes' /\ Grows
  BY Parts, Unchanging, PastSame DEF Clear
<1>7. UNCHANGED <<handlerVars, warm, clock>> /\ respCacheClear /\ changes' \in 0 .. MaxChanges
  BY Parts DEF Clear, timeVars
<1> QED
  BY <1>5, <1>6, <1>7, RuleStep

LEMMA ClearV6Step == ASSUME IInv, NEW f \in Refreshers, ClearV6(f) PROVE IInv'
<1>1. Nothing \in Config
  BY EmptyTables DEF Nothing, Config
<1>2. FeedTypes'
  BY <1>1, Parts, FeedMoves DEF ClearV6, Sections
<1>3. RuleTypes' /\ Grows
  BY Parts, Unchanging, PastSame DEF ClearV6
<1>4. UNCHANGED <<handlerVars, warm, clock>> /\ respCacheClear /\ changes' \in 0 .. MaxChanges
  BY Parts DEF ClearV6, timeVars
<1> QED
  BY <1>2, <1>3, <1>4, RuleStep
-----------------------------------------------------------------------------
(* The steps of the warm-up.                                               *)

LEMMA WarmSame ==
    ASSUME NEW P, NEW qtype, qtype # "AAAA", NEW b, Due(P, qtype, "handler", b)
    PROVE  Due(P, qtype, "warm", b)
BY DEF Due, Answers

LEMMA WarmDue ==
    ASSUME RuleTypes, NEW q \in Question, q.qtype \in Cacheable, NEW ech \in BOOLEAN,
           NEW b \in WarmBodies(q, ech), NEW t
    PROVE  Due(Past(q.name, t), q.qtype, "warm", b) /\ b \in Bodies
<1> DEFINE n == q.name
           P == Past(n, t)
           r == override[n]
           v == overrideV6[n]
<1>1. /\ q.name \in Names /\ Full(P) /\ r \in P.rules /\ v \in P.v6
      /\ r \in Rules \cup {NoRule} /\ v \in RulesV6 \cup {NoRule}
      /\ forced[n] => TRUE \in P.forced
      /\ ~ forced[n] => FALSE \in P.forced
  BY QuestionParts, InForce, InForceForced, PastFull
<1>2. CASE r # NoRule
  <2>1. CASE q.qtype = "A"
    <3>1. b = RuleBody(r)
      BY <1>2, <2>1 DEF WarmBodies, Rule
    <3>2. Due(P, "A", "handler", RuleBody(r))
      BY <1>1, <1>2, RuleDue
    <3>3. Due(P, "A", "warm", RuleBody(r))
      BY <3>2, WarmSame
    <3>4. RuleBody(r) \in Bodies
      BY <1>1, ChoiceTypes
    <3> QED
      BY <2>1, <3>1, <3>3, <3>4
  <2>2. CASE q.qtype = "AAAA"
    <3>1. b = IF v # NoRule THEN Body("v6", v) ELSE Empty
      BY <1>2, <2>2 DEF WarmBodies, Rule, RuleV6
    <3>2. \A f : b \in Answers("AAAA", "warm", r, v, f)
      BY <1>2, <3>1 DEF Answers, WarmAAAA
    <3>3. Due(P, "AAAA", "warm", b)
      BY <1>1, <3>2 DEF Due, Full
    <3> QED
      BY <1>1, <2>2, <3>1, <3>3, BodyTypes
  <2>3. CASE q.qtype = "HTTPS"
    <3>1. b \in Injected(ech, TRUE, r)
      BY <1>2, <2>3 DEF WarmBodies, Rule
    <3>2. Due(P, "HTTPS", "handler", b)
      BY <1>1, <1>2, <3>1, RuleDue
    <3> QED
      BY <1>1, <2>3, <3>1, <3>2, WarmSame, ChoiceTypes
  <2> QED
    BY <2>1, <2>2, <2>3 DEF Cacheable
<1>3. CASE r = NoRule /\ forced[n]
  <2>1. PICK found \in BOOLEAN : b \in ForcedBodies(q.qtype, ech, found)
    BY <1>3 DEF WarmBodies, Rule
  <2>2. b \in Bodies
    BY <2>1, QuestionParts, ChoiceTypes
  <2>3. CASE q.qtype = "AAAA"
    <3>1. b = Empty
      BY <2>1, <2>3 DEF ForcedBodies
    <3>2. b \in Answers("AAAA", "warm", NoRule, v, TRUE)
      BY <3>1 DEF Answers, WarmAAAA
    <3> QED
      BY <1>1, <1>3, <2>2, <2>3, <3>2 DEF Due
  <2>4. CASE q.qtype # "AAAA"
    <3>1. Due(P, q.qtype, "handler", b)
      BY <1>1, <1>3, <2>1, <2>4, QuestionParts, ForcedDue
    <3> QED
      BY <2>2, <2>4, <3>1, WarmSame
  <2> QED
    BY <2>3, <2>4
<1>4. CASE r = NoRule /\ ~ forced[n]
  <2>1. CASE q.qtype = "AAAA"
    <3>1. b = Own
      BY <1>4, <2>1 DEF WarmBodies, Rule
    <3>2. b \in Answers("AAAA", "warm", NoRule, v, FALSE)
      BY <3>1 DEF Answers, WarmAAAA
    <3> QED
      BY <1>1, <1>4, <2>1, <3>1, <3>2, BodyTypes DEF Due
  <2>2. CASE q.qtype # "AAAA"
    <3>1. b \in PlainBodies(q.qtype, ech)
      BY <1>4, <2>2 DEF WarmBodies, Rule
    <3>2. b \in Bodies
      BY <3>1, QuestionParts, ChoiceTypes
    <3>3. Due(P, q.qtype, "handler", b)
      BY <1>1, <1>4, <2>2, <3>1, QuestionParts, PlainDue
    <3> QED
      BY <2>2, <3>2, <3>3, WarmSame
  <2> QED
    BY <2>1, <2>2
<1> QED
  BY <1>2, <1>3, <1>4

\* A step of the warm-up that leaves the cache alone, or puts into it.
LEMMA WarmStep ==
    ASSUME IInv, UNCHANGED <<handlerVars, ruleVars, feedVars, clock>>,
           changes' \in 0 .. MaxChanges, WarmType', WarmGood', CacheType', CacheGood'
    PROVE  IInv'
<1>1. RuleTypes' /\ FeedTypes' /\ Grows /\ clock' = clock
  BY Parts, Unchanging, PastSame
<1> QED
  BY <1>1, OutsideStep

LEMMA WarmFetchStep == ASSUME IInv, WarmFetch PROVE IInv'
<1>1. PICK q \in Question, ech \in BOOLEAN :
         /\ q.qtype \in Cacheable
         /\ warm' = [at |-> "fetched", q |-> q, hasECH |-> ech, body |-> Own, ts |-> clock]
  BY DEF WarmFetch
<1>2. clock \in Nat /\ clock <= clock /\ clock <= clock + MaxService
  BY Parts, Times DEF TimeTypes
<1>3. WarmType'
  BY <1>1, <1>2, BodyTypes DEF WarmType, WarmStates
<1>4. WarmGood'
  BY <1>1, <1>2 DEF WarmGood, WarmFetch
<1>5. CacheType' /\ CacheGood'
  BY Parts, PastSame, CacheStays DEF WarmFetch
<1>6. changes' \in 0 .. MaxChanges
  BY Parts DEF WarmFetch
<1> QED
  BY <1>3, <1>4, <1>5, <1>6, WarmStep DEF WarmFetch

LEMMA WarmProcessStep == ASSUME IInv, WarmProcess PROVE IInv'
<1>1. PICK b \in WarmBodies(warm.q, warm.hasECH) :
         warm' = [warm EXCEPT !.at = "processed", !.body = b]
  BY DEF WarmProcess
<1>2. /\ warm \in WarmStates /\ warm.q \in Question /\ warm.hasECH \in BOOLEAN
      /\ warm.q.qtype \in Cacheable /\ warm.ts <= clock /\ clock <= warm.ts + MaxService
  BY Parts DEF WarmType, WarmStates, WarmGood, WarmProcess
<1>3. Due(Past(warm.q.name, warm.ts), warm.q.qtype, "warm", b) /\ b \in Bodies
  BY <1>2, Parts, WarmDue
<1>4. WarmType'
  BY <1>1, <1>2, <1>3 DEF WarmType, WarmStates
<1>5. /\ warm'.at = "processed" /\ warm'.q = warm.q /\ warm'.ts = warm.ts /\ warm'.body = b
      /\ clock' = clock /\ UNCHANGED ruleVars
  BY <1>1, <1>2 DEF WarmStates, WarmProcess, timeVars
<1>6. Past(warm.q.name, warm.ts)' = Past(warm.q.name, warm.ts)
  BY <1>5 DEF Past, ruleVars
<1>7. WarmGood'
  BY <1>2, <1>3, <1>5, <1>6 DEF WarmGood
<1>8. CacheType' /\ CacheGood'
  BY Parts, PastSame, CacheStays DEF WarmProcess, timeVars
<1>9. UNCHANGED <<handlerVars, ruleVars, feedVars, clock>> /\ changes' \in 0 .. MaxChanges
  BY Parts DEF WarmProcess, timeVars
<1> QED
  BY <1>4, <1>7, <1>8, <1>9, WarmStep

LEMMA WarmStoreStep == ASSUME IInv, WarmStore PROVE IInv'
<1> DEFINE k == Key(warm.q)
<1>1. /\ warm \in WarmStates /\ warm.q \in Question /\ warm.body \in Bodies /\ warm.ts \in Nat
      /\ warm.ts <= clock /\ clock <= warm.ts + MaxService /\ clock \in Nat
      /\ Due(Past(warm.q.name, warm.ts), warm.q.qtype, "warm", warm.body)
  BY Parts, Times DEF WarmType, WarmStates, WarmGood, WarmStore, TimeTypes
<1>2. k \in Names \X Asked /\ k[1] = warm.q.name /\ k[2] = warm.q.qtype
  BY <1>1, QuestionParts
<1>3. warm.ts \in 0 .. clock
  BY <1>1
<1>4. CacheType' /\ CacheGood'
  BY <1>1, <1>2, <1>3, Parts, PutKeeps DEF WarmStore
<1>5. WarmType' /\ warm'.at \in {"waiting", "over"}
  <2>1. PICK at \in {"waiting", "over"} :
          warm' = [warm EXCEPT !.at = at, !.hasECH = FALSE, !.body = Empty,
                               !.q = Blank, !.ts = 0]
    BY DEF WarmStore
  <2>2. warm' = [at |-> at, q |-> Blank, hasECH |-> FALSE, body |-> Empty, ts |-> 0]
    BY <1>1, <2>1 DEF WarmStates
  <2>3. warm' \in WarmStates
    BY <2>2, BlankType, BodyTypes DEF WarmStates
  <2> QED
    BY <2>2, <2>3 DEF WarmType
<1>6. WarmGood'
  BY <1>5 DEF WarmGood
<1>7. UNCHANGED <<handlerVars, ruleVars, feedVars, clock>> /\ changes' \in 0 .. MaxChanges
  BY Parts DEF WarmStore, timeVars
<1> QED
  BY <1>4, <1>5, <1>6, <1>7, WarmStep
-----------------------------------------------------------------------------
(* Time: what is still current is not forgotten.                           *)

LEMMA ForgetKeeps ==
    ASSUME NEW now \in Nat, NEW V, NEW last \in [Names -> [V -> 0 .. Start + MaxTicks]],
           NEW cur
    PROVE  /\ Forget(last, now) \in [Names -> [V -> 0 .. Start + MaxTicks]]
           /\ \A n \in Names : \A t \in Nat : now <= t + Window =>
                 Since(last[n], cur, t) \subseteq Since(Forget(last, now)[n], cur, t)
<1> DEFINE F == Forget(last, now)
<1>1. \A n \in Names : F[n] = [v \in V |-> IF now - last[n][v] > Window THEN 0 ELSE last[n][v]]
  BY DEF Forget
<1>2. F \in [Names -> [V -> 0 .. Start + MaxTicks]]
  <2>1. ASSUME NEW n \in Names PROVE F[n] \in [V -> 0 .. Start + MaxTicks]
    <3> DEFINE kept == [v \in V |-> IF now - last[n][v] > Window THEN 0 ELSE last[n][v]]
    <3>1. ASSUME NEW v \in V PROVE kept[v] \in 0 .. Start + MaxTicks
      <4>1. last[n][v] \in 0 .. Start + MaxTicks /\ 0 \in 0 .. Start + MaxTicks
        BY Times
      <4> QED
        BY <4>1
    <3>2. kept \in [V -> 0 .. Start + MaxTicks]
      BY <3>1
    <3>3. F[n] = kept
      BY <1>1
    <3> QED
      BY <3>2, <3>3
  <2> QED
    BY <2>1 DEF Forget
<1>3. ASSUME NEW n \in Names, NEW t \in Nat, now <= t + Window,
             NEW v \in Since(last[n], cur, t)
      PROVE  v \in Since(F[n], cur, t)
  <2>1. v \in V /\ (v = cur \/ last[n][v] >= t) /\ last[n][v] \in Nat
    BY Times DEF Since
  <2>2. DOMAIN F[n] = V /\ F[n][v] = IF now - last[n][v] > Window THEN 0 ELSE last[n][v]
    BY <1>1, <2>1
  <2>3. last[n][v] >= t => F[n][v] = last[n][v]
    BY <1>3, <2>1, <2>2, Times
  <2> QED
    BY <2>1, <2>2, <2>3 DEF Since
<1> QED
  BY <1>2, <1>3

LEMMA TickPast ==
    ASSUME IInv, Tick
    PROVE  /\ RuleTypes' /\ clock' = clock + 1 /\ clock \in Nat
           /\ \A n \in Names : \A t \in Nat :
                 clock + 1 <= t + Window => Within(Past(n, t), Past(n, t)')
<1>1. RuleTypes /\ clock \in Nat
  BY Parts, Times DEF TimeTypes
<1>2. /\ clock' = clock + 1 /\ clock + 1 \in Nat
      /\ lastRule' = Forget(lastRule, clock + 1)
      /\ lastV6' = Forget(lastV6, clock + 1) /\ lastForced' = Forget(lastForced, clock + 1)
      /\ UNCHANGED <<override, overrideV6, forced>>
  BY <1>1 DEF Tick
<1>3. RuleTypes'
  BY <1>1, <1>2, ForgetKeeps DEF RuleTypes
<1>4. ASSUME NEW n \in Names, NEW t \in Nat, clock + 1 <= t + Window
      PROVE  Within(Past(n, t), Past(n, t)')
  <2>1. Since(lastRule[n], override[n], t) \subseteq Since(lastRule'[n], override'[n], t)
    BY <1>1, <1>2, <1>4, ForgetKeeps DEF RuleTypes
  <2>2. Since(lastV6[n], overrideV6[n], t) \subseteq Since(lastV6'[n], overrideV6'[n], t)
    BY <1>1, <1>2, <1>4, ForgetKeeps DEF RuleTypes
  <2>3. Since(lastForced[n], forced[n], t) \subseteq Since(lastForced'[n], forced'[n], t)
    BY <1>1, <1>2, <1>4, ForgetKeeps DEF RuleTypes
  <2> QED
    BY <2>1, <2>2, <2>3 DEF Past, Within
<1> QED
  BY <1>1, <1>2, <1>3, <1>4

LEMMA TickHandler ==
    ASSUME IInv, Tick, NEW h \in Handlers
    PROVE  HandlerGood(h)'
<1>1. /\ clock' = clock + 1 /\ clock \in Nat /\ pc[h] # "done"
      /\ pc[h] \in Busy => clock < began[h] + MaxService
      /\ pc' = pc /\ req' = req /\ began' = began /\ body' = body /\ reply' = reply
  BY TickPast DEF Tick, handlerVars
<1>2. /\ Good(pc[h], req[h], began[h], body[h], reply[h]) /\ began[h] \in Nat
      /\ req[h].name \in Names /\ pc[h] \in Labels
  BY At
<1>3. Replied(pc[h], reply[h])
  BY <1>2 DEF Good
<1>4. InTime(pc[h], began[h], clock + 1)
  <2>1. InTime(pc[h], began[h], clock)
    BY <1>2 DEF Good
  <2> QED
    BY <1>1, <1>2, <2>1, Times DEF InTime
<1>5. Readings(pc[h], req[h].qtype, body[h], Past(req[h].name, began[h])')
  <2>1. CASE pc[h] \in Busy
    <3>1. clock + 1 <= began[h] + Window
      BY <1>1, <1>2, <2>1, Times
    <3> DEFINE n == req[h].name
               t == began[h]
    <3>2. Within(Past(n, t), Past(n, t)')
      BY <1>1, <1>2, <3>1, TickPast
    <3> QED
      BY <1>2, <3>2, ReadingsGrow DEF Good
  <2>2. CASE pc[h] \notin Busy
    BY <1>1, <1>2, <2>2 DEF Readings, Busy
  <2> QED
    BY <2>1, <2>2
<1> QED
  BY <1>1, <1>3, <1>4, <1>5 DEF HandlerGood, Delivered

LEMMA TickEntry ==
    ASSUME IInv, Tick, NEW k \in Names \X Asked, NEW e \in Entry \cup {NoEntry},
           EntryGood(k, e), Fresh(e, clock + 1)
    PROVE  EntryGood(k, e)'
<1>1. e \in Entry /\ e.ts \in Nat /\ e.live
  <2>1. e.live /\ e # NoEntry
    BY DEF Fresh, NoEntry
  <2> QED
    BY <2>1 DEF Entry
<1>2. clock' = clock + 1 /\ clock \in Nat
  BY TickPast
<1>3. PICK t \in 0 .. e.ts : /\ e.ts <= clock /\ e.ts <= t + MaxService
                             /\ Due(Past(k[1], t), k[2], e.by, e.body)
  BY <1>1 DEF EntryGood
<1>4. (clock + 1) - e.ts < ResponseTTL
  BY DEF Fresh
<1>5. t \in Nat /\ clock + 1 <= t + Window /\ e.ts <= clock + 1
  BY <1>1, <1>2, <1>3, <1>4, Times
<1>6. Within(Past(k[1], t), Past(k[1], t)')
  BY <1>5, TickPast
<1>7. Due(Past(k[1], t)', k[2], e.by, e.body)
  BY <1>3, <1>6, DueGrows
<1> QED
  BY <1>2, <1>3, <1>5, <1>7 DEF EntryGood

LEMMA TickCache == ASSUME IInv, Tick PROVE CacheType' /\ CacheGood'
<1>1. CacheType /\ CacheGood /\ clock' = clock + 1
  BY Parts, TypeParts, TickPast DEF IInv
<1>2. respCache' = [k \in Names \X Asked |->
                      IF Fresh(respCache[k], clock + 1) THEN respCache[k] ELSE NoEntry]
  BY <1>1 DEF Tick, CacheType
<1>3. CacheType'
  BY <1>1, <1>2 DEF CacheType
<1>4. ASSUME NEW k \in Names \X Asked PROVE EntryGood(k, respCache[k])'
  <2>1. respCache[k] \in Entry \cup {NoEntry} /\ EntryGood(k, respCache[k])
    BY <1>1 DEF CacheType, CacheGood
  <2>2. CASE Fresh(respCache[k], clock + 1)
    <3>1. respCache'[k] = respCache[k]
      BY <1>2, <2>2
    <3> QED
      BY <2>1, <2>2, <3>1, TickEntry
  <2>3. CASE ~ Fresh(respCache[k], clock + 1)
    <3>1. respCache'[k] = NoEntry
      BY <1>2, <2>3
    <3> QED
      BY <3>1 DEF EntryGood, NoEntry
  <2> QED
    BY <2>2, <2>3
<1> QED
  BY <1>3, <1>4 DEF CacheGood

LEMMA TickWarm == ASSUME IInv, Tick PROVE WarmGood'
<1>1. /\ clock' = clock + 1 /\ clock \in Nat /\ warm' = warm
      /\ warm.at \in {"fetched", "processed"} => clock < warm.ts + MaxService
  BY TickPast DEF Tick
<1>2. warm.q \in Question /\ warm.ts \in Nat /\ warm.q.name \in Names /\ WarmGood
  BY Parts, QuestionParts DEF WarmType, WarmStates
<1>3. CASE warm.at = "processed"
  <2>1. clock + 1 <= warm.ts + MaxService /\ clock + 1 <= warm.ts + Window
    BY <1>1, <1>2, <1>3, Times
  <2> DEFINE n == warm.q.name
             t == warm.ts
  <2>2. Within(Past(n, t), Past(n, t)')
    BY <1>1, <1>2, <2>1, TickPast
  <2>3. Due(Past(n, t)', warm.q.qtype, "warm", warm.body)
    BY <1>2, <1>3, <2>2, DueGrows DEF WarmGood
  <2>4. warm.ts <= clock + 1 /\ warm.q.qtype \in Cacheable
    BY <1>1, <1>2, <1>3 DEF WarmGood
  <2> QED
    BY <1>1, <1>2, <1>3, <2>1, <2>3, <2>4 DEF WarmGood
<1>4. CASE warm.at = "fetched"
  <2>1. clock + 1 <= warm.ts + MaxService /\ warm.ts <= clock + 1
    BY <1>1, <1>2, <1>4, Times DEF WarmGood
  <2> QED
    BY <1>1, <1>2, <1>4, <2>1 DEF WarmGood
<1>5. CASE warm.at \notin {"fetched", "processed"}
  BY <1>1, <1>5 DEF WarmGood
<1> QED
  BY <1>3, <1>4, <1>5

LEMMA TickStep == ASSUME IInv, Tick PROVE IInv'
<1>1. RuleTypes' /\ CacheType' /\ CacheGood' /\ WarmGood'
  BY TickPast, TickCache, TickWarm
<1>2. HandlersGood'
  BY TickHandler DEF HandlersGood
<1>3. HandlerTypes' /\ FeedTypes' /\ WarmType'
  BY Parts, TypeParts, Unchanging DEF Tick
<1>4. TimeTypes'
  BY Parts, Times DEF Tick, TimeTypes
<1>5. TypeOK'
  BY <1>1, <1>3, <1>4, TypeParts
<1> QED
  BY <1>1, <1>2, <1>5 DEF IInv
-----------------------------------------------------------------------------
(* The invariant.                                                          *)

LEMMA InitInv == Init => IInv
<1> SUFFICES ASSUME Init PROVE IInv
  OBVIOUS
<1>1. TypeOK
  BY InitTypes
<1>2. ASSUME NEW h \in Handlers PROVE HandlerGood(h)
  <2>1. pc[h] = "idle" /\ reply[h] = <<>>
    BY DEF Init
  <2> QED
    BY <2>1 DEF HandlerGood, Replied, InTime, Readings, Delivered, Busy
<1>3. ASSUME NEW k \in Names \X Asked PROVE EntryGood(k, respCache[k])
  BY DEF Init, EntryGood, NoEntry
<1>4. WarmGood
  BY DEF Init, WarmGood
<1> QED
  BY <1>1, <1>2, <1>3, <1>4 DEF IInv, HandlersGood, CacheGood

LEMMA HandleStep == ASSUME IInv, NEW h \in Handlers, Handle(h) PROVE IInv'
BY CacheHitStep, CacheMissStep, UpstreamFailsStep, UpstreamAnswersStep, MatchV6Step,
   MatchOverrideStep, MatchOverrideAAAAStep, NoOverrideStep, ForceRewriteStep, NotForcedStep,
   PlainStep, WriteStep, PackFailsStep, FinishStep DEF Handle

LEMMA StutterStep == ASSUME IInv, UNCHANGED vars PROVE IInv'
<1>1. /\ UNCHANGED <<handlerVars, warm, clock, respCache, changes>>
      /\ UNCHANGED ruleVars /\ UNCHANGED feedVars
  BY DEF vars, timeVars
<1>2. RuleTypes' /\ FeedTypes' /\ Grows /\ changes' \in 0 .. MaxChanges
  BY <1>1, Parts, Unchanging, PastSame
<1> QED
  BY <1>1, <1>2, RuleStep

LEMMA Inductive == IInv /\ [Next]_vars => IInv'
<1> SUFFICES ASSUME IInv, [Next]_vars PROVE IInv'
  OBVIOUS
<1>1. ASSUME NEW h \in Handlers, Receive(h) \/ BadQuery(h) \/ Handle(h) PROVE IInv'
  BY <1>1, ReceiveStep, BadQueryStep, HandleStep
<1>2. ASSUME NEW f \in Refreshers, Refresh(f) PROVE IInv'
  BY <1>2, PullStep, ApplyStep, ClearStep, ApplyV6Step, ClearV6Step DEF Refresh
<1>3. CASE Tick
  BY <1>3, TickStep
<1>4. CASE AppSetsOverride
  BY <1>4, AppSetsOverrideStep
<1>5. ASSUME NEW n \in Names, Reclassify(n) PROVE IInv'
  BY <1>5, ReclassifyStep
<1>6. CASE WarmUp
  BY <1>6, WarmFetchStep, WarmProcessStep, WarmStoreStep DEF WarmUp
<1>7. CASE UNCHANGED vars
  BY <1>7, StutterStep
<1> QED
  BY <1>1, <1>2, <1>3, <1>4, <1>5, <1>6, <1>7 DEF Next, CloudNext

-----------------------------------------------------------------------------
(* The theorems.                                                           *)

\* Every step of the handler, of the application, of the cloud refresh, of the
\* warm-up and of time keeps what each answer under way and in the cache is due to.
THEOREM Invariance == Spec => []IInv
<1> QED
  BY InitInv, Inductive, PTL DEF Spec

\* The variables keep their types.
THEOREM TypeCorrect == Spec => []TypeOK
<1>1. IInv => TypeOK
  BY DEF IInv
<1> QED
  BY <1>1, Invariance, PTL

\* The values since t are recent when t is.
LEMMA SinceRecent ==
    ASSUME clock \in Nat, NEW last, \A v \in DOMAIN last : last[v] \in Nat, NEW cur,
           NEW t \in Nat, clock <= t + Window
    PROVE  Since(last, cur, t) \subseteq Recent(last, cur)
BY Times DEF Since, Recent

LEMMA PastRecent ==
    ASSUME RuleTypes, clock \in Nat, NEW n \in Names, NEW t \in Nat, clock <= t + Window
    PROVE  /\ Past(n, t).rules \subseteq Recent(lastRule[n], override[n])
           /\ Past(n, t).v6 \subseteq Recent(lastV6[n], overrideV6[n])
           /\ Past(n, t).forced \subseteq Recent(lastForced[n], forced[n])
<1>1. /\ \A v \in DOMAIN lastRule[n] : lastRule[n][v] \in Nat
      /\ \A v \in DOMAIN lastV6[n] : lastV6[n][v] \in Nat
      /\ \A v \in DOMAIN lastForced[n] : lastForced[n][v] \in Nat
  BY Times DEF RuleTypes
<1>2. Since(lastRule[n], override[n], t) \subseteq Recent(lastRule[n], override[n])
  BY <1>1, SinceRecent
<1>3. Since(lastV6[n], overrideV6[n], t) \subseteq Recent(lastV6[n], overrideV6[n])
  BY <1>1, SinceRecent
<1>4. Since(lastForced[n], forced[n], t) \subseteq Recent(lastForced[n], forced[n])
  BY <1>1, SinceRecent
<1> QED
  BY <1>2, <1>3, <1>4 DEF Past

\* What a served answer is due to.
LEMMA ServedDue ==
    ASSUME IInv, NEW h \in Handlers, NEW qtype, NEW by, Served(h, qtype, by)
    PROVE  \E t \in 0 .. clock : /\ clock <= t + Window
                                 /\ Due(Past(req[h].name, t), qtype, by, reply[h][1].body)
<1>1. Delivered(h)
  BY DEF IInv, HandlersGood, HandlerGood
<1> QED
  BY <1>1 DEF Served, Delivered, Current

\* Whatever the order of queries, rule changes, refreshes and cache writes, an
\* answer follows from rules each of which was in force at most Window ago: a
\* handler reads the rules one lock at a time, and its answer may wait in the cache.
THEOREM RepliesExplained == Spec => []ReplyExplained
<1>1. ASSUME IInv PROVE ReplyExplained
  <2>1. ASSUME NEW h \in Handlers, NEW qtype \in Asked, NEW by \in {"handler", "warm"},
               Served(h, qtype, by), by = "warm" => qtype # "AAAA"
        PROVE  \E r \in Recent(lastRule[req[h].name], override[req[h].name]),
                  v \in Recent(lastV6[req[h].name], overrideV6[req[h].name]),
                  f \in Recent(lastForced[req[h].name], forced[req[h].name]) :
                    reply[h][1].body \in Explained(qtype, r, v, f)
    <3> DEFINE n == req[h].name
               b == reply[h][1].body
    <3>1. PICK t \in 0 .. clock : clock <= t + Window /\ Due(Past(n, t), qtype, by, b)
      BY <1>1, <2>1, ServedDue
    <3>2. /\ Past(n, t).rules \subseteq Recent(lastRule[n], override[n])
          /\ Past(n, t).v6 \subseteq Recent(lastV6[n], overrideV6[n])
          /\ Past(n, t).forced \subseteq Recent(lastForced[n], forced[n])
      BY <1>1, <3>1, At, PastRecent
    <3>3. PICK r \in Past(n, t).rules, v \in Past(n, t).v6, f \in Past(n, t).forced :
             b \in Answers(qtype, by, r, v, f)
      BY <3>1 DEF Due
    <3>4. b \in Explained(qtype, r, v, f)
      BY <2>1, <3>3 DEF Answers
    <3> QED
      BY <3>2, <3>3, <3>4
  <2> QED
    BY <2>1 DEF ReplyExplained
<1> QED
  BY <1>1, Invariance, PTL

\* The answers of a forced domain are never its own addresses.
LEMMA ForcedNotOwn ==
    ASSUME NEW qtype \in {"A", "AAAA"}, NEW by, NEW r, NEW v, NEW f, f = TRUE,
           NEW b \in Answers(qtype, by, r, v, f)
    PROVE  b # Own
<1>1. \A x : Own # Body("v6", x) /\ Own # Body("rule", x)
  BY DEF Own, Body
<1>2. Own # Empty /\ Own # Hints /\ Own # RuleBody(r)
  BY DEF Own, Empty, Hints, Body, RuleBody
<1>3. CASE qtype = "A"
  BY <1>1, <1>2, <1>3 DEF Answers, Explained
<1>4. CASE qtype = "AAAA"
  BY <1>1, <1>2, <1>4 DEF Answers, WarmAAAA, Explained
<1> QED
  BY <1>3, <1>4

\* Once a domain has been forced for longer than Window, its own addresses no
\* longer reach an A or AAAA answer, through whichever cache entry or branch.
THEOREM ForcedStaysClosed == Spec => []ForcedClosed
<1>1. ASSUME IInv PROVE ForcedClosed
  <2>1. ASSUME NEW h \in Handlers, NEW qtype \in {"A", "AAAA"}, NEW by \in {"handler", "warm"},
               Served(h, qtype, by),
               FALSE \notin Recent(lastForced[req[h].name], forced[req[h].name])
        PROVE  reply[h][1].body # Own
    <3> DEFINE n == req[h].name
               b == reply[h][1].body
    <3>1. PICK t \in 0 .. clock : clock <= t + Window /\ Due(Past(n, t), qtype, by, b)
      BY <1>1, <2>1, ServedDue
    <3>2. Past(n, t).forced \subseteq Recent(lastForced[n], forced[n])
      BY <1>1, <3>1, At, PastRecent
    <3>3. PICK r \in Past(n, t).rules, v \in Past(n, t).v6, f \in Past(n, t).forced :
             b \in Answers(qtype, by, r, v, f)
      BY <3>1 DEF Due
    <3>4. f \in BOOLEAN
      BY <1>1, At DEF RuleTypes, Past, Since
    <3>5. f = TRUE
      BY <2>1, <3>2, <3>4
    <3> QED
      BY <3>3, <3>5, ForcedNotOwn
  <2> QED
    BY <2>1 DEF ForcedClosed
<1> QED
  BY <1>1, Invariance, PTL

\* A handler that has come to its end has written exactly one response, one that
\* is under way has written none: the safety half of QueryAnswered.
AnsweredOnce == \A h \in Handlers : Len(reply[h]) = IF pc[h] = "done" THEN 1 ELSE 0

THEOREM EachAnsweredOnce == Spec => []AnsweredOnce
<1>1. ASSUME IInv PROVE AnsweredOnce
  <2>1. ASSUME NEW h \in Handlers PROVE Len(reply[h]) = IF pc[h] = "done" THEN 1 ELSE 0
    BY <1>1, At DEF Good, Replied
  <2> QED
    BY <2>1 DEF AnsweredOnce
<1> QED
  BY <1>1, Invariance, PTL

\* What a handler is about to write and to cache follows from rules each of which
\* was in force at some time since its query arrived: a change of the rules in
\* between can split the answer, one before the query cannot.
SinceArrival ==
    \A h \in Handlers : pc[h] = "write" =>
        Due(Past(req[h].name, began[h]), req[h].qtype, "handler", body[h])

THEOREM WrittenSinceArrival == Spec => []SinceArrival
<1>1. ASSUME IInv PROVE SinceArrival
  BY <1>1, At DEF SinceArrival, Good, Readings
<1> QED
  BY <1>1, Invariance, PTL

\* How stale a stale store can be: a handler or a warm-up that was under way when the
\* rules changed may store after the cache was cleared, but what the cache holds
\* follows from rules in force at most MaxService before it was stored (respCachePut).
THEOREM CacheExplained == Spec => []CacheGood
<1>1. IInv => CacheGood
  BY DEF IInv
<1> QED
  BY <1>1, Invariance, PTL
=============================================================================
