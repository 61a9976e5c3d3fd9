------------------------------- MODULE DohServer -------------------------------
(***************************************************************************)
(* The DNS-over-HTTPS front of echdoh: handleDoH with its response cache,  *)
(* the override rules it reads, and those who change what it reads: the    *)
(* application (SetOverride), the cloud refresh, the warm-up.              *)
(*                                                                         *)
(* A handler takes the locks of the rules and of the cache one at a time,  *)
(* with an upstream exchange and probes of several seconds in between.     *)
(* Each action is one such section.  What the upstream says, what the      *)
(* hint service returns (module ForcedHints) and whether a public ECH key  *)
(* is at hand are choices of the environment.                              *)
(*                                                                         *)
(* Time is a clock of coarse ticks.  A response lives ResponseTTL ticks in *)
(* the cache (60 s) and a handler needs at most MaxService ticks, the sum  *)
(* of the timeouts of its exchanges.                                       *)
(***************************************************************************)
EXTENDS Naturals, Sequences

CONSTANTS
    Handlers,       \* goroutines of the HTTP server
    Refreshers,     \* goroutines running fetchCloudConfigTXT
    Names,          \* queried domains
    Asked,          \* query types that are asked
    Rules,          \* values of an IPv4 override rule
    BadRules,       \* those of them without a single valid address
    RulesV6,        \* values of an IPv6 override rule
    NoRule,         \* no rule matches
    ResponseTTL,    \* respCacheTTL in ticks
    MaxService,     \* longest service time of one query in ticks
    MaxTicks,       \* bound: ticks of a behaviour
    MaxChanges      \* bound: rule changes, refreshes and warm-up queries

ASSUME RuleAssumption == BadRules \subseteq Rules /\ NoRule \notin Rules \cup RulesV6
ASSUME QuestionAssumption ==
    /\ Names # {} /\ Asked # {}
    /\ Asked \subseteq {"A", "AAAA", "HTTPS", "OTHER"}
ASSUME TimeAssumption ==
    /\ ResponseTTL \in Nat \ {0}
    /\ MaxService \in Nat /\ MaxTicks \in Nat /\ MaxChanges \in Nat

VARIABLES
    pc, req,        \* where each handler is, the question it answers
    began,          \* history: when its query arrived
    hasECH,         \* its upstream record already carries ech=
    body,           \* the answer under construction
    reply,          \* what it wrote to its client, a sequence of replies
    respCache,
    override, overrideV6, forced,
    lastRule, lastV6, lastForced,   \* history: when each value was last in force
    refresh, cfg,   \* where each refresher is, what it has pulled
    warm,           \* the warm-up's query, its progress
    clock,
    changes         \* how often the environment has acted

handlerVars == <<pc, req, began, hasECH, body, reply>>
ruleVars    == <<override, overrideV6, forced, lastRule, lastV6, lastForced>>
feedVars    == <<refresh, cfg>>
timeVars    == <<clock, changes>>
vars == <<handlerVars, respCache, ruleVars, feedVars, warm, timeVars>>

Cacheable == {"A", "AAAA", "HTTPS"}

\* What an answer section may hold: the upstream's own records, the addresses
\* of a rule, vetted hints, an injected ech= record, nothing.
Body(what, val) == [what |-> what, val |-> val]
Own   == Body("own", NoRule)
Hints == Body("hints", NoRule)
Empty == Body("empty", NoRule)
Bodies == [what : {"own", "hints", "empty", "ech", "rule", "v6"},
           val : Rules \cup RulesV6 \cup {NoRule}]

Question == [name : Names, qtype : Asked]
Key(q)   == <<q.name, q.qtype>>

NoEntry == [live |-> FALSE]
Entry   == [live : {TRUE}, body : Bodies, by : {"handler", "warm"}, ts : Nat]

\* The longest a value can be out of force and still shape an answer.
Window == ResponseTTL + MaxService - 1
Start  == Window + 1

Labels == {"idle", "lookup", "upstream", "v6", "override", "overrideAAAA",
           "force", "plain", "write", "done"}
Busy   == Labels \ {"idle", "done"}

Replies == [status : {"ok", "servfail", "error"}, body : Bodies,
            by : {"handler", "warm"}]

WarmStates == [at : {"waiting", "fetched", "processed", "over"}, q : Question,
               hasECH : BOOLEAN, body : Bodies, ts : Nat]

TypeOK ==
    /\ pc \in [Handlers -> Labels]
    /\ req \in [Handlers -> Question]
    /\ began \in [Handlers -> 0 .. Start + MaxTicks]
    /\ hasECH \in [Handlers -> BOOLEAN]
    /\ body \in [Handlers -> Bodies]
    /\ reply \in [Handlers -> {<<>>} \cup {<<r>> : r \in Replies}]
    /\ respCache \in [Names \X Asked -> Entry \cup {NoEntry}]
    /\ override \in [Names -> Rules \cup {NoRule}]
    /\ overrideV6 \in [Names -> RulesV6 \cup {NoRule}]
    /\ forced \in [Names -> BOOLEAN]
    /\ lastRule \in [Names -> [Rules \cup {NoRule} -> 0 .. Start + MaxTicks]]
    /\ lastV6 \in [Names -> [RulesV6 \cup {NoRule} -> 0 .. Start + MaxTicks]]
    /\ lastForced \in [Names -> [BOOLEAN -> 0 .. Start + MaxTicks]]
    /\ refresh \in [Refreshers -> {"idle", "apply", "clear", "applyV6", "clearV6"}]
    /\ cfg \in [Refreshers -> [has4 : BOOLEAN, v4 : [Names -> Rules \cup {NoRule}],
                               has6 : BOOLEAN, v6 : [Names -> RulesV6 \cup {NoRule}]]]
    /\ warm \in WarmStates
    /\ clock \in Start .. Start + MaxTicks
    /\ changes \in 0 .. MaxChanges

NoRules == [n \in Names |-> NoRule]
Nothing == [has4 |-> FALSE, v4 |-> NoRules, has6 |-> FALSE, v6 |-> NoRules]
Blank   == CHOOSE q \in Question : TRUE

Init ==
    /\ pc = [h \in Handlers |-> "idle"]
    /\ req = [h \in Handlers |-> Blank]
    /\ began = [h \in Handlers |-> 0]
    /\ hasECH = [h \in Handlers |-> FALSE]
    /\ body = [h \in Handlers |-> Empty]
    /\ reply = [h \in Handlers |-> <<>>]
    /\ respCache = [k \in Names \X Asked |-> NoEntry]
    /\ override = NoRules
    /\ overrideV6 = NoRules
    /\ forced \in [Names -> BOOLEAN]
    /\ lastRule = [n \in Names |-> [r \in Rules \cup {NoRule} |-> 0]]
    /\ lastV6 = [n \in Names |-> [r \in RulesV6 \cup {NoRule} |-> 0]]
    /\ lastForced = [n \in Names |-> [b \in BOOLEAN |-> 0]]
    /\ refresh = [f \in Refreshers |-> "idle"]
    /\ cfg = [f \in Refreshers |-> Nothing]
    /\ warm = [at |-> "waiting", q |-> Blank, hasECH |-> FALSE, body |-> Empty, ts |-> 0]
    /\ clock = Start
    /\ changes = 0

-----------------------------------------------------------------------------
(* The response cache.                                                     *)

\* Mutant: an entry is returned for one tick too long.
FreshLonger(e, now) == e.live /\ now - e.ts <= ResponseTTL

Fresh(e, now) == e.live /\ now - e.ts < ResponseTTL
Cached(k)     == Fresh(respCache[k], clock)

respCachePut(k, b, by) ==
    respCache' = [respCache EXCEPT ![k] =
        [live |-> TRUE, body |-> b, by |-> by, ts |-> clock]]

respCacheClear == respCache' = [k \in Names \X Asked |-> NoEntry]

-----------------------------------------------------------------------------
(* The handler.                                                            *)

GoTo(h, label) == pc' = [pc EXCEPT ![h] = label]

Answer(h, status, b, by) ==
    /\ reply' = [reply EXCEPT ![h] = Append(@, [status |-> status, body |-> b, by |-> by])]
    /\ GoTo(h, "done")
Refuse(h, status) == Answer(h, status, Empty, "handler")

\* A query that cannot be parsed is refused on the spot with a 400.
BadQuery(h) ==
    /\ pc[h] = "idle"
    /\ \E q \in Question : req' = [req EXCEPT ![h] = q]
    /\ began' = [began EXCEPT ![h] = clock]
    /\ Refuse(h, "error")
    /\ UNCHANGED <<hasECH, body, respCache, ruleVars, feedVars, warm, timeVars>>

Receive(h) ==
    /\ pc[h] = "idle"
    /\ \E q \in Question : req' = [req EXCEPT ![h] = q]
    /\ began' = [began EXCEPT ![h] = clock]
    /\ GoTo(h, "lookup")
    /\ UNCHANGED <<hasECH, body, reply, respCache, ruleVars, feedVars,
                   warm, timeVars>>

\* The cached bytes are written as they are.
CacheHit(h) ==
    LET k == Key(req[h])
    IN  /\ pc[h] = "lookup"
        /\ req[h].qtype \in Cacheable
        /\ Cached(k)
        /\ Answer(h, "ok", respCache[k].body, respCache[k].by)
        /\ UNCHANGED <<req, began, hasECH, body, respCache, ruleVars,
                       feedVars, warm, timeVars>>

CacheMiss(h) ==
    /\ pc[h] = "lookup"
    /\ req[h].qtype \in Cacheable => ~ Cached(Key(req[h]))
    /\ GoTo(h, "upstream")
    /\ UNCHANGED <<req, began, hasECH, body, reply, respCache, ruleVars,
                   feedVars, warm, timeVars>>

\* Mutant: no return after the error has been written.
UpstreamFailsOn(h) ==
    /\ pc[h] = "upstream"
    /\ reply' = [reply EXCEPT ![h] = Append(@, [status |-> "servfail",
                                                body |-> Empty, by |-> "handler"])]
    /\ GoTo(h, "override")
    /\ UNCHANGED <<req, began, hasECH, body, respCache, ruleVars,
                   feedVars, warm, timeVars>>

\* SERVFAIL goes out directly; it is not cached.
UpstreamFails(h) ==
    /\ pc[h] = "upstream"
    /\ Refuse(h, "servfail")
    /\ UNCHANGED <<req, began, hasECH, body, respCache, ruleVars,
                   feedVars, warm, timeVars>>

UpstreamAnswers(h) ==
    /\ pc[h] = "upstream"
    /\ \E ech \in BOOLEAN :
         /\ ech => req[h].qtype = "HTTPS"
         /\ hasECH' = [hasECH EXCEPT ![h] = ech]
    /\ body' = [body EXCEPT ![h] = Own]
    /\ GoTo(h, IF req[h].qtype = "AAAA" THEN "v6" ELSE "override")
    /\ UNCHANGED <<req, began, reply, respCache, ruleVars, feedVars,
                   warm, timeVars>>

\* Mutant: the branch of the IPv6 rules is gone.
MatchV6Never(h) ==
    /\ pc[h] = "v6"
    /\ GoTo(h, "override")
    /\ UNCHANGED <<req, began, hasECH, body, reply, respCache, ruleVars,
                   feedVars, warm, timeVars>>

\* matchOverride and matchOverrideV6: the rule of a name, exact or by suffix.
Rule(n)   == override[n]
RuleV6(n) == overrideV6[n]

\* An IPv6 rule answers an AAAA query before anything else is looked at.
MatchV6(h) ==
    LET v == RuleV6(req[h].name)
    IN  /\ pc[h] = "v6"
        /\ IF v # NoRule
           THEN /\ body' = [body EXCEPT ![h] = Body("v6", v)]
                /\ GoTo(h, "write")
           ELSE /\ GoTo(h, "override")
                /\ UNCHANGED body
        /\ UNCHANGED <<req, began, hasECH, reply, respCache, ruleVars,
                       feedVars, warm, timeVars>>

\* injectECHWithHints: a record with ech= stays, and so does any record while
\* no public key is at hand; only then do missing hints clear the answer.
Injected(ech, given, val) ==
    IF ech THEN {Own}
    ELSE {Own, IF given THEN Body("ech", val) ELSE Empty}

\* The addresses of an override rule; none of them may be valid.
RuleBody(r) == IF r \in BadRules THEN Empty ELSE Body("rule", r)

\* An IPv4 rule decides every type but AAAA, for which the IPv6 rules are
\* consulted once more.
MatchOverride(h) ==
    LET r == Rule(req[h].name)
    IN  /\ pc[h] = "override"
        /\ r # NoRule
        /\ CASE req[h].qtype = "A" ->
                  /\ body' = [body EXCEPT ![h] = RuleBody(r)]
                  /\ GoTo(h, "write")
             [] req[h].qtype = "AAAA" ->
                  /\ GoTo(h, "overrideAAAA")
                  /\ UNCHANGED body
             [] req[h].qtype = "HTTPS" ->
                  /\ \E b \in Injected(hasECH[h], TRUE, r) : body' = [body EXCEPT ![h] = b]
                  /\ GoTo(h, "write")
             [] OTHER -> GoTo(h, "write") /\ UNCHANGED body
        /\ UNCHANGED <<req, began, hasECH, reply, respCache, ruleVars,
                       feedVars, warm, timeVars>>

\* Mutant: the else branch, clearing the answer, is missing.
MatchOverrideAAAAOnly(h) ==
    /\ pc[h] = "overrideAAAA"
    /\ RuleV6(req[h].name) # NoRule
    /\ body' = [body EXCEPT ![h] = Body("v6", RuleV6(req[h].name))]
    /\ GoTo(h, "write")
    /\ UNCHANGED <<req, began, hasECH, reply, respCache, ruleVars,
                   feedVars, warm, timeVars>>

MatchOverrideAAAA(h) ==
    LET v == RuleV6(req[h].name)
    IN  /\ pc[h] = "overrideAAAA"
        /\ body' = [body EXCEPT ![h] = IF v # NoRule THEN Body("v6", v) ELSE Empty]
        /\ GoTo(h, "write")
        /\ UNCHANGED <<req, began, hasECH, reply, respCache, ruleVars,
                       feedVars, warm, timeVars>>

NoOverride(h) ==
    /\ pc[h] = "override"
    /\ Rule(req[h].name) = NoRule
    /\ GoTo(h, "force")
    /\ UNCHANGED <<req, began, hasECH, body, reply, respCache, ruleVars,
                   feedVars, warm, timeVars>>

\* Mutant: the older code, which fell back to the domain's own addresses.
ForcedBodiesOwn(qtype, ech, found) ==
    CASE qtype = "A"     -> {IF found THEN Hints ELSE Own}
      [] qtype = "AAAA"  -> {Own}
      [] qtype = "HTTPS" -> Injected(ech, found, NoRule)
      [] OTHER           -> {Own}

\* forceRewriteA, rewriteAAAAEmpty, injectECHForced; found: the hint service
\* returned addresses.
ForcedBodies(qtype, ech, found) ==
    CASE qtype = "A"     -> {IF found THEN Hints ELSE Empty}
      [] qtype = "AAAA"  -> {Empty}
      [] qtype = "HTTPS" -> Injected(ech, found, NoRule)
      [] OTHER           -> {Own}

\* Mutant: the older code, which returned without writing the answer.
ForceSilently(h) ==
    /\ pc[h] = "force"
    /\ forced[req[h].name]
    /\ GoTo(h, "done")
    /\ UNCHANGED <<req, began, hasECH, body, reply, respCache, ruleVars,
                   feedVars, warm, timeVars>>

ForceRewrite(h) ==
    /\ pc[h] = "force"
    /\ forced[req[h].name]
    /\ \E found \in BOOLEAN : \E b \in ForcedBodies(req[h].qtype, hasECH[h], found) :
         body' = [body EXCEPT ![h] = b]
    /\ GoTo(h, "write")
    /\ UNCHANGED <<req, began, hasECH, reply, respCache, ruleVars, feedVars, warm, timeVars>>

NotForced(h) ==
    /\ pc[h] = "force"
    /\ ~ forced[req[h].name]
    /\ GoTo(h, "plain")
    /\ UNCHANGED <<req, began, hasECH, body, reply, respCache, ruleVars,
                   feedVars, warm, timeVars>>

\* injectECH: a record with ech= stays, and so does one of a domain that is not
\* hosted on Cloudflare or while no key is at hand.
InjectECH(ech) == {Own} \cup (IF ech THEN {} ELSE {Body("ech", NoRule)})

\* rewriteAIfCF and the clearing of a hosted domain's AAAA leave the upstream's
\* answer alone unless the domain is hosted there and a hint is at hand.
PlainBodies(qtype, ech) ==
    CASE qtype = "A"     -> {Own, Hints}
      [] qtype = "AAAA"  -> {Own, Empty}
      [] qtype = "HTTPS" -> InjectECH(ech)
      [] OTHER           -> {Own}

Plain(h) ==
    /\ pc[h] = "plain"
    /\ \E b \in PlainBodies(req[h].qtype, hasECH[h]) : body' = [body EXCEPT ![h] = b]
    /\ GoTo(h, "write")
    /\ UNCHANGED <<req, began, hasECH, reply, respCache, ruleVars, feedVars,
                   warm, timeVars>>

\* writeResponse: into the cache, then to the client.
Write(h) ==
    /\ pc[h] = "write"
    /\ respCachePut(Key(req[h]), body[h], "handler")
    /\ Answer(h, "ok", body[h], "handler")
    /\ UNCHANGED <<req, began, hasECH, body, ruleVars, feedVars, warm, timeVars>>

PackFails(h) ==
    /\ pc[h] = "write"
    /\ Refuse(h, "error")
    /\ UNCHANGED <<req, began, hasECH, body, respCache, ruleVars, feedVars,
                   warm, timeVars>>

\* The goroutine ends; its variables are reset so that equal futures are equal.
Finish(h) ==
    /\ pc[h] = "done"
    /\ GoTo(h, "idle")
    /\ req' = [req EXCEPT ![h] = Blank]
    /\ began' = [began EXCEPT ![h] = 0]
    /\ hasECH' = [hasECH EXCEPT ![h] = FALSE]
    /\ body' = [body EXCEPT ![h] = Empty]
    /\ reply' = [reply EXCEPT ![h] = <<>>]
    /\ UNCHANGED <<respCache, ruleVars, feedVars, warm, timeVars>>

-----------------------------------------------------------------------------
(* Those who change the rules.                                             *)

Change == changes < MaxChanges /\ changes' = changes + 1

\* last[n][v] becomes now for the value of a name that is being replaced.
Retire(last, old, new) ==
    [n \in Names |-> IF old[n] = new[n] THEN last[n]
                     ELSE [last[n] EXCEPT ![old[n]] = clock]]

\* SetOverride replaces the whole table and touches nothing else.
SetOverride(new) ==
    /\ override' = new
    /\ lastRule' = Retire(lastRule, override, new)

SetOverrideV6(new) ==
    /\ overrideV6' = new
    /\ lastV6' = Retire(lastV6, overrideV6, new)

\* The application calls SetOverride; nothing clears the cache.
AppSetsOverride ==
    /\ Change
    /\ \E new \in [Names -> Rules \cup {NoRule}] : new # override /\ SetOverride(new)
    /\ UNCHANGED <<handlerVars, respCache, overrideV6, forced, lastV6, lastForced,
                   feedVars, warm, clock>>

\* shouldForceCF changes its verdict: a probe has ended, or a force list came.
Reclassify(n) ==
    LET new == [forced EXCEPT ![n] = ~ @]
    IN  /\ Change
        /\ forced' = new
        /\ lastForced' = Retire(lastForced, forced, new)
        /\ UNCHANGED <<handlerVars, respCache, override, overrideV6, lastRule, lastV6,
                       feedVars, warm, clock>>

\* What a pulled answer does next: a table it does not hold is not applied, a
\* table it holds without one valid rule is applied, and empties the rules.
Then4(c) == IF c.has4 THEN "apply" ELSE IF c.has6 THEN "applyV6" ELSE "idle"
Then6(c) == IF c.has6 THEN "applyV6" ELSE "idle"

\* fetchCloudConfigTXT has an answer; without one it leaves all as it is.
Pull(f) ==
    /\ Change
    /\ refresh[f] = "idle"
    /\ \E has4, has6 \in BOOLEAN, v4 \in [Names -> Rules \cup {NoRule}],
          v6 \in [Names -> RulesV6 \cup {NoRule}] :
         /\ has4 \/ has6
         /\ has4 \/ v4 = NoRules
         /\ has6 \/ v6 = NoRules
         /\ cfg' = [cfg EXCEPT ![f] = [has4 |-> has4, v4 |-> v4, has6 |-> has6, v6 |-> v6]]
    /\ refresh' = [refresh EXCEPT ![f] = Then4(cfg'[f])]
    /\ UNCHANGED <<handlerVars, respCache, ruleVars, warm, clock>>

Apply(f) ==
    /\ refresh[f] = "apply"
    /\ SetOverride(cfg[f].v4)
    /\ refresh' = [refresh EXCEPT ![f] = "clear"]
    /\ UNCHANGED <<handlerVars, respCache, overrideV6, forced, lastV6, lastForced,
                   cfg, warm, timeVars>>

Clear(f) ==
    /\ refresh[f] = "clear"
    /\ respCacheClear
    /\ refresh' = [refresh EXCEPT ![f] = Then6(cfg[f])]
    /\ cfg' = [cfg EXCEPT ![f].has4 = FALSE, ![f].v4 = NoRules]
    /\ UNCHANGED <<handlerVars, ruleVars, warm, timeVars>>

ApplyV6(f) ==
    /\ refresh[f] = "applyV6"
    /\ SetOverrideV6(cfg[f].v6)
    /\ refresh' = [refresh EXCEPT ![f] = "clearV6"]
    /\ UNCHANGED <<handlerVars, respCache, override, forced, lastRule, lastForced,
                   cfg, warm, timeVars>>

ClearV6(f) ==
    /\ refresh[f] = "clearV6"
    /\ respCacheClear
    /\ refresh' = [refresh EXCEPT ![f] = "idle"]
    /\ cfg' = [cfg EXCEPT ![f] = Nothing]
    /\ UNCHANGED <<handlerVars, ruleVars, warm, timeVars>>

-----------------------------------------------------------------------------
(* The warm-up: processResponse over a fixed list, straight into the cache. *)

WarmFetch ==
    /\ Change
    /\ warm.at = "waiting"
    /\ \E q \in Question, ech \in BOOLEAN :
         /\ q.qtype \in Cacheable
         /\ ech => q.qtype = "HTTPS"
         /\ warm' = [at |-> "fetched", q |-> q, hasECH |-> ech, body |-> Own, ts |-> clock]
    /\ UNCHANGED <<handlerVars, respCache, ruleVars, feedVars, clock>>

\* The rules in the order of processResponse: no IPv6 rule of its own, no
\* clearing of a hosted domain's AAAA.
WarmBodies(q, ech) ==
    LET r == Rule(q.name)
        v == RuleV6(q.name)
    IN  IF r # NoRule
        THEN CASE q.qtype = "A"     -> {RuleBody(r)}
               [] q.qtype = "AAAA"  -> {IF v # NoRule THEN Body("v6", v) ELSE Empty}
               [] q.qtype = "HTTPS" -> Injected(ech, TRUE, r)
        ELSE IF forced[q.name]
        THEN UNION {ForcedBodies(q.qtype, ech, found) : found \in BOOLEAN}
        ELSE IF q.qtype = "AAAA" THEN {Own} ELSE PlainBodies(q.qtype, ech)

WarmProcess ==
    /\ warm.at = "fetched"
    /\ \E b \in WarmBodies(warm.q, warm.hasECH) :
         warm' = [warm EXCEPT !.at = "processed", !.body = b]
    /\ UNCHANGED <<handlerVars, respCache, ruleVars, feedVars, timeVars>>

WarmStore ==
    /\ warm.at = "processed"
    /\ respCachePut(Key(warm.q), warm.body, "warm")
    /\ \/ warm' = [warm EXCEPT !.at = "waiting", !.hasECH = FALSE, !.body = Empty,
                               !.q = Blank, !.ts = 0]
       \/ warm' = [warm EXCEPT !.at = "over", !.hasECH = FALSE, !.body = Empty,
                               !.q = Blank, !.ts = 0]
    /\ UNCHANGED <<handlerVars, ruleVars, feedVars, timeVars>>

-----------------------------------------------------------------------------
(* Time.                                                                   *)

\* What can no longer be read is forgotten, so that equal futures are equal
\* states: an entry past its time, a value out of force for longer than Window.
Forget(last, now) ==
    [n \in Names |-> [v \in DOMAIN last[n] |->
        IF now - last[n][v] > Window THEN 0 ELSE last[n][v]]]

\* Nobody outlives MaxService, a response is read in the tick it is written,
\* a refresher runs straight through once it has its answer.
Tick ==
    /\ clock < Start + MaxTicks
    /\ \A h \in Handlers : /\ pc[h] \in Busy => clock < began[h] + MaxService
                           /\ pc[h] # "done"
    /\ \A f \in Refreshers : refresh[f] = "idle"
    /\ warm.at \in {"fetched", "processed"} => clock < warm.ts + MaxService
    /\ clock' = clock + 1
    /\ respCache' = [k \in DOMAIN respCache |->
                       IF Fresh(respCache[k], clock') THEN respCache[k] ELSE NoEntry]
    /\ lastRule' = Forget(lastRule, clock')
    /\ lastV6' = Forget(lastV6, clock')
    /\ lastForced' = Forget(lastForced, clock')
    /\ UNCHANGED <<handlerVars, override, overrideV6, forced, feedVars, warm, changes>>

Handle(h) ==
    \/ CacheHit(h) \/ CacheMiss(h) \/ UpstreamFails(h) \/ UpstreamAnswers(h)
    \/ MatchV6(h) \/ MatchOverride(h) \/ MatchOverrideAAAA(h) \/ NoOverride(h)
    \/ ForceRewrite(h) \/ NotForced(h) \/ Plain(h)
    \/ Write(h) \/ PackFails(h) \/ Finish(h)

Refresh(f) == Pull(f) \/ Apply(f) \/ Clear(f) \/ ApplyV6(f) \/ ClearV6(f)

WarmUp == WarmFetch \/ WarmProcess \/ WarmStore

\* The server with the cloud refresh as its only source of rules.
CloudNext ==
    \/ \E h \in Handlers : Receive(h) \/ BadQuery(h) \/ Handle(h)
    \/ \E f \in Refreshers : Refresh(f)
    \/ Tick

Next == CloudNext \/ AppSetsOverride \/ (\E n \in Names : Reclassify(n)) \/ WarmUp

Spec      == Init /\ [][Next]_vars
CloudSpec == Init /\ [][CloudNext]_vars

\* Goroutines are scheduled and every exchange ends by its timeout.
FairSpec == Spec /\ \A h \in Handlers : WF_vars(Handle(h))

-----------------------------------------------------------------------------
(* Properties.                                                             *)

\* "Every exit must go through writeResponse" (lines 504-505): a handler comes to
\* its end, having written exactly one response.  A branch that returned without
\* writing once broke every forced domain.
QueryAnswered ==
    \A h \in Handlers : pc[h] = "lookup" ~> pc[h] = "done" /\ Len(reply[h]) = 1

\* The values of a rule that may still show: the one in force, and those that
\* were in force within the last Window ticks.
Recent(last, now) == {v \in DOMAIN last : v = now \/ clock - last[v] <= Window}

\* The answers the rules (IPv4 rule r, IPv6 rule v, forced f) give a question.
Explained(qtype, r, v, f) ==
    IF qtype = "AAAA" /\ v # NoRule THEN {Body("v6", v)}
    ELSE IF r # NoRule
    THEN CASE qtype = "A"     -> {RuleBody(r)}
           [] qtype = "AAAA"  -> {Empty}
           [] qtype = "HTTPS" -> {Own, Body("ech", r)}
           [] OTHER           -> {Own}
    ELSE IF f
    THEN CASE qtype = "A"     -> {Hints, Empty}
           [] qtype = "AAAA"  -> {Empty}
           [] qtype = "HTTPS" -> {Own, Empty, Body("ech", NoRule)}
           [] OTHER           -> {Own}
    ELSE CASE qtype = "A"     -> {Own, Hints}
           [] qtype = "AAAA"  -> {Own, Empty}
           [] qtype = "HTTPS" -> {Own, Body("ech", NoRule)}
           [] OTHER           -> {Own}

Served(h, q, by) ==
    pc[h] = "done" /\ req[h].qtype = q /\ reply[h] # <<>>
      /\ reply[h][1].status = "ok" /\ reply[h][1].by = by

\* Whatever the order of queries, rule changes, refreshes and cache writes,
\* an answer follows from rules each of which was in force at most Window ago.
\* The warm-up's AAAA entries are exempt: processResponse has no branch for an
\* IPv6 rule of its own (lines 370-390 of handleDoH), and its entries show it.
ReplyExplained ==
    \A h \in Handlers, qtype \in Asked, by \in {"handler", "warm"} :
      Served(h, qtype, by) /\ (by = "warm" => qtype # "AAAA") =>
        LET n == req[h].name
        IN  \E r \in Recent(lastRule[n], override[n]),
               v \in Recent(lastV6[n], overrideV6[n]),
               f \in Recent(lastForced[n], forced[n]) :
                 reply[h][1].body \in Explained(qtype, r, v, f)

\* Once a domain has been forced for longer than Window, its own addresses no
\* longer reach an A or AAAA answer, through whichever cache entry or branch,
\* the warm-up's entries included.
ForcedClosed ==
    \A h \in Handlers, by \in {"handler", "warm"} :
      LET n == req[h].name
      IN  /\ Served(h, "A", by) \/ Served(h, "AAAA", by)
          /\ FALSE \notin Recent(lastForced[n], forced[n])
          => reply[h][1].body # Own

\* What echdoh.go:47 says of SetOverride, and cloudconfig.go:167 of a refresh:
\* a query that arrives after the change is answered by the rule now in force.
OverrideLive ==
    \A h \in Handlers : Served(h, "A", "handler") =>
        LET n == req[h].name
        IN  (\A r \in DOMAIN lastRule[n] \ {override[n]} : lastRule[n][r] < began[h])
              => \E f \in BOOLEAN :
                   reply[h][1].body \in Explained("A", override[n], NoRule, f)
=============================================================================
