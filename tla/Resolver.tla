-------------------------------- MODULE Resolver --------------------------------
(***************************************************************************)
(* The DoH resolver of internal/dns/resolver.go, for one host: its cache   *)
(* of results, the operator's override and endpoints, and the chain that   *)
(* finds an ECH public key, with its file.                                 *)
(*                                                                         *)
(* A result is an object that the cache and any number of callers point    *)
(* to; ensureECH (internal/tlsconn/dialer.go) writes into it without a     *)
(* lock.  Addresses are told apart by whether they are Cloudflare's        *)
(* (AS13335), public keys by their names.  The file holds the key of one   *)
(* host only, and other hosts write it too.                                *)
(***************************************************************************)
EXTENDS Naturals, FiniteSets

CONSTANTS
    Callers,            \* goroutines in DialContext
    Ids,                \* places for result objects
    NoResult,
    Keys,               \* the public keys Cloudflare has had
    Age,                \* Age[k]: how many keys are newer than k
    Builtin,            \* the key in builtinCFECHConfigB64
    NoKey

Kinds == {"cf", "other"}

ASSUME KeyAssumption == Builtin \in Keys /\ NoKey \notin Keys /\ Age \in [Keys -> Nat]
ASSUME IdAssumption == NoResult \notin Ids

VARIABLES
    override,           \* the kind of the host's override, "none" without one
    straddled,          \* history: a lookup was on its way at the last change
    cache,              \* the result cached for the host
    fresh,              \* it has not expired
    current,            \* history: nor has the configuration changed since the
                        \* lookup of it began
    res,                \* the result objects
    file,               \* the key the ECH file holds for the host, NoKey if it
                        \* holds none that has not expired, or another host's
    edgeKey,            \* the key Cloudflare's edge accepts now
    pc,                 \* where each caller is
    mine,               \* the result it holds
    found               \* what its queries have found so far

configVars == <<override, straddled>>
cacheVars == <<cache, fresh, current>>

Key == Keys \cup {NoKey}

Result == [ips : Kinds, ech : Key]
Blank == [ips |-> "other", ech |-> NoKey]
Search == [ips : Kinds, ech : Key, current : BOOLEAN]
Began == [ips |-> "other", ech |-> NoKey, current |-> TRUE]

ResolverTypeOK ==
    /\ override \in Kinds \cup {"none"}
    /\ straddled \in BOOLEAN
    /\ cache \in Ids \cup {NoResult}
    /\ fresh \in BOOLEAN /\ current \in BOOLEAN
    /\ res \in [Ids -> Result]
    /\ file \in Key
    /\ edgeKey \in Keys
    /\ mine \in [Callers -> Ids \cup {NoResult}]
    /\ found \in [Callers -> Search]

ResolverInit ==
    /\ override = "none"
    /\ straddled = FALSE
    /\ cache = NoResult /\ fresh = FALSE /\ current = FALSE
    /\ res = [i \in Ids |-> Blank]
    /\ file \in Key
    /\ edgeKey \in Keys
    /\ pc = [c \in Callers |-> "idle"]
    /\ mine = [c \in Callers |-> NoResult]
    /\ found = [c \in Callers |-> Began]

Goto(c, place) == pc' = [pc EXCEPT ![c] = place]
Hold(c, i) == mine' = [mine EXCEPT ![c] = i]
Find(c, f) == found' = [found EXCEPT ![c] = f]
Live == cache # NoResult /\ fresh

\* Objects that nobody points to any more are blank.
Swept(r, c0, m) ==
    [i \in Ids |-> IF i = c0 \/ \E c \in Callers : m[c] = i THEN r[i] ELSE Blank]

\* The keys a DoH answer may carry: the edge's, or one that lags behind.
Published == {k \in Keys : Age[k] >= Age[edgeKey]}

-----------------------------------------------------------------------------
(* Lookup.                                                                 *)

LookupCached(c) ==
    /\ pc[c] = "idle"
    /\ Live
    /\ Hold(c, cache)
    /\ Goto(c, "ensure")
    /\ UNCHANGED <<configVars, cacheVars, res, file, edgeKey, found>>

\* The read lock is released before the result is stored.
LookupOverride(c) ==
    /\ pc[c] = "idle"
    /\ ~ Live
    /\ override # "none"
    /\ Find(c, [Began EXCEPT !.ips = override])
    /\ Goto(c, "store")
    /\ UNCHANGED <<configVars, cacheVars, res, file, edgeKey, mine>>

LookupMiss(c) ==
    /\ pc[c] = "idle"
    /\ ~ Live
    /\ override = "none"
    /\ Find(c, Began)
    /\ Goto(c, "query")
    /\ UNCHANGED <<configVars, cacheVars, res, file, edgeKey, mine>>

\* The A, AAAA and HTTPS queries, side by side: some endpoint has an address
\* for one of the first two, and a key, no key or an error for the third.
QueryAnswered(c) ==
    /\ pc[c] = "query"
    /\ \E kind \in Kinds, k \in Published \cup {NoKey} :
          Find(c, [found[c] EXCEPT !.ips = kind, !.ech = k])
    /\ Goto(c, "store")
    /\ UNCHANGED <<configVars, cacheVars, res, file, edgeKey, mine>>

\* No address: an old result, however old, or an error.
QueryFails(c) ==
    /\ pc[c] = "query"
    /\ IF cache = NoResult
       THEN Goto(c, "idle") /\ UNCHANGED mine
       ELSE Goto(c, "ensure") /\ Hold(c, cache)
    /\ Find(c, Began)
    /\ UNCHANGED <<configVars, cacheVars, res, file, edgeKey>>

LookupStore(c) ==
    /\ pc[c] = "store"
    /\ \E i \in Ids :
          /\ i # cache /\ \A d \in Callers : mine[d] # i
          /\ Hold(c, i)
          /\ cache' = i
          /\ res' = Swept([res EXCEPT ![i] = [ips |-> found[c].ips, ech |-> found[c].ech]], i, mine')
    /\ fresh' = TRUE
    /\ current' = found[c].current
    /\ Find(c, Began)
    /\ Goto(c, "ensure")
    /\ UNCHANGED <<configVars, file, edgeKey>>

-----------------------------------------------------------------------------
(* FetchECHConfig, called by ensureECH.                                    *)

\* The key is in the file.
FetchFile(c) ==
    /\ pc[c] = "fetch"
    /\ file # NoKey
    /\ Find(c, [found[c] EXCEPT !.ech = file])
    /\ Goto(c, "fill")
    /\ UNCHANGED <<configVars, cacheVars, res, file, edgeKey, mine>>

\* The file has none, or cannot be read.
FetchMiss(c) ==
    /\ pc[c] = "fetch"
    /\ Goto(c, "ask")
    /\ UNCHANGED <<configVars, cacheVars, res, file, edgeKey, mine, found>>

\* Then cloudflare-ech.com or the host itself publishes one; the file is not looked
\* at again.
FetchPublished(c) ==
    /\ pc[c] = "ask"
    /\ \E k \in Published : Find(c, [found[c] EXCEPT !.ech = k])
    /\ Goto(c, "keep")
    /\ UNCHANGED <<configVars, cacheVars, res, file, edgeKey, mine>>

\* Neither is to be had: the built-in key.
FetchBuiltin(c) ==
    /\ pc[c] = "ask"
    /\ Find(c, [found[c] EXCEPT !.ech = Builtin])
    /\ Goto(c, "keep")
    /\ UNCHANGED <<configVars, cacheVars, res, file, edgeKey, mine>>

\* StoreECHCacheFile writes a temporary file and renames it, or fails.
Kept(k) == file' \in {file, k}

FetchKeep(c) ==
    /\ pc[c] = "keep"
    /\ Kept(found[c].ech)
    /\ Goto(c, "fill")
    /\ UNCHANGED <<configVars, cacheVars, res, edgeKey, mine, found>>

-----------------------------------------------------------------------------
(* The operator, time and other hosts.                                     *)

\* Mutant: the cache is left as it is.
ChangeKeepsCache ==
    /\ current' = FALSE
    /\ straddled' = \E c \in Callers : pc[c] \in {"query", "store"}
    /\ found' = [c \in Callers |-> IF pc[c] \in {"query", "store"}
                              THEN [found[c] EXCEPT !.current = FALSE] ELSE found[c]]
    /\ UNCHANGED <<cache, fresh, res, file, edgeKey, pc, mine>>

\* A change of the configuration clears the cache; lookups go on.
Change ==
    /\ cache' = NoResult /\ fresh' = FALSE /\ current' = FALSE
    /\ straddled' = \E c \in Callers : pc[c] \in {"query", "store"}
    /\ res' = Swept(res, NoResult, mine)
    /\ found' = [c \in Callers |-> IF pc[c] \in {"query", "store"}
                              THEN [found[c] EXCEPT !.current = FALSE] ELSE found[c]]
    /\ UNCHANGED <<file, edgeKey, pc, mine>>

\* SetOverrides with a host and addresses, or with nothing: for all hosts.
SetOverrides == override' \in Kinds \cup {"none"} /\ Change

\* SetDoHURLs; ClearCache has the same effect here.
SetDoHURLs == UNCHANGED override /\ Change

ResultExpires ==
    /\ Live
    /\ fresh' = FALSE
    /\ UNCHANGED <<configVars, cache, current, res, file, edgeKey, pc, mine, found>>

\* The file's entry expires, or another host's takes its place.
FileLost ==
    /\ file # NoKey
    /\ file' = NoKey
    /\ UNCHANGED <<configVars, cacheVars, res, edgeKey, pc, mine, found>>

\* Cloudflare rotates its key.
Rotate ==
    /\ edgeKey' \in {k \in Keys : Age[k] < Age[edgeKey]}
    /\ UNCHANGED <<configVars, cacheVars, res, file, pc, mine, found>>

Lookup(c) ==
    \/ LookupCached(c) \/ LookupOverride(c) \/ LookupMiss(c)
    \/ QueryAnswered(c) \/ QueryFails(c) \/ LookupStore(c)

FetchECHConfig(c) ==
    FetchFile(c) \/ FetchMiss(c) \/ FetchPublished(c) \/ FetchBuiltin(c) \/ FetchKeep(c)

Around == SetOverrides \/ SetDoHURLs \/ ResultExpires \/ FileLost \/ Rotate

-----------------------------------------------------------------------------
(* Properties.                                                             *)

\* Unless a lookup was on its way at the last change, what is cached was
\* resolved under the configuration in force (SetOverrides "Clears the DNS
\* cache so the new overrides apply immediately", SetDoHURLs "避免脏结果").
CleanAfterChange == cache # NoResult /\ ~ straddled => current
=============================================================================
