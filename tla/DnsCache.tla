-------------------------------- MODULE DnsCache --------------------------------
(***************************************************************************)
(* The cache of DNS answers and the requests that use it (app.py).         *)
(*                                                                         *)
(* A request is filtered by its name, looked up in the cache, forwarded,   *)
(* and its answer is checked once more, for the targets of its CNAME       *)
(* records, before it is cached and returned.  The engine it is checked    *)
(* with is the one that is active when the answer arrives.  Answers that   *)
(* are cached are never checked again: a change of the rules purges those  *)
(* with CNAME records, a change of a profile clears the cache, and a       *)
(* change of a blocklist does neither.  Prefetches and refreshes of        *)
(* expired answers store what they get without any check.                  *)
(*                                                                         *)
(* Abstractions.  One shard, as every step touches one.  The answer to a   *)
(* name says only whether the name exists.  Each name of Chained has a     *)
(* CNAME record, and a set of rules is the set of pairs of a profile and a *)
(* name whose target it blocks.  Names that are blocked, rewritten or      *)
(* explicitly allowed by themselves do not get to the cache, or past the   *)
(* check, and are left out.  Whether a name was asked often enough for a   *)
(* prefetch, and whether an upstream or a validation fails, is a choice.   *)
(***************************************************************************)
EXTENDS Integers, SequencesExt

CONSTANTS
    Requests,     \* the handler threads
    Profiles,     \* the profiles of the clients
    Keys,         \* the names that are asked for
    Chained,      \* those of them whose answer has a CNAME record
    Size,         \* the length of the answer to each name
    Capacity,     \* max_bytes_per_shard
    TTL,          \* cache_ttl, and the longest time a negative answer is kept
    MaxStale,     \* serve_stale_max_age
    None,         \* no question
    Modes,        \* the settings the server may run with
    Changes,      \* bounds: how many changes of rules, profiles and blocklists
                  \* there are, and how many names appear or disappear
    MaxRefreshes  \* bound: refreshes of one name that run at once

Rules == SUBSET (Profiles \X Chained)
Settings == [prefetch : BOOLEAN, stale : BOOLEAN, optimistic : BOOLEAN]

ASSUME KeysAssumption == Chained \subseteq Keys /\ Size \in [Keys -> Nat \ {0}]
ASSUME TimesAssumption == TTL \in Nat \ {0} /\ MaxStale \in Nat
ASSUME ModesAssumption == Modes \subseteq Settings
ASSUME NoneAssumption == None \notin [key : Keys, profile : Profiles]
ASSUME BoundsAssumption == /\ {Capacity, MaxRefreshes} \subseteq Nat
                           /\ Changes \subseteq [reloads : Nat, news : Nat]

VARIABLES
    mode,         \* the settings of this server
    exists,       \* does each name exist?
    engine,       \* what the active engine blocks
    cache,        \* dns_cache: the oldest entry first
    bytes,        \* cache_bytes_used
    negative,     \* the time each negative entry has left, 0 without one
    pc,           \* where each request is
    question,     \* the name and the profile of each request
    answer,       \* what its upstream said: does the name exist?
    checker,      \* the engine it took for its check
    prefetching,  \* prefetch_in_progress
    refreshing,   \* how many refreshes of each name run
    reload,       \* what a change of the rules still has to do to the cache
    reloads, news \* changes left

vars == <<mode, exists, engine, cache, bytes, negative, pc, question, answer,
          checker, prefetching, refreshing, reload, reloads, news>>

\* left counts down from TTL to 0, when the entry expires, and on to the end
\* of the time it may be served as stale.
Question == [key : Keys, profile : Profiles]
Entry == [key : Keys, exists : BOOLEAN, left : (-MaxStale - 1)..TTL,
          marked : BOOLEAN]

TypeOK ==
    /\ mode \in Modes
    /\ exists \in [Keys -> BOOLEAN]
    /\ engine \in Rules
    /\ cache \in Seq(Entry)
    /\ bytes \in Nat
    /\ negative \in [Keys -> 0..TTL]
    /\ pc \in [Requests -> {"idle", "negative", "forward", "check"}]
    /\ question \in [Requests -> Question \cup {None}]
    /\ answer \in [Requests -> BOOLEAN]
    /\ checker \in [Requests -> Rules]
    /\ prefetching \subseteq Keys
    /\ refreshing \in [Keys -> 0..MaxRefreshes]
    /\ reload \in {"none", "purge", "clear"}
    /\ reloads \in Nat /\ news \in Nat

Init ==
    /\ mode \in Modes
    /\ exists \in [Keys -> BOOLEAN]
    /\ engine = {}
    /\ cache = <<>> /\ bytes = 0
    /\ negative = [k \in Keys |-> 0]
    /\ pc = [r \in Requests |-> "idle"]
    /\ question = [r \in Requests |-> None]
    /\ answer = [r \in Requests |-> FALSE]
    /\ checker = [r \in Requests |-> {}]
    /\ prefetching = {}
    /\ refreshing = [k \in Keys |-> 0]
    /\ reload = "none"
    /\ \E c \in Changes : reloads = c.reloads /\ news = c.news

-----------------------------------------------------------------------------
(* A shard of the cache *)

At(k) == SelectInSeq(cache, LAMBDA e : e.key = k)      \* 0 if there is none
Cached(k) == At(k) # 0
Without(entries, k) == SelectSeq(entries, LAMBDA e : e.key # k)
Length(entries) == FoldSeq(LAMBDA e, sum : Size[e.key] + sum, 0, entries)

Mark(k, marked) == cache' = [cache EXCEPT ![At(k)].marked = marked]

\* The entry is removed and its bytes are given back.
Evict(k) ==
    /\ cache' = Without(cache, k)
    /\ bytes' = IF Cached(k) THEN bytes - Size[k] ELSE bytes

\* A bug: an entry that is replaced keeps its bytes.
SetCachedKeepsBytes(k, value) ==
    LET rest == Without(cache, k)
        fits(n) == bytes - Length(SubSeq(rest, 1, n)) + Size[k] <= Capacity
        n == CHOOSE m \in 0..Len(rest) :
                /\ fits(m) \/ m = Len(rest)
                /\ \A i \in 0..(m - 1) : ~fits(i)
    IN  /\ cache' = SubSeq(rest, n + 1, Len(rest))
                    \o <<[key |-> k, exists |-> value, left |-> TTL,
                          marked |-> FALSE]>>
        /\ bytes' = bytes - Length(SubSeq(rest, 1, n)) + Size[k]

\* set_cached: the oldest entries go until the new one fits, or all are gone.
SetCached(k, value) ==
    LET rest == Without(cache, k)
        held == IF Cached(k) THEN bytes - Size[k] ELSE bytes
        fits(n) == held - Length(SubSeq(rest, 1, n)) + Size[k] <= Capacity
        n == CHOOSE m \in 0..Len(rest) :
                /\ fits(m) \/ m = Len(rest)
                /\ \A i \in 0..(m - 1) : ~fits(i)
    IN  /\ cache' = SubSeq(rest, n + 1, Len(rest))
                    \o <<[key |-> k, exists |-> value, left |-> TTL,
                          marked |-> FALSE]>>
        /\ bytes' = held - Length(SubSeq(rest, 1, n)) + Size[k]

-----------------------------------------------------------------------------
(* get_cached: the request is answered from the cache, or goes on. *)

Goto(r, place) == pc' = [pc EXCEPT ![r] = place]

\* _maybe_prefetch, for an answer in the last part of its time
Prefetch(k) ==
    /\ mode.prefetch
    /\ cache[At(k)].left = 1
    /\ k \notin prefetching
    /\ prefetching' = prefetching \cup {k}

HitFresh(k) ==
    /\ Cached(k) /\ cache[At(k)].left > 0
    /\ Prefetch(k) \/ UNCHANGED prefetching
    /\ UNCHANGED <<cache, bytes, refreshing>>

\* An expired answer may be served once, while it is refreshed.
MayServeExpired(entry) ==
    /\ ~entry.marked
    /\ IF mode.stale THEN entry.left >= -MaxStale ELSE mode.optimistic

HitExpired(k) ==
    /\ Cached(k) /\ cache[At(k)].left <= 0
    /\ MayServeExpired(cache[At(k)])
    /\ refreshing[k] < MaxRefreshes
    /\ refreshing' = [refreshing EXCEPT ![k] = @ + 1]
    /\ Mark(k, TRUE)
    /\ UNCHANGED <<bytes, prefetching>>

\* The request is answered and over.
Hit(r) ==
    /\ pc[r] = "idle"
    /\ \E k \in Keys : HitFresh(k) \/ HitExpired(k)
    /\ UNCHANGED <<mode, exists, engine, negative, pc, question, answer, checker,
                   reload, reloads, news>>

\* The answer is too old, or a refresh has not brought a new one yet.
MissExpired(k) ==
    /\ Cached(k) /\ cache[At(k)].left <= 0
    /\ ~MayServeExpired(cache[At(k)])
    /\ Evict(k)

NotCached(k) == ~Cached(k) /\ UNCHANGED <<cache, bytes>>

Miss(r) ==
    /\ pc[r] = "idle"
    /\ \E q \in Question :
          /\ MissExpired(q.key) \/ NotCached(q.key)
          /\ question' = [question EXCEPT ![r] = q]
    /\ Goto(r, "negative")
    /\ UNCHANGED <<mode, exists, engine, negative, answer, checker, prefetching,
                   refreshing, reload, reloads, news>>

-----------------------------------------------------------------------------
(* The rest of _handle_dns_request_inner *)

\* The request is answered; what it worked on is forgotten.
Return(r) ==
    /\ Goto(r, "idle")
    /\ question' = [question EXCEPT ![r] = None]
    /\ answer' = [answer EXCEPT ![r] = FALSE]
    /\ checker' = [checker EXCEPT ![r] = {}]

\* get_negative_cached
LookupNegative(r) ==
    /\ pc[r] = "negative"
    /\ IF negative[question[r].key] > 0
       THEN Return(r)
       ELSE Goto(r, "forward") /\ UNCHANGED <<question, answer, checker>>
    /\ UNCHANGED <<mode, exists, engine, cache, bytes, negative, prefetching,
                   refreshing, reload, reloads, news>>

\* The upstream answers, and the request takes the engine for its check.
Forward(r) ==
    /\ pc[r] = "forward"
    /\ answer' = [answer EXCEPT ![r] = exists[question[r].key]]
    /\ checker' = [checker EXCEPT ![r] = engine]
    /\ Goto(r, "check")
    /\ UNCHANGED <<mode, exists, engine, cache, bytes, negative, question,
                   prefetching, refreshing, reload, reloads, news>>

\* No upstream answers, or the answer fails its validation: SERVFAIL.
ForwardFails(r) ==
    /\ pc[r] = "forward"
    /\ Return(r)
    /\ UNCHANGED <<mode, exists, engine, cache, bytes, negative, prefetching,
                   refreshing, reload, reloads, news>>

TargetBlocked(r) ==
    answer[r] /\ <<question[r].profile, question[r].key>> \in checker[r]

BlockTarget(r) ==
    /\ pc[r] = "check"
    /\ TargetBlocked(r)
    /\ Return(r)
    /\ UNCHANGED <<mode, exists, engine, cache, bytes, negative, prefetching,
                   refreshing, reload, reloads, news>>

\* The SOA record of the answer and the settings make the time it is kept.
SetNegativeCached(k) == \E ttl \in 1..TTL : negative' = [negative EXCEPT ![k] = ttl]

\* A bug: the targets are looked at only after the answer was cached.
StoreUnchecked(r) ==
    /\ pc[r] = "check"
    /\ LET k == question[r].key
       IN  IF answer[r]
           THEN SetCached(k, TRUE) /\ UNCHANGED negative
           ELSE SetNegativeCached(k) /\ UNCHANGED <<cache, bytes>>
    /\ Return(r)
    /\ UNCHANGED <<mode, exists, engine, prefetching, refreshing, reload, reloads,
                   news>>

\* set_cached, or set_negative_cached with the time the SOA record allows
Store(r) ==
    /\ pc[r] = "check"
    /\ ~TargetBlocked(r)
    /\ LET k == question[r].key
       IN  IF answer[r]
           THEN SetCached(k, TRUE) /\ UNCHANGED negative
           ELSE SetNegativeCached(k) /\ UNCHANGED <<cache, bytes>>
    /\ Return(r)
    /\ UNCHANGED <<mode, exists, engine, prefetching, refreshing, reload, reloads,
                   news>>

Handle(r) ==
    LookupNegative(r) \/ Forward(r) \/ ForwardFails(r) \/ BlockTarget(r) \/ Store(r)

-----------------------------------------------------------------------------
(* _prefetch_refresh and _refresh_stale_cache_entry *)

\* Both cache whatever the upstream says, also that the name does not exist.
PrefetchEnds(k) ==
    /\ k \in prefetching
    /\ prefetching' = prefetching \ {k}
    /\ SetCached(k, exists[k]) \/ UNCHANGED <<cache, bytes>>
    /\ UNCHANGED <<mode, exists, engine, negative, pc, question, answer, checker,
                   refreshing, reload, reloads, news>>

\* A bug: an entry whose refresh failed gets its whole time again.
RefreshEndsRenewed(k) ==
    /\ refreshing[k] > 0
    /\ refreshing' = [refreshing EXCEPT ![k] = @ - 1]
    /\ \/ SetCached(k, exists[k])
       \/ Cached(k) /\ SetCached(k, cache[At(k)].exists)
       \/ ~Cached(k) /\ UNCHANGED <<cache, bytes>>
    /\ UNCHANGED <<mode, exists, engine, negative, pc, question, answer, checker,
                   prefetching, reload, reloads, news>>

\* An answer, no answer, or an exception, after which it may be tried again.
RefreshEnds(k) ==
    /\ refreshing[k] > 0
    /\ refreshing' = [refreshing EXCEPT ![k] = @ - 1]
    /\ \/ SetCached(k, exists[k])
       \/ UNCHANGED <<cache, bytes>>
       \/ Cached(k) /\ Mark(k, FALSE) /\ UNCHANGED bytes
    /\ UNCHANGED <<mode, exists, engine, negative, pc, question, answer, checker,
                   prefetching, reload, reloads, news>>

-----------------------------------------------------------------------------
(* Changes of the rules: reload_filter_engine, and then the cache *)

\* A rule, a profile or a blocklist is changed and the engine swapped in.
Reload ==
    /\ reload = "none"
    /\ reloads > 0 /\ reloads' = reloads - 1
    /\ engine' \in Rules
    /\ reload' \in {"purge", "clear", "none"}
    /\ UNCHANGED <<mode, exists, cache, bytes, negative, pc, question, answer,
                   checker, prefetching, refreshing, news>>


\* purge_cname_cache_entries: the answers that have a CNAME record
PurgeCname ==
    /\ reload = "purge"
    /\ cache' = SelectSeq(cache, LAMBDA e : ~(e.key \in Chained /\ e.exists))
    /\ bytes' = bytes - Length(SelectSeq(cache, LAMBDA e : e.key \in Chained /\ e.exists))
    /\ reload' = "none"
    /\ UNCHANGED <<mode, exists, engine, negative, pc, question, answer,
                   checker, prefetching, refreshing, reloads, news>>

\* clear_dns_cache, by invalidate_rules_cache
ClearCache ==
    /\ reload = "clear"
    /\ cache' = <<>> /\ bytes' = 0
    /\ negative' = [k \in Keys |-> 0]
    /\ reload' = "none"
    /\ UNCHANGED <<mode, exists, engine, pc, question, answer, checker,
                   prefetching, refreshing, reloads, news>>

-----------------------------------------------------------------------------
(* The world *)

Tick ==
    /\ cache' = [i \in DOMAIN cache |->
                    [cache[i] EXCEPT !.left = IF @ < -MaxStale THEN @ ELSE @ - 1]]
    /\ negative' = [k \in Keys |-> IF negative[k] = 0 THEN 0 ELSE negative[k] - 1]
    /\ <<cache, negative>>' # <<cache, negative>>
    /\ UNCHANGED <<mode, exists, engine, bytes, pc, question, answer, checker,
                   prefetching, refreshing, reload, reloads, news>>

\* A name appears or disappears.
News ==
    /\ news > 0 /\ news' = news - 1
    /\ \E k \in Keys : exists' = [exists EXCEPT ![k] = ~@]
    /\ UNCHANGED <<mode, engine, cache, bytes, negative, pc, question, answer,
                   checker, prefetching, refreshing, reload, reloads>>

Next ==
    \/ \E r \in Requests : Hit(r) \/ Miss(r) \/ Handle(r)
    \/ \E k \in Keys : PrefetchEnds(k) \/ RefreshEnds(k)
    \/ Reload \/ PurgeCname \/ ClearCache \/ Tick \/ News

Spec == Init /\ [][Next]_vars

(* A request, a prefetch and a refresh end, because queries time out; a reload
   goes on to the cache; time passes.  Nobody has to ask. *)
Fairness ==
    /\ \A r \in Requests : WF_vars(Handle(r))
    /\ \A k \in Keys : WF_vars(PrefetchEnds(k)) /\ WF_vars(RefreshEnds(k))
    /\ WF_vars(PurgeCname) /\ WF_vars(ClearCache) /\ WF_vars(Tick)

FairSpec == Spec /\ Fairness

-----------------------------------------------------------------------------
(* Properties *)

\* The bytes of a shard are those of its entries, through replacements,
\* evictions, purges and expired entries, and within its bound unless a single
\* answer is longer than that.
CacheFits ==
    /\ TypeOK
    /\ bytes = Length(cache)
    /\ bytes <= Capacity \/ Len(cache) = 1

FreshEntries == {cache[i] : i \in {j \in DOMAIN cache : cache[j].left > 0}}

\* What a name was answered with is forgotten in the end: once names stop to
\* appear and disappear, no answer in its time says otherwise, also with
\* prefetches, with expired answers served meanwhile, and with answers that
\* were under way.
AnswersCatchUp ==
    <>[](/\ \A e \in FreshEntries : e.exists = exists[e.key]
         /\ \A k \in Keys : negative[k] > 0 => ~exists[k])

\* No answer in its time has a target that is blocked for everybody.  One that
\* is blocked for some profiles stays: the cache serves what the first client got.
Obeyed == \A e \in FreshEntries :
              e.exists => \E p \in Profiles : <<p, e.key>> \notin engine

\* "CNAME targets are only checked against the filter engine before an answer
\* is cached, so those entries must be re-resolved after a rule change": once
\* the rules are not changed any more, no answer in its time has a target that
\* they block for everybody.
RulesReachCache == <>[]Obeyed

\* The same for a server that neither prefetches nor serves expired answers:
\* also after a change of the blocklists, and for answers under way.
RulesReachPlainCache ==
    ~mode.prefetch /\ ~mode.stale /\ ~mode.optimistic => RulesReachCache
=============================================================================
