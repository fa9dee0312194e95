------------------------------ MODULE FilterEngine ------------------------------
(***************************************************************************)
(* The filter engine at work (dns_engine.py, decide of app.py): request    *)
(* threads ask the engine that is active, and share its negative cache,    *)
(* an OrderedDict in the order of use that no lock guards.  A reload puts  *)
(* a new engine, with a cache of its own, in the place of the old one,     *)
(* which the requests that hold it go on using.                            *)
(*                                                                         *)
(* An engine does not change once it is active, so that a generation of    *)
(* the rules stands for it.  A query is the input of decide: a normalised  *)
(* name, the profile of the client, and whether its queries are filtered.  *)
(***************************************************************************)
EXTENDS FilterRules, FiniteSets

CONSTANTS
    Threads,
    Scenarios,     \* the rules of each generation, who asks for what, how often
    CacheMax,      \* _negative_cache_max
    MaxQueries     \* bound: queries of a thread

ASSUME ScenariosAssumption ==
    \A s \in Scenarios : /\ s.history \in Seq(Config) /\ s.history # <<>>
                         /\ s.workers \subseteq Threads
                         /\ s.queries \subseteq Query /\ s.queries # {}
                         /\ s.asks \in 0..MaxQueries
ASSUME CacheMaxAssumption == CacheMax \in Nat \ {0}
ASSUME MaxQueriesAssumption == MaxQueries \in Nat
ASSUME ThreadsAssumption == IsFiniteSet(Threads)

VARIABLES
    scenario,      \* one of Scenarios; it never changes
    active,        \* the generation of _active_engine
    negative,      \* _negative_cache of each generation: keys, least recent first
    pc,            \* where each thread is
    query,         \* what it asks
    held,          \* the generation of the engine it holds
    result,        \* the reason of the result, or "error"
    left,          \* queries left to each thread
    lost           \* history: entries of each generation whose threads failed
                   \* before they made room for them

vars == <<scenario, active, negative, pc, query, held, result, left,
          lost>>

History == scenario.history
Generations == DOMAIN History
EngineOf(g) == Build(History[g])
Key(q) == <<q.name, q.profile>>
Cached(g, key) == key \in ToSet(negative[g])

Places == {"idle", "touch", "decide", "put", "touchNew", "full", "trim"}
Reasons == ToSet(Priority)

\* The cache is a dictionary: no key is in it twice.
TypeOK ==
    /\ scenario \in Scenarios
    /\ active \in Generations
    /\ negative \in [Generations -> Seq(Names \X (Profiles \cup {NoProfile}))]
    /\ \A g \in Generations : IsInjective(negative[g])
    /\ pc \in [Threads -> Places]
    /\ query \in [Threads -> Query]
    /\ held \in [Threads -> Generations]
    /\ result \in [Threads -> Reasons \cup {"", "error"}]
    /\ left \in [Threads -> 0..MaxQueries]
    /\ lost \in [Generations -> Nat]

Init ==
    /\ scenario \in Scenarios
    /\ active = 1
    /\ negative = [g \in Generations |-> <<>>]
    /\ pc = [t \in Threads |-> "idle"]
    /\ query = [t \in Threads |-> CHOOSE q \in scenario.queries : TRUE]
    /\ held = [t \in Threads |-> 1]
    /\ result = [t \in Threads |-> ""]
    /\ left = [t \in Threads |-> IF t \in scenario.workers THEN scenario.asks ELSE 0]
    /\ lost = [g \in Generations |-> 0]

Goto(t, place) == pc' = [pc EXCEPT ![t] = place]
Return(t, reason) ==
    Goto(t, "idle") /\ result' = [result EXCEPT ![t] = reason]

-----------------------------------------------------------------------------
(* check *)

\* get_filter_engine, and the look into the negative cache
Ask(t, q) ==
    /\ pc[t] = "idle" /\ left[t] > 0
    /\ left' = [left EXCEPT ![t] = @ - 1]
    /\ query' = [query EXCEPT ![t] = q]
    /\ held' = [held EXCEPT ![t] = active]
    /\ result' = [result EXCEPT ![t] = ""]
    /\ Goto(t, IF q.filtering /\ Cached(active, Key(q)) THEN "touch" ELSE "decide")
    /\ UNCHANGED <<scenario, active, negative, lost>>

Place(g, key) == CHOOSE i \in DOMAIN negative[g] : negative[g][i] = key
ToEnd(g, key) == [negative EXCEPT ![g] = Append(RemoveAt(@, Place(g, key)), key)]

\* move_to_end after the look: another thread may have evicted the key.
Touch(t) ==
    LET key == Key(query[t]) IN
    /\ pc[t] = "touch"
    /\ IF Cached(held[t], key)
       THEN negative' = ToEnd(held[t], key) /\ Return(t, "no_match")
       ELSE Return(t, "error") /\ UNCHANGED negative
    /\ UNCHANGED <<scenario, active, query, held, left, lost>>

\* The steps that only read the engine, which does not change, are one.
Decide(t) ==
    LET reason == Check(EngineOf(held[t]), query[t]) IN
    /\ pc[t] = "decide"
    /\ IF reason = "no_match" THEN Goto(t, "put") /\ UNCHANGED result
                              ELSE Return(t, reason)
    /\ UNCHANGED <<scenario, active, negative, query, held, left, lost>>


\* A key that is there keeps its place.
Put(t) ==
    LET key == Key(query[t]) IN
    /\ pc[t] = "put"
    /\ negative' = [negative EXCEPT ![held[t]] = IF key \in ToSet(@) THEN @
                                                 ELSE Append(@, key)]
    /\ Goto(t, "touchNew")
    /\ UNCHANGED <<scenario, active, query, held, result, left, lost>>

TouchNew(t) ==
    LET key == Key(query[t]) IN
    /\ pc[t] = "touchNew"
    /\ IF Cached(held[t], key)
       THEN /\ negative' = ToEnd(held[t], key) /\ Goto(t, "full")
            /\ UNCHANGED <<result, lost>>
       ELSE /\ Return(t, "error") /\ lost' = [lost EXCEPT ![held[t]] = @ + 1]
            /\ UNCHANGED negative
    /\ UNCHANGED <<scenario, active, query, held, left>>

\* A bug: room is made only when there are two too many.
FullTooLate(t) ==
    /\ pc[t] = "full"
    /\ IF Len(negative[held[t]]) > CacheMax + 1
       THEN Goto(t, "trim") /\ UNCHANGED result
       ELSE Return(t, "no_match")
    /\ UNCHANGED <<scenario, active, negative, query, held, left, lost>>

Full(t) ==
    /\ pc[t] = "full"
    /\ IF Len(negative[held[t]]) > CacheMax
       THEN Goto(t, "trim") /\ UNCHANGED result
       ELSE Return(t, "no_match")
    /\ UNCHANGED <<scenario, active, negative, query, held, left, lost>>

\* popitem; the length may be another one by now.
Trim(t) ==
    LET cache == negative[held[t]] IN
    /\ pc[t] = "trim"
    /\ IF cache # <<>>
       THEN /\ negative' = [negative EXCEPT ![held[t]] = Tail(@)]
            /\ Return(t, "no_match")
       ELSE Return(t, "error") /\ UNCHANGED negative
    /\ UNCHANGED <<scenario, active, query, held, left, lost>>

-----------------------------------------------------------------------------

\* reload_filter_engine
Reload ==
    /\ active < Len(History)
    /\ active' = active + 1
    /\ UNCHANGED <<scenario, negative, pc, query, held, result, left, lost>>

Step(t) == Touch(t) \/ Decide(t) \/ Put(t) \/ TouchNew(t) \/ Full(t) \/ Trim(t)

Next ==
    \/ \E t \in Threads : \/ \E q \in scenario.queries : Ask(t, q)
                          \/ Step(t)
    \/ Reload

Spec == Init /\ [][Next]_vars

-----------------------------------------------------------------------------

Answered(t) == pc[t] = "idle" /\ result[t] \notin {"", "error"}

\* Every query gets the answer the documented priority of the rules gives for
\* the rules of the engine it began with - whatever the cache remembers from
\* other names, profiles and generations, and whatever threads do to it
\* meanwhile - unless the rules are of those the code treats differently.
AnswersKeepPromises ==
    \A t \in Threads :
        Answered(t) => \/ result[t] = Promised(History[held[t]], query[t])
                       \/ Deviates(History[held[t]], query[t])

\* The page that explains a decision, which looks at no cache, shows the reason
\* for which the query was really answered, as long as the engine is the same.
ExplainAgrees ==
    \A t \in Threads :
        Answered(t) => Explain(EngineOf(held[t]), query[t]) = result[t]

\* The cache is too big by at most the entries whose threads did not make room
\* yet, or failed before they could.
CacheBounded == TypeOK /\
    \A g \in Generations :
        Len(negative[g]) <=
            CacheMax + lost[g] + Cardinality({t \in Threads :
                held[t] = g /\ pc[t] \in {"touchNew", "full", "trim"}})
=============================================================================
