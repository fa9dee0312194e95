---------------------------- MODULE ForwardingModes ----------------------------
(***************************************************************************)
(* How a query is forwarded (app.py, forward_query and the modes of        *)
(* _forward_query): a slot of upstream_concurrency, then the active        *)
(* upstreams one after the other or several at once, and the failures      *)
(* reported to the manager at most once in five seconds.  The threads of a *)
(* race go on when the query has its answer.  A stale entry that is        *)
(* refreshed (_query_with_fallback) has a last resort behind a limiter of  *)
(* its own.                                                                *)
(*                                                                         *)
(* Latencies are left out: an order by latency is any order.  An upstream  *)
(* that is up answers in time; "broken" is one whose answer raises         *)
(* something other than OSError.                                           *)
(***************************************************************************)
EXTENDS Naturals, Sequences, FiniteSets, SequencesExt

CONSTANTS
    Handlers,
    Upstreams,      \* in the manager's order: a sequence
    Unsupported,    \* those whose resolver_type upstream_supported refuses
    Slots,          \* max_upstream_workers
    FallbackSlots,  \* of _get_fallback_limiter
    RaceCount,      \* upstream_race_count
    Scenes,         \* bound: [modes, kinds, nets, budget]
    None

All == ToSet(Upstreams)

VARIABLES
    net,        \* how each upstream behaves
    active,     \* what um.active_upstreams returns
    semaphores, \* the objects upstream_concurrency was bound to, and their free slots
    fallback,   \* free slots of the fallback limiter
    rr,         \* _upstream_rr_index
    window,     \* upstream_metric_last_write: written within five seconds
    pc, kind, mode,
    bound,      \* the semaphore a handler uses
    order,      \* the upstreams a handler still has to ask, in turn
    asked,      \* those its query considers
    task,       \* what it is doing with each
    first,      \* the upstream whose answer a race keeps
    outcome,
    seen,       \* upstreams with a failure recorded within five seconds
    missed,     \* upstreams a failure of which was dropped without one
    budget      \* what the bounds leave: [swaps, toggles]

vars == <<net, active, semaphores, fallback, rr, window, pc, kind, mode, bound, order, asked,
          task, first, outcome, seen, missed, budget>>
query == <<kind, mode, bound, order, asked, task, first, outcome>>
health == <<window, seen, missed>>

Modes == {"sequential", "parallel_race", "parallel_fastest", "fastest_addr", "strict_order",
          "load_balance"}
Outcomes == {"none", "answered", "failed", "busy", "raised", "nothing"}
TypeOK ==
    /\ net \in [All -> {"up", "refusing", "silent", "broken"}] /\ active \subseteq All
    /\ semaphores \in Seq(0..Slots) /\ fallback \in 0..FallbackSlots
    /\ rr \in 0..Len(Upstreams)
    /\ window \in [All -> SUBSET {"ok", "error"}]
    /\ pc \in [Handlers -> {"idle", "waiting", "choosing", "asking", "racing", "resort", "over"}]
    /\ kind \in [Handlers -> {"query", "refresh"}] /\ mode \in [Handlers -> Modes]
    /\ bound \in [Handlers -> 0..Len(semaphores)]
    /\ order \in [Handlers -> Seq(All)] /\ asked \in [Handlers -> SUBSET All]
    /\ task \in [Handlers -> [All -> {"none", "asking", "answered", "failed", "writing ok",
                                      "writing error", "over", "in error"}]]
    /\ first \in [Handlers -> All \cup {None}] /\ outcome \in [Handlers -> Outcomes]
    /\ seen \subseteq All /\ missed \subseteq All

Init ==
    /\ \E s \in Scenes :
        /\ net \in s.nets /\ budget = s.budget
        /\ kind \in [Handlers -> s.kinds] /\ mode \in [Handlers -> s.modes]
    /\ active = All
    /\ semaphores = <<Slots>> /\ fallback = FallbackSlots /\ rr = 0
    /\ window = [u \in All |-> {}]
    /\ pc = [h \in Handlers |-> "idle"] /\ bound = [h \in Handlers |-> 0]
    /\ order = [h \in Handlers |-> <<>>] /\ asked = [h \in Handlers |-> {}]
    /\ task = [h \in Handlers |-> [u \in All |-> "none"]]
    /\ first = [h \in Handlers |-> None] /\ outcome = [h \in Handlers |-> "none"]
    /\ seen = {} /\ missed = {}

Goto(h, place) == pc' = [pc EXCEPT ![h] = place]
Do(h, u, what) == task' = [task EXCEPT ![h][u] = what]
Current == Len(semaphores)

-----------------------------------------------------------------------------
(* forward_query: a slot *)

\* The semaphore is bound here; acquire and release use the same object.
Bind(h) ==
    /\ pc[h] = "idle"
    /\ Goto(h, "waiting") /\ bound' = [bound EXCEPT ![h] = Current]
    /\ UNCHANGED <<net, active, semaphores, fallback, rr, kind, mode, order, asked, task, first,
                   outcome, health, budget>>
Acquire(h) ==
    /\ pc[h] = "waiting" /\ semaphores[bound[h]] > 0
    /\ semaphores' = [semaphores EXCEPT ![bound[h]] = @ - 1]
    /\ Goto(h, "choosing")
    /\ UNCHANGED <<net, active, fallback, rr, query, health, budget>>

\* The end of a query without a slot, or of one that gave it back.
Ended(h, what) ==
    /\ outcome' = [outcome EXCEPT ![h] = what]
    /\ Goto(h, IF kind[h] = "refresh" /\ what \in {"failed", "busy"} THEN "resort" ELSE "over")
Busy(h) ==
    /\ pc[h] = "waiting" /\ semaphores[bound[h]] = 0
    /\ Ended(h, "busy")
    /\ UNCHANGED <<net, active, semaphores, fallback, rr, kind, mode, bound, order, asked, task,
                   first, health, budget>>

Release(h) == semaphores' = [semaphores EXCEPT ![bound[h]] = @ + 1]
Return(h, what) == Release(h) /\ Ended(h, what)

\* load_runtime_network_settings: a new semaphore, all of it free.
SwapSemaphore ==
    /\ budget.swaps > 0
    /\ semaphores' = Append(semaphores, Slots)
    /\ budget' = [budget EXCEPT !.swaps = @ - 1]
    /\ UNCHANGED <<net, active, fallback, rr, pc, query, health>>
\* The manager pauses an upstream or takes it back.
Toggle(u) ==
    /\ budget.toggles > 0
    /\ active' = IF u \in active THEN active \ {u} ELSE active \cup {u}
    /\ budget' = [budget EXCEPT !.toggles = @ - 1]
    /\ UNCHANGED <<net, semaphores, fallback, rr, pc, query, health>>

-----------------------------------------------------------------------------
(* _forward_query: which upstreams, in which order *)

\* Each sequence here is of the upstreams of a set, every one of them once.
InOrder(S) == {s \in SetToSeqs(S) : \A i, j \in DOMAIN s : i < j =>
                  \E k, l \in DOMAIN Upstreams : k < l /\ Upstreams[k] = s[i] /\ Upstreams[l] = s[j]}
Usable == active \ Unsupported
Rotated(s, i) == SubSeq(s, i + 1, Len(s)) \o SubSeq(s, 1, i)
Races(h) == \/ mode[h] = "parallel_race" /\ Cardinality(Usable) > 1
            \/ mode[h] = "parallel_fastest" /\ RaceCount > 1 /\ Cardinality(Usable) > 1
Racers(h) == IF mode[h] = "parallel_race" THEN {Usable}
             ELSE {S \in SUBSET Usable :
                    Cardinality(S) = IF RaceCount < Cardinality(Usable) THEN RaceCount
                                     ELSE Cardinality(Usable)}
InTurn(h) ==
    CASE mode[h] = "load_balance" -> {Rotated(s, rr % Cardinality(Usable)) : s \in InOrder(Usable)}
      [] mode[h] \in {"fastest_addr", "parallel_fastest"} -> SetToSeqs(Usable)
      [] OTHER -> InOrder(Usable)

\* The list is taken once: an upstream that is paused later is still asked.
Ask(h) ==
    /\ pc[h] = "choosing" /\ Usable # {} /\ ~Races(h)
    /\ \E s \in InTurn(h) : order' = [order EXCEPT ![h] = Tail(s)]
                            /\ Do(h, Head(s), "asking")
    /\ asked' = [asked EXCEPT ![h] = Usable]
    /\ rr' = IF mode[h] = "load_balance" THEN (rr + 1) % Cardinality(Usable) ELSE rr
    /\ Goto(h, "asking")
    /\ UNCHANGED <<net, active, semaphores, fallback, kind, mode, bound, first, outcome, health,
                   budget>>
Race(h) ==
    /\ pc[h] = "choosing" /\ Races(h)
    /\ \E S \in Racers(h) :
        /\ asked' = [asked EXCEPT ![h] = S]
        /\ task' = [task EXCEPT ![h] = [u \in All |-> IF u \in S THEN "asking" ELSE "none"]]
    /\ Goto(h, "racing")
    /\ UNCHANGED <<net, active, semaphores, fallback, rr, kind, mode, bound, order, first,
                   outcome, health, budget>>
\* Nobody to ask: _query_fallback_plain, which answers or raises OSError.  In
\* sequential mode upstreams that are all unsupported are an error at once.
AskNobody(h) ==
    /\ pc[h] = "choosing" /\ Usable = {}
    /\ \E what \in IF mode[h] = "sequential" /\ active # {} THEN {"failed"}
                   ELSE {"answered", "failed"} : Return(h, what)
    /\ UNCHANGED <<net, active, fallback, rr, kind, mode, bound, order, asked, task, first,
                   health, budget>>

-----------------------------------------------------------------------------
(* _query_one_upstream, in the handler or in a thread of a race *)

Answer(h, u) ==
    /\ task[h][u] = "asking" /\ net[u] = "up"
    /\ Do(h, u, "answered")
    /\ UNCHANGED <<net, active, semaphores, fallback, rr, pc, kind, mode, bound, order, asked,
                   first, outcome, health, budget>>
\* In turn, only OSError is caught; in a race, everything; a race with one upstream
\* catches nothing and so reports nothing.
Caught(h, u) == pc[h] # "asking" \/ (net[u] # "broken" /\ mode[h] # "parallel_race")
Fail(h, u) ==
    /\ task[h][u] = "asking" /\ net[u] # "up" /\ Caught(h, u)
    /\ Do(h, u, "failed")
    /\ UNCHANGED <<net, active, semaphores, fallback, rr, pc, kind, mode, bound, order, asked,
                   first, outcome, health, budget>>
Raise(h, u) ==
    /\ task[h][u] = "asking" /\ net[u] # "up" /\ ~Caught(h, u)
    /\ Do(h, u, "over")
    /\ Return(h, IF net[u] = "broken" THEN "raised" ELSE "failed")
    /\ UNCHANGED <<net, active, fallback, rr, kind, mode, bound, order, asked, first, health,
                   budget>>

(* maybe_update_upstream_status *)

Result(h, u) == IF task[h][u] \in {"answered", "writing ok"} THEN "ok" ELSE "error"
ThrottleKey(result) == result
Check(h, u) ==
    /\ task[h][u] \in {"answered", "failed"}
    /\ LET result == Result(h, u) IN
        IF ThrottleKey(result) \in window[u]
        THEN /\ Do(h, u, IF result = "ok" THEN "over" ELSE "in error")
             /\ missed' = IF result = "error" /\ u \notin seen THEN missed \cup {u} ELSE missed
        ELSE /\ Do(h, u, IF result = "ok" THEN "writing ok" ELSE "writing error")
             /\ UNCHANGED missed
    /\ UNCHANGED <<net, active, semaphores, fallback, rr, pc, kind, mode, bound, order, asked,
                   first, outcome, window, seen, budget>>
Write(h, u) ==
    /\ task[h][u] \in {"writing ok", "writing error"}
    /\ LET result == Result(h, u) IN
        /\ window' = [window EXCEPT ![u] = @ \cup {ThrottleKey(result)}]
        /\ seen' = IF result = "error" THEN seen \cup {u} ELSE seen
        /\ Do(h, u, IF result = "ok" THEN "over" ELSE "in error")
    /\ UNCHANGED <<net, active, semaphores, fallback, rr, pc, kind, mode, bound, order, asked,
                   first, outcome, missed, budget>>
FiveSeconds(u) ==
    /\ window[u] # {}
    /\ \E old \in SUBSET window[u] : old # {} /\ window' = [window EXCEPT ![u] = @ \ old]
                                     /\ seen' = IF "error" \in old THEN seen \ {u} ELSE seen
    /\ UNCHANGED <<net, active, semaphores, fallback, rr, pc, query, missed, budget>>

-----------------------------------------------------------------------------
(* The modes that ask in turn *)

Answered(h) == \E u \in asked[h] : task[h][u] = "over" /\ net[u] = "up"
GotAnswer(h) ==
    /\ pc[h] = "asking" /\ Answered(h)
    /\ Return(h, "answered")
    /\ UNCHANGED <<net, active, fallback, rr, kind, mode, bound, order, asked, task, first,
                   health, budget>>
Idle(h) == \A u \in All : task[h][u] \in {"none", "over", "in error"}
AskNext(h) ==
    /\ pc[h] = "asking" /\ Idle(h) /\ ~Answered(h)
    /\ order[h] # <<>>
    /\ Do(h, Head(order[h]), "asking") /\ order' = [order EXCEPT ![h] = Tail(@)]
    /\ UNCHANGED <<net, active, semaphores, fallback, rr, pc, kind, mode, bound, asked, first,
                   outcome, health, budget>>
AllFailed(h) ==
    /\ pc[h] = "asking" /\ Idle(h) /\ ~Answered(h)
    /\ order[h] = <<>>
    /\ Return(h, "failed")
    /\ UNCHANGED <<net, active, fallback, rr, kind, mode, bound, order, asked, task, first,
                   health, budget>>

(* The race *)

\* try_one keeps the first answer, under the lock; what it keeps after the query has
\* ended nobody reads.
KeepFirst(h, u) ==
    /\ pc[h] = "racing" /\ first[h] = None
    /\ task[h][u] = "over"
    /\ first' = [first EXCEPT ![h] = u]
    /\ UNCHANGED <<net, active, semaphores, fallback, rr, pc, kind, mode, bound, order, asked,
                   task, outcome, health, budget>>
RaceWon(h) ==
    /\ pc[h] = "racing" /\ first[h] # None
    /\ Return(h, "answered")
    /\ UNCHANGED <<net, active, fallback, rr, kind, mode, bound, order, asked, task, first,
                   health, budget>>
\* A bug: the first error ends the race.
LostAtOnce(h) == \E u \in asked[h] : task[h][u] = "in error"
\* Every racer is in error, or three and a half seconds are over.
Lost(h) == \A u \in asked[h] : task[h][u] = "in error" \/ (task[h][u] = "asking" /\ net[u] = "silent")
RaceLost(h) ==
    /\ pc[h] = "racing" /\ first[h] = None /\ Lost(h)
    /\ Return(h, "failed")
    /\ UNCHANGED <<net, active, fallback, rr, kind, mode, bound, order, asked, task, first,
                   health, budget>>

-----------------------------------------------------------------------------
(* query_fallback_upstream, for a refresh *)

TakeFallback(h) ==
    /\ pc[h] = "resort" /\ fallback > 0 /\ bound[h] > 0
    /\ fallback' = fallback - 1
    /\ bound' = [bound EXCEPT ![h] = 0]
    /\ UNCHANGED <<net, active, semaphores, rr, pc, kind, mode, order, asked, task, first,
                   outcome, health, budget>>
NoFallback(h) ==
    /\ pc[h] = "resort" /\ fallback = 0 /\ bound[h] > 0
    /\ Goto(h, "over") /\ outcome' = [outcome EXCEPT ![h] = "nothing"]
    /\ UNCHANGED <<net, active, semaphores, fallback, rr, kind, mode, bound, order, asked, task,
                   first, health, budget>>
FallbackEnds(h) ==
    /\ pc[h] = "resort" /\ bound[h] = 0
    /\ fallback' = fallback + 1
    /\ Goto(h, "over")
    /\ \E what \in {"answered", "nothing"} : outcome' = [outcome EXCEPT ![h] = what]
    /\ UNCHANGED <<net, active, semaphores, rr, kind, mode, bound, order, asked, task, first,
                   health, budget>>

Next ==
    \/ \E h \in Handlers :
        \/ Bind(h) \/ Acquire(h) \/ Busy(h) \/ Ask(h) \/ Race(h) \/ AskNobody(h)
        \/ GotAnswer(h) \/ AskNext(h) \/ AllFailed(h) \/ RaceWon(h) \/ RaceLost(h)
        \/ TakeFallback(h) \/ NoFallback(h) \/ FallbackEnds(h)
        \/ \E u \in All : Answer(h, u) \/ Fail(h, u) \/ Raise(h, u) \/ Check(h, u) \/ Write(h, u)
                          \/ KeepFirst(h, u)
    \/ SwapSemaphore \/ \E u \in All : Toggle(u) \/ FiveSeconds(u)

Spec == Init /\ [][Next]_vars

-----------------------------------------------------------------------------
\* A slot is given back to the semaphore it came from, on every way out, also when
\* the settings replace the semaphore meanwhile.
SlotsBalance ==
    /\ \A s \in DOMAIN semaphores :
        semaphores[s] + Cardinality({h \in Handlers : bound[h] = s
                                     /\ pc[h] \in {"choosing", "asking", "racing"}}) = Slots
    /\ fallback + Cardinality({h \in Handlers : pc[h] = "resort" /\ bound[h] = 0}) = FallbackSlots

\* A query that is given a slot fails only if each upstream it considered is down;
\* what it answers comes from one that is up.
FailuresAreTrue ==
    \A h \in Handlers : pc[h] \in {"resort", "over"} /\ asked[h] # {} =>
        /\ outcome[h] = "failed" => \A u \in asked[h] : net[u] \notin {"up"}
        /\ outcome[h] = "raised" => \E u \in asked[h] : net[u] = "broken"
        /\ first[h] # None => net[first[h]] = "up"

\* A failure is dropped by the throttle only if another one of the same upstream was
\* recorded less than five seconds before.
FailuresAreNoticed == missed = {}

ForwardingIsSound == TypeOK /\ SlotsBalance /\ FailuresAreTrue /\ FailuresAreNoticed
=============================================================================
