------------------------------ MODULE MCTransport ------------------------------
(* What carries a query to an upstream, in one run: a behaviour is one of the
   pool of TLS connections, of a QUIC session, or of the forwarding modes. *)
EXTENDS Naturals, Sequences, FiniteSets, TLC

CONSTANTS Casts, Conns, Socks, PoolSize, Callers, Links, MaxFailures, Handlers, Slots,
          FallbackSlots, RaceCount, Upstreams, Unsupported, Scenes, Budgets, None

VARIABLES part,
    cast, pool, gen, doomed, closing, counter, conn, pipe, poolUp, poolPc, at, answer, troubled,
    overrun, poolBudget,
    session, link, suspect, queue, quicPc, via, waited, blame, quicUp, quicBudget,
    net, active, semaphores, fallback, rr, window, pc, kind, mode, bound, order, asked,
    task, first, outcome, seen, missed, budget

poolVars == <<cast, pool, gen, doomed, closing, counter, conn, pipe, poolUp, poolPc, at, answer,
              troubled, overrun, poolBudget>>
quicVars == <<session, link, suspect, queue, quicPc, via, waited, blame, quicUp, quicBudget>>
forwardVars == <<net, active, semaphores, fallback, rr, window, pc, kind, mode, bound, order,
                 asked, task, first, outcome, seen, missed, budget>>

-----------------------------------------------------------------------------
\* Two queries with an outage and a rebuild; with the maintenance while connections
\* get idle or old; or with the latter alone.
Cast(keeper, rebuilds, outages, ages) ==
    [queries |-> {"p", "q"}, keeper |-> keeper, rebuilds |-> rebuilds, outages |-> outages,
     ages |-> ages]
SomeCasts == {Cast(0, 1, 1, 0), Cast(1, 0, 1, 1), Cast(0, 0, 0, 2)}
Pool == INSTANCE ConnectionPool WITH
    up <- poolUp, pc <- poolPc, budget <- poolBudget

\* There are names for all objects that can be in use.
ASSUME PoolAssumption ==
    /\ PoolSize \in Nat \ {0} /\ None \notin Conns /\ None \notin Pool!Queries
    /\ IsFiniteSet(Conns) /\ IsFiniteSet(Socks) /\ IsFiniteSet(Pool!Queries)
    /\ Cardinality(Conns) >= 4 * PoolSize + Cardinality(Pool!Queries)
    /\ Cardinality(Socks) > 3 * PoolSize + Cardinality(Pool!Queries)

OneBudget == {[queries |-> 2, outages |-> 1, refusals |-> 1, idles |-> 1]}
Quic == INSTANCE QuicSession WITH
    up <- quicUp, pc <- quicPc, budget <- quicBudget

\* Two upstreams and one of a kind that is not supported.  Queries and refreshes in
\* the modes that ask in turn or race, while the semaphore is replaced; then in the
\* modes that order by latency or in a circle, while upstreams come and go.
ThreeUpstreams == <<"relay", "u", "v">>
Nets(behaviours) == {[relay |-> "silent"] @@ n : n \in [{"u", "v"} -> behaviours]}
SomeScenes == {
    [modes |-> {"sequential", "parallel_race"}, kinds |-> {"query"},
     nets |-> Nets({"up", "refusing", "silent"}), budget |-> [swaps |-> 1, toggles |-> 0]],
    [modes |-> {"strict_order", "parallel_race"}, kinds |-> {"refresh"},
     nets |-> Nets({"refusing", "broken"}), budget |-> [swaps |-> 0, toggles |-> 0]],
    [modes |-> {"parallel_fastest", "fastest_addr", "load_balance"}, kinds |-> {"query"},
     nets |-> Nets({"up", "broken"}), budget |-> [swaps |-> 0, toggles |-> 1]],
    [modes |-> {"sequential", "parallel_race"}, kinds |-> {"query"},
     nets |-> Nets({"refusing"}), budget |-> [swaps |-> 0, toggles |-> 3]] }
Forward == INSTANCE ForwardingModes

\* A connection is left for the next attempt, whatever the others use.
ASSUME LinksAssumption ==
    /\ MaxFailures \in Nat /\ None \notin Links
    /\ IsFiniteSet(Callers) /\ IsFiniteSet(Links) /\ Cardinality(Links) > Cardinality(Callers) + 1
\* The manager's list of upstreams, and what a behaviour may begin with.
ASSUME UpstreamsAssumption ==
    /\ IsFiniteSet(Handlers) /\ Slots \in Nat /\ FallbackSlots \in Nat
    /\ Upstreams \in Seq(Forward!All) /\ None \notin Forward!All
ASSUME ScenesAssumption == \A s \in Scenes :
    /\ s.modes \subseteq Forward!Modes /\ s.kinds \subseteq {"query", "refresh"}
    /\ s.nets \subseteq [Forward!All -> {"up", "refusing", "silent", "broken"}]

-----------------------------------------------------------------------------
NoPool ==
    /\ cast = None /\ pool = None /\ gen = None /\ doomed = None
    /\ closing = None /\ counter = None /\ overrun = None
    /\ conn = None /\ pipe = None /\ poolUp = None /\ poolPc = None /\ at = None
    /\ answer = None /\ troubled = None /\ poolBudget = None
NoForward ==
    /\ net = None /\ active = None /\ semaphores = None /\ fallback = None /\ rr = None
    /\ window = None /\ pc = None /\ kind = None /\ mode = None /\ bound = None
    /\ order = None /\ asked = None /\ task = None /\ first = None /\ outcome = None
    /\ seen = None /\ missed = None /\ budget = None

Init ==
    /\ Quic!Init
    /\ \/ part = "pool" /\ Pool!Init /\ NoForward
       \/ part = "quic" /\ NoPool /\ NoForward
       \/ part = "forward" /\ Forward!Init /\ NoPool

Next ==
    /\ UNCHANGED part
    /\ \/ part = "pool" /\ Pool!Next /\ UNCHANGED <<quicVars, forwardVars>>
       \/ part = "quic" /\ Quic!Next /\ UNCHANGED <<poolVars, forwardVars>>
       \/ part = "forward" /\ Forward!Next /\ UNCHANGED <<poolVars, quicVars>>

Spec == Init /\ [][Next]_<<part, poolVars, quicVars, forwardVars>> /\ Quic!Fairness

\* The properties of the parts, as the modules comment them.
PoolIsSafe == part = "pool" => Pool!SocketsAreNotShared
SteadyUpstreamAnswers == part = "pool" => Pool!SteadyUpstreamAnswers
AnswersAreOwn == part = "pool" => Pool!AnswersAreOwn
FailuresHaveCause == part = "quic" => Quic!FailuresHaveCause
QueriesEnd == Quic!QueriesEnd
ForwardingIsSound == part = "forward" => Forward!ForwardingIsSound
=============================================================================
