----------------------------- MODULE ConnectionPool -----------------------------
(***************************************************************************)
(* The pools of TLS connections to an upstream: DotConnection,             *)
(* DohConnection and the queries over them (app.py), their maintenance and *)
(* their rebuild (upstream_manager.py).  The two protocols have the same   *)
(* code but for the bytes they exchange, so one pool stands for either.    *)
(*                                                                         *)
(* A query leases a slot of the pool under the pool's lock and uses its    *)
(* connection under the connection's lock.  What is done without either:   *)
(* a query that failed closes its connection and puts a fresh one in the   *)
(* slot, whoever waits for the old one or uses what is in the slot by now; *)
(* a rebuild closes what is still busy after its grace period.             *)
(*                                                                         *)
(* Abstractions: a question is the query that asks it, and an answer names *)
(* the question it belongs to; the addresses of a host are tried as one;   *)
(* 200 requests and ten minutes, the limits of a connection's life, are an *)
(* age it may reach at any time.  Counters for display are left out.       *)
(***************************************************************************)
EXTENDS Naturals, Sequences, FiniteSets, SequencesExt

CONSTANTS
    Casts,      \* bound: who is at work: [queries, keeper,
                \* rebuilds, outages, ages]
    Conns,      \* names of connection objects
    Socks,      \* names of sockets
    PoolSize,   \* DOT_POOL_SIZE, DOH_POOL_SIZE
    None

Queries == UNION {c.queries : c \in Casts}
Gens == 1..2    \* bound: a pool is rebuilt once

VARIABLES
    cast,       \* the scenario of this behaviour
    pool,       \* dot_pools, doh_pools: the lists of connections, by generation
    gen,        \* the list in use
    doomed,     \* the connections a rebuild has yet to close
    closing,    \* it has closed the socket of the first, and not yet forgotten it
    counter,    \* dot_pool_counters, doh_pool_counters
    conn,       \* connection objects
    pipe,       \* sockets: is it open, and what the upstream will answer on it
    up,         \* does the upstream answer?
    pc,         \* where each thread is
    at,         \* what each thread holds: its list, slot, connection and try
    answer,     \* what each query returned: a question, or "error"
    troubled,   \* queries under way during an outage
    overrun,    \* queries whose last connection others closed under their hands
    budget      \* what the bounds leave

pools == <<pool, gen, doomed, closing, counter>>
vars == <<cast, pools, conn, pipe, up, pc, at, answer, troubled, overrun, budget>>

\* age: "young"; "idle" (not used for a minute); "old" (its limits are reached).
NewConn == [sock |-> None, closed |-> FALSE, lock |-> None, age |-> "young"]
NewSock == [open |-> FALSE, used |-> FALSE, due |-> <<>>]
\* Nothing held: try 0.
Nothing == [gen |-> 0, slot |-> 0, conn |-> None, try |-> 0, fresh |-> FALSE]

TypeOK ==
    /\ pool \in [Gens -> Seq(Conns)] /\ gen \in Gens /\ doomed \in Seq(Conns)
    /\ counter \in 0..PoolSize /\ closing \in BOOLEAN
    /\ conn \in [Conns -> [sock : Socks \cup {None}, closed : BOOLEAN,
                           lock : Queries \cup {None}, age : {"young", "idle", "old"}]]
    /\ pipe \in [Socks -> [open : BOOLEAN, used : BOOLEAN, due : Seq(Queries)]]
    /\ up \in BOOLEAN /\ troubled \subseteq Queries /\ overrun \subseteq Queries
    /\ pc \in [Queries -> {"idle", "lock", "ensure", "send", "receive", "reset", "connect",
                           "discard", "drop", "replace", "end", "done"}]
    /\ at \in [Queries -> [gen : Gens \cup {0}, slot : 0..PoolSize,
                           conn : Conns \cup {None}, try : 0..2, fresh : BOOLEAN]]
    /\ answer \in [Queries -> Queries \cup {None, "error"}]

Init ==
    /\ cast \in Casts
    /\ pool = [g \in Gens |-> <<>>] /\ gen = 1 /\ doomed = <<>> /\ closing = FALSE
    /\ counter = 0
    /\ conn = [c \in Conns |-> NewConn] /\ pipe = [s \in Socks |-> NewSock]
    /\ up \in BOOLEAN
    /\ pc = [t \in Queries |-> "idle"] /\ at = [t \in Queries |-> Nothing]
    /\ answer = [q \in Queries |-> None] /\ troubled = {} /\ overrun = {}
    /\ budget = [outages |-> cast.outages, ages |-> cast.ages, keeper |-> cast.keeper,
                 rebuilds |-> cast.rebuilds]

Goto(t, place) == pc' = [pc EXCEPT ![t] = place]
Conn(t) == conn[at[t].conn]
Sock(t) == Conn(t).sock
\* What nothing refers to is free; CPython closes the socket with the object.
UsedConns == (UNION {Range(pool[g]) : g \in {gen} \cup ({at[t].gen : t \in Queries} \ {0})})
             \cup Range(doomed) \cup {at[t].conn : t \in Queries}
FreeConns(n) == CHOOSE list \in [1..n -> Conns \ UsedConns] : IsInjective(list)
FreeConn == FreeConns(1)[1]
FreeSock == CHOOSE s \in Socks : \A c \in UsedConns \ {None} : conn[c].sock # s

-----------------------------------------------------------------------------
(* query_dot_upstream_pooled, query_doh_upstream_pooled *)

\* Under the lock of the pools: the pool is made if need be; the next slot.
Lease(t) ==
    /\ t \in cast.queries /\ pc[t] = "idle" /\ answer[t] = None
    /\ LET new == IF pool[gen] = <<>> THEN FreeConns(PoolSize) ELSE <<>>
           list == IF pool[gen] = <<>> THEN new ELSE pool[gen]
           slot == (counter % PoolSize) + 1
       IN /\ pool' = [pool EXCEPT ![gen] = list]
          /\ conn' = [c \in Conns |-> IF c \in Range(new) THEN NewConn ELSE conn[c]]
          /\ counter' = slot
          /\ at' = [at EXCEPT ![t] = [Nothing EXCEPT !.gen = gen, !.slot = slot, !.conn = list[slot]]]
    /\ troubled' = IF up THEN troubled ELSE troubled \cup {t}
    /\ Goto(t, "lock")
    /\ UNCHANGED <<cast, gen, doomed, closing, pipe, up, answer, overrun, budget>>

-----------------------------------------------------------------------------
(* DotConnection.query, DohConnection.query: all of it under the lock of the
   connection. *)

\* A bug: the lock is not waited for.
LockConnShared(t) ==
    /\ pc[t] = "lock"
    /\ conn' = [conn EXCEPT ![at[t].conn].lock = t]
    /\ at' = [at EXCEPT ![t].try = 1]
    /\ Goto(t, "ensure")
    /\ UNCHANGED <<cast, pools, pipe, up, answer, troubled, overrun, budget>>
LockConn(t) ==
    /\ pc[t] = "lock" /\ Conn(t).lock = None
    /\ conn' = [conn EXCEPT ![at[t].conn].lock = t]
    /\ at' = [at EXCEPT ![t].try = 1]
    /\ Goto(t, "ensure")
    /\ UNCHANGED <<cast, pools, pipe, up, answer, troubled, overrun, budget>>

\* _ensure_connected
Reuse(t) ==
    /\ pc[t] = "ensure"
    /\ Sock(t) # None /\ Conn(t).age # "idle"
    /\ Goto(t, "send")
    /\ UNCHANGED <<cast, pools, conn, pipe, up, at, answer, troubled, overrun, budget>>
NotConnected(t) ==
    /\ pc[t] = "ensure"
    /\ Sock(t) = None \/ Conn(t).age = "idle"
    /\ Goto(t, "reset")
    /\ UNCHANGED <<cast, pools, conn, pipe, up, at, answer, troubled, overrun, budget>>

\* _reset_socket: close it, if it is there, and forget it.
Closed(s) == IF s = None THEN pipe ELSE [pipe EXCEPT ![s].open = FALSE]
Reset(t) ==
    /\ pc[t] = "reset"
    /\ pipe' = Closed(Sock(t))
    /\ conn' = [conn EXCEPT ![at[t].conn].sock = None]
    /\ Goto(t, "connect")
    /\ UNCHANGED <<cast, pools, up, at, answer, troubled, overrun, budget>>

Connect(t) ==
    /\ pc[t] = "connect" /\ up
    /\ conn' = [conn EXCEPT ![at[t].conn].sock = FreeSock, ![at[t].conn].age =
                    IF @ = "idle" THEN "young" ELSE @]
    /\ pipe' = [pipe EXCEPT ![FreeSock] = [NewSock EXCEPT !.open = TRUE]]
    /\ Goto(t, "send")
    /\ UNCHANGED <<cast, pools, up, at, answer, troubled, overrun, budget>>

\* _send_and_receive looks the socket up before every use of it.
Usable(t) == Sock(t) # None /\ pipe[Sock(t)].open
Send(t) ==
    /\ pc[t] = "send" /\ Usable(t)
    /\ pipe' = [pipe EXCEPT ![Sock(t)].due = Append(@, t)]
    /\ Goto(t, "receive")
    /\ UNCHANGED <<cast, pools, conn, up, at, answer, troubled, overrun, budget>>
\* The answer that comes first on this socket is taken for one's own.
Receive(t) ==
    /\ pc[t] = "receive" /\ Usable(t) /\ up
    /\ pipe[Sock(t)].due # <<>>
    /\ answer' = [answer EXCEPT ![t] = Head(pipe[Sock(t)].due)]
    /\ pipe' = [pipe EXCEPT ![Sock(t)].due = Tail(@), ![Sock(t)].used = TRUE]
    /\ conn' = [conn EXCEPT ![at[t].conn].lock = None]
    /\ Goto(t, "end")
    /\ UNCHANGED <<cast, pools, up, at, troubled, overrun, budget>>

\* A step fails: the upstream is down, or the socket was closed or taken away.
\* The first try is followed by another on a new socket.
Failing(t) ==
    \/ pc[t] \in {"send", "receive"} /\ ~Usable(t)
    \/ pc[t] \in {"receive", "connect"} /\ ~up
TryFails(t) ==
    /\ Failing(t) /\ at[t].try = 1
    /\ at' = [at EXCEPT ![t].try = 2]
    /\ Goto(t, "reset")
    /\ UNCHANGED <<cast, pools, conn, pipe, up, answer, troubled, overrun, budget>>

-----------------------------------------------------------------------------
(* The second try failed.  The leased connection is discarded without its lock,
   and one fresh connection is tried; then the error is the caller's. *)

\* A bug: no fresh connection is tried.
QueryFailsAtOnce(t) ==
    /\ Failing(t) /\ at[t].try = 2
    /\ conn' = [conn EXCEPT ![at[t].conn].lock = None]
    /\ Goto(t, "done") /\ answer' = [answer EXCEPT ![t] = "error"] /\ at' = [at EXCEPT ![t] = Nothing]
    /\ UNCHANGED <<cast, pools, pipe, up, troubled, overrun, budget>>
QueryFails(t) ==
    /\ Failing(t) /\ at[t].try = 2
    /\ conn' = [conn EXCEPT ![at[t].conn].lock = None]
    /\ IF at[t].fresh
       THEN Goto(t, "done") /\ answer' = [answer EXCEPT ![t] = "error"] /\ at' = [at EXCEPT ![t] = Nothing]
       ELSE Goto(t, "discard") /\ UNCHANGED <<answer, at>>
    /\ UNCHANGED <<cast, pools, pipe, up, troubled, overrun, budget>>

\* The queries that have c as their fresh connection, their last.
LastOf(c) == {q \in Queries : at[q].conn = c /\ at[q].fresh}
\* discard_connection: close() shuts the socket ...
Discard(t) ==
    /\ pc[t] = "discard"
    /\ pipe' = Closed(Sock(t)) /\ overrun' = overrun \cup LastOf(at[t].conn)
    /\ Goto(t, "drop")
    /\ UNCHANGED <<cast, pools, conn, up, at, answer, troubled, budget>>
\* ... and then forgets whichever socket is there now.
Drop(t) ==
    /\ pc[t] = "drop"
    /\ conn' = [conn EXCEPT ![at[t].conn].sock = None, ![at[t].conn].closed = TRUE]
    /\ overrun' = overrun \cup LastOf(at[t].conn)
    /\ Goto(t, "replace")
    /\ UNCHANGED <<cast, pools, pipe, up, at, answer, troubled, budget>>

\* The slot gets a fresh connection, whatever it holds by now.  A query that has
\* its answer is over.
Replace(t) ==
    /\ pc[t] = "replace"
    /\ pool' = [pool EXCEPT ![at[t].gen][at[t].slot] = FreeConn]
    /\ conn' = [conn EXCEPT ![FreeConn] = NewConn]
    /\ IF answer[t] = None
       THEN /\ at' = [at EXCEPT ![t].conn = FreeConn, ![t].fresh = TRUE, ![t].try = 0]
            /\ Goto(t, "lock")
       ELSE at' = [at EXCEPT ![t] = Nothing] /\ Goto(t, "done")
    /\ UNCHANGED <<cast, gen, doomed, closing, counter, pipe, up, answer, troubled, overrun, budget>>

\* is_reusable
Reusable(c) == ~conn[c].closed /\ conn[c].sock # None /\ conn[c].age = "young"

\* The end of a query with an answer: a leased connection that answered and is not
\* reusable any more is discarded as well.
EndQuery(t) ==
    /\ pc[t] = "end"
    /\ IF at[t].fresh \/ Reusable(at[t].conn)
       THEN Goto(t, "done") /\ at' = [at EXCEPT ![t] = Nothing]
       ELSE Goto(t, "discard") /\ UNCHANGED at
    /\ UNCHANGED <<cast, pools, conn, pipe, up, answer, troubled, overrun, budget>>

Query(t) ==
    \/ Lease(t) \/ LockConn(t) \/ Reuse(t) \/ NotConnected(t) \/ Reset(t) \/ Connect(t)
    \/ Send(t) \/ Receive(t) \/ TryFails(t) \/ QueryFails(t)
    \/ Discard(t) \/ Drop(t) \/ Replace(t) \/ EndQuery(t)

-----------------------------------------------------------------------------
(* _perform_pool_maintenance: under the lock of the pools, connections that
   nobody uses are replaced when they are of no use any more. *)
Expired(c) == /\ conn[c].lock = None
              /\ conn[c].sock # None \/ conn[c].closed
              /\ ~Reusable(c)
Maintain ==
    /\ budget.keeper > 0
    /\ LET slots == {i \in DOMAIN pool[gen] : Expired(pool[gen][i])}
           fresh == FreeConns(Cardinality(slots))
           nth(i) == Cardinality({j \in slots : j <= i})
           old == {pool[gen][i] : i \in slots}
       IN /\ slots # {}
          /\ pool' = [pool EXCEPT ![gen] = [i \in DOMAIN @ |-> IF i \in slots THEN fresh[nth(i)] ELSE @[i]]]
          /\ pipe' = [s \in Socks |-> IF \E c \in old : conn[c].sock = s
                                      THEN [pipe[s] EXCEPT !.open = FALSE] ELSE pipe[s]]
          /\ conn' = [c \in Conns |-> CASE c \in Range(fresh) -> NewConn
                                        [] c \in old -> [conn[c] EXCEPT !.sock = None, !.closed = TRUE]
                                        [] OTHER -> conn[c]]
    /\ budget' = [budget EXCEPT !.keeper = @ - 1]
    /\ UNCHANGED <<cast, gen, doomed, closing, counter, up, pc, at, answer, troubled, overrun>>

\* rebuild_pool detaches the pools: the next lease makes a new one ...
Rebuild ==
    /\ budget.rebuilds > 0 /\ gen + 1 \in Gens /\ pool[gen] # <<>>
    /\ gen' = gen + 1 /\ counter' = 0
    /\ doomed' = pool[gen]
    /\ budget' = [budget EXCEPT !.rebuilds = @ - 1]
    /\ UNCHANGED <<cast, pool, closing, conn, pipe, up, pc, at, answer, troubled, overrun>>
\* ... and closes the old connections one by one, under their locks ...
CloseOld ==
    /\ doomed # <<>> /\ ~closing /\ conn[Head(doomed)].lock = None
    /\ pipe' = Closed(conn[Head(doomed)].sock)
    /\ conn' = [conn EXCEPT ![Head(doomed)].sock = None, ![Head(doomed)].closed = TRUE]
    /\ doomed' = Tail(doomed)
    /\ UNCHANGED <<cast, pool, gen, closing, counter, up, pc, at, answer, troubled, overrun, budget>>
\* ... or, when the grace period is over, without: it shuts the socket and then forgets
\* whichever is there now.
CloseBusy ==
    /\ doomed # <<>> /\ ~closing /\ conn[Head(doomed)].lock # None
    /\ pipe' = Closed(conn[Head(doomed)].sock) /\ closing' = TRUE
    /\ overrun' = overrun \cup LastOf(Head(doomed))
    /\ UNCHANGED <<cast, pool, gen, doomed, counter, conn, up, pc, at, answer, troubled, budget>>
ForgetBusy ==
    /\ doomed # <<>> /\ closing
    /\ conn' = [conn EXCEPT ![Head(doomed)].sock = None, ![Head(doomed)].closed = TRUE]
    /\ doomed' = Tail(doomed) /\ closing' = FALSE
    /\ overrun' = overrun \cup LastOf(Head(doomed))
    /\ UNCHANGED <<cast, pool, gen, counter, pipe, up, pc, at, answer, troubled, budget>>

-----------------------------------------------------------------------------
(* The upstream and time.  While nobody uses a connection it may get idle or
   reach its limits, and the upstream may close it. *)
GoDown ==
    /\ up /\ budget.outages > 0
    /\ up' = FALSE /\ budget' = [budget EXCEPT !.outages = @ - 1]
    /\ troubled' = troubled \cup {q \in Queries : pc[q] \notin {"idle", "done"}}
    /\ UNCHANGED <<cast, pools, conn, pipe, pc, at, answer, overrun>>
ComeUp == ~up /\ up' = TRUE
          /\ UNCHANGED <<cast, pools, conn, pipe, pc, at, answer, troubled, overrun, budget>>
Age(c, age) ==
    /\ budget.ages > 0 /\ conn[c].lock = None /\ conn[c].sock # None /\ conn[c].age = "young"
    /\ conn' = [conn EXCEPT ![c].age = age]
    /\ budget' = [budget EXCEPT !.ages = @ - 1]
    /\ UNCHANGED <<cast, pools, pipe, up, pc, at, answer, troubled, overrun>>
\* A server closes connections it has served and that are quiet.
ServerCloses(s) ==
    /\ budget.ages > 0 /\ pipe[s].open /\ pipe[s].used /\ pipe[s].due = <<>>
    /\ pipe' = [pipe EXCEPT ![s].open = FALSE]
    /\ budget' = [budget EXCEPT !.ages = @ - 1]
    /\ UNCHANGED <<cast, pools, conn, up, pc, at, answer, troubled, overrun>>

Next ==
    \/ \E t \in Queries : Query(t)
    \/ Maintain \/ Rebuild \/ CloseOld \/ CloseBusy \/ ForgetBusy
    \/ GoDown \/ ComeUp \/ (\E s \in Socks : ServerCloses(s))
    \/ \E c \in Conns : \E age \in {"idle", "old"} : Age(c, age)

Spec == Init /\ [][Next]_vars

-----------------------------------------------------------------------------
(* Properties *)

\* "a socket is never shared by two in-flight queries" (app.py:3443), while
\* connections are discarded, replaced and closed under the hands of those that
\* use them.
SocketsAreNotShared ==
    /\ TypeOK
    /\ \A q, r \in Queries : q # r /\ pc[q] = "receive" /\ pc[r] = "receive" /\ Sock(q) # None
                               => Sock(q) # Sock(r)

\* What others discard, replace, maintain or rebuild costs no query its answer: the
\* second try and the fresh connection make up for it as long as the upstream is up.
\* Known exception: the fresh connection is the last.  Another query may discard it, or a
\* rebuild close it when its grace is over; both close the socket and then forget whichever
\* is there, that of the second try.
SteadyUpstreamAnswers ==
    \A q \in Queries : answer[q] = "error" => q \in troubled \cup overrun

\* A query that is answered gets the answer to its own question: the comment at
\* app.py:3453 names "responses can be read by the wrong query" as what the lock
\* is held for.
AnswersAreOwn == \A q \in Queries : answer[q] \in {None, "error", q}
=============================================================================
