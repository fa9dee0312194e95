------------------------------ MODULE QuicSession ------------------------------
(***************************************************************************)
(* The QUIC session of an upstream (app.py, _QuicSession and               *)
(* _quic_pooled_query), which handler threads share for DoQ and DoH3.      *)
(*                                                                         *)
(* The queries of the handlers are tasks of one event loop: what stands    *)
(* between two awaits is one step.  They take turns with the session by a  *)
(* lock, first come, first served.  Two things happen without that lock:   *)
(* the idle sweep resets the session, and a handler whose time is over     *)
(* cancels its task wherever it is.  A handler without an answer asks the  *)
(* same upstream once more over TLS.                                       *)
(*                                                                         *)
(* Time: the time of an attempt runs from when the task gets the lock, the *)
(* longer time of the handler from when it asks; so the handler cancels    *)
(* only a task that had to wait for the lock.  While the upstream is up it *)
(* answers in time.  A connection is lost when the upstream goes down.     *)
(***************************************************************************)
EXTENDS Naturals, Sequences, FiniteSets, SequencesExt

CONSTANTS
    Callers,        \* handler threads
    Links,          \* names of QUIC connections
    MaxFailures,    \* MAX_QUIC_FAILURES_BEFORE_PENALTY
    Budgets,        \* bound: [queries (of each caller), outages, refusals, idles]
    None

VARIABLES
    session,    \* link (proto and ctx), idle, failures, penalized
    link,       \* what each connection is good for
    suspect,    \* connections on which a query failed
    queue,      \* the holder of session.lock and those who wait for it
    pc,         \* where each query is
    via,        \* the connection it uses
    waited,     \* queries that had to wait for another's attempt
    blame,      \* why a query fails, if it does
    up,         \* is the upstream up?
    budget      \* what the bounds leave

vars == <<session, link, suspect, queue, pc, via, waited, blame, up, budget>>

TypeOK ==
    /\ session \in [link : Links \cup {None}, idle : BOOLEAN, failures : 0..(MaxFailures + 1),
                    penalized : BOOLEAN]
    /\ link \in [Links -> {"live", "lost", "closed"}] /\ suspect \subseteq Links
    /\ queue \in Seq(Callers) /\ IsInjective(queue)
    /\ pc \in [Callers -> {"idle", "queued", "connecting", "asking", "closing", "fallback"}]
    /\ via \in [Callers -> Links \cup {None}] /\ waited \subseteq Callers
    /\ blame \in [Callers -> {"none", "outage", "sweep", "wait", "refused", "found", "penalty"}]
    /\ up \in BOOLEAN

\* last_used is 0 until the first answer: a new session counts as idle.
Init ==
    /\ session = [link |-> None, idle |-> TRUE, failures |-> 0, penalized |-> FALSE]
    /\ link = [l \in Links |-> "closed"] /\ suspect = {}
    /\ queue = <<>> /\ pc = [c \in Callers |-> "idle"] /\ via = [c \in Callers |-> None]
    /\ waited = {} /\ blame = [c \in Callers |-> "none"]
    /\ up = TRUE
    /\ \E b \in Budgets : budget = [queries |-> [c \in Callers |-> b.queries], outages |-> b.outages,
                                    refusals |-> b.refusals, idles |-> b.idles]

Goto(c, place) == pc' = [pc EXCEPT ![c] = place]
Holds(c) == queue # <<>> /\ Head(queue) = c
NewLink == CHOOSE l \in Links \ ({session.link} \cup {via[c] : c \in Callers}) : TRUE
Blame(c, why) == blame' = [blame EXCEPT ![c] = IF @ = "none" THEN why ELSE @]

\* _quic_session_reset
Shut(l) == IF l = None THEN link ELSE [link EXCEPT ![l] = "closed"]
\* record_failure
Failed(s) ==
    LET n == IF s.failures < MaxFailures THEN s.failures + 1 ELSE MaxFailures
    IN [s EXCEPT !.failures = n, !.penalized = (@ \/ n >= MaxFailures)]

-----------------------------------------------------------------------------
(* _quic_pooled_query: the handler *)

Ask(c) ==
    /\ pc[c] = "idle" /\ budget.queries[c] > 0
    /\ ~session.penalized
    /\ queue' = Append(queue, c)
    /\ Goto(c, "queued")
    /\ blame' = [blame EXCEPT ![c] = IF up THEN "none" ELSE "outage"]
    /\ waited' = IF queue = <<>> THEN waited \ {c} ELSE waited \cup {c}
    /\ budget' = [budget EXCEPT !.queries[c] = @ - 1]
    /\ UNCHANGED <<session, link, suspect, via, up>>
\* After too many failures in a row it goes straight to the fallback.
AskPenalized(c) ==
    /\ pc[c] = "idle" /\ budget.queries[c] > 0
    /\ session.penalized
    /\ Goto(c, "fallback")
    /\ blame' = [blame EXCEPT ![c] = "penalty"]
    /\ budget' = [budget EXCEPT !.queries[c] = @ - 1]
    /\ UNCHANGED <<session, link, suspect, queue, via, waited, up>>

Leave(c) == queue' = RemoveAt(queue, CHOOSE i \in DOMAIN queue : queue[i] = c)

\* A bug: a task that is cancelled keeps the lock.
CancelKeepsLock(c) ==
    /\ c \in waited /\ pc[c] \in {"queued", "connecting", "asking", "closing"}
    /\ IF Holds(c) THEN UNCHANGED queue ELSE Leave(c)
    /\ Goto(c, "fallback") /\ via' = [via EXCEPT ![c] = None]
    /\ Blame(c, "wait")
    /\ UNCHANGED <<session, link, suspect, waited, up, budget>>
\* The handler's time is over: the task leaves the lock; the session stays as it
\* is, and no failure is recorded.
Cancel(c) ==
    /\ c \in waited /\ pc[c] \in {"queued", "connecting", "asking", "closing"}
    /\ Leave(c) /\ Goto(c, "fallback") /\ via' = [via EXCEPT ![c] = None]
    /\ Blame(c, "wait")
    /\ UNCHANGED <<session, link, suspect, waited, up, budget>>

\* query_doh_http3_upstream, query_doq_upstream: the same upstream over TLS; if that
\* fails, too, the error of the session is the caller's.
FallBack(c) ==
    /\ pc[c] = "fallback"
    /\ Goto(c, "idle") /\ blame' = [blame EXCEPT ![c] = "none"]
    /\ UNCHANGED <<session, link, suspect, queue, via, waited, up, budget>>

-----------------------------------------------------------------------------
(* _quic_session_query, under the lock, and _quic_session_attempt *)

Reuse(c) ==
    /\ Holds(c) /\ pc[c] = "queued"
    /\ session.link # None /\ ~session.idle
    /\ via' = [via EXCEPT ![c] = session.link]
    /\ Goto(c, "asking")
    /\ UNCHANGED <<session, link, suspect, queue, waited, blame, up, budget>>
StartOver(c) ==
    /\ Holds(c) /\ pc[c] = "queued"
    /\ session.link = None \/ session.idle
    /\ link' = Shut(session.link) /\ session' = [session EXCEPT !.link = None]
    /\ Goto(c, "connecting")
    /\ UNCHANGED <<suspect, queue, via, waited, blame, up, budget>>
\* The time of the last use is left as it was.
Connect(c) ==
    /\ pc[c] = "connecting" /\ up
    /\ session' = [session EXCEPT !.link = NewLink]
    /\ link' = [link EXCEPT ![NewLink] = "live"] /\ suspect' = suspect \ {NewLink}
    /\ via' = [via EXCEPT ![c] = NewLink]
    /\ Goto(c, "asking")
    /\ UNCHANGED <<queue, waited, blame, up, budget>>
\* No address connects: that is not recorded as a failure.
ConnectFails(c) ==
    /\ pc[c] = "connecting" /\ ~up
    /\ Leave(c) /\ Goto(c, "fallback")
    /\ UNCHANGED <<session, link, suspect, via, waited, blame, up, budget>>

Answer(c) ==
    /\ pc[c] = "asking" /\ up /\ link[via[c]] = "live"
    /\ session' = [session EXCEPT !.idle = FALSE, !.failures = 0, !.penalized = FALSE]
    /\ Leave(c) /\ Goto(c, "idle") /\ via' = [via EXCEPT ![c] = None]
    /\ blame' = [blame EXCEPT ![c] = "none"]
    /\ UNCHANGED <<link, suspect, waited, up, budget>>

\* A bug: the connection the query failed on is kept.
GiveUpKeeps(c, place) ==
    /\ session' = Failed(session)
    /\ suspect' = suspect \cup ({via[c]} \ {None})
    /\ via' = [via EXCEPT ![c] = None]
    /\ Goto(c, place)
    /\ UNCHANGED <<link, waited, up>>
\* The session's connection goes, whichever it is now.
GiveUp(c, place) ==
    /\ session' = [Failed(session) EXCEPT !.link = None]
    /\ link' = Shut(session.link)
    /\ suspect' = suspect \cup ({via[c]} \ {None})
    /\ via' = [via EXCEPT ![c] = None]
    /\ Goto(c, place)
    /\ UNCHANGED <<waited, up>>
\* The upstream answers that it does not want to.
Refused(c) ==
    /\ pc[c] = "asking" /\ up /\ link[via[c]] = "live" /\ budget.refusals > 0
    /\ GiveUp(c, "closing")
    /\ Blame(c, "refused")
    /\ budget' = [budget EXCEPT !.refusals = @ - 1]
    /\ UNCHANGED queue
\* The time of the attempt is over: there is no answer over what it uses.
Timeout(c) ==
    /\ \/ pc[c] = "connecting" /\ ~up
       \/ pc[c] = "asking" /\ (~up \/ link[via[c]] # "live")
    /\ IF via[c] \in Links \ suspect /\ link[via[c]] = "lost" THEN Blame(c, "found")
       ELSE UNCHANGED blame
    /\ GiveUp(c, "closing")
    /\ UNCHANGED <<queue, budget>>
\* The old connection is closed; the lock is released.
Closed(c) ==
    /\ pc[c] = "closing"
    /\ Leave(c) /\ Goto(c, "fallback")
    /\ UNCHANGED <<session, link, suspect, via, waited, blame, up, budget>>

Task(c) ==
    \/ Reuse(c) \/ StartOver(c) \/ Connect(c) \/ ConnectFails(c)
    \/ Answer(c) \/ Timeout(c) \/ Closed(c) \/ FallBack(c)

-----------------------------------------------------------------------------
(* _quic_idle_sweep: without the lock *)
Sweep ==
    /\ session.link # None /\ session.idle
    /\ link' = Shut(session.link) /\ session' = [session EXCEPT !.link = None]
    /\ blame' = [c \in Callers |-> IF via[c] = session.link /\ blame[c] = "none"
                                   THEN "sweep" ELSE blame[c]]
    /\ UNCHANGED <<suspect, queue, pc, via, waited, up, budget>>

(* Time and the upstream *)
GetIdle ==
    /\ ~session.idle /\ budget.idles > 0
    /\ session' = [session EXCEPT !.idle = TRUE]
    /\ budget' = [budget EXCEPT !.idles = @ - 1]
    /\ UNCHANGED <<link, suspect, queue, pc, via, waited, blame, up>>
PenaltyEnds ==
    /\ session.penalized
    /\ session' = [session EXCEPT !.penalized = FALSE]
    /\ UNCHANGED <<link, suspect, queue, pc, via, waited, blame, up, budget>>
GoDown ==
    /\ up /\ budget.outages > 0
    /\ up' = FALSE /\ budget' = [budget EXCEPT !.outages = @ - 1]
    /\ link' = [l \in Links |-> IF link[l] = "live" THEN "lost" ELSE link[l]]
    /\ blame' = [c \in Callers |-> IF pc[c] # "idle" /\ blame[c] = "none" THEN "outage" ELSE blame[c]]
    /\ UNCHANGED <<session, suspect, queue, pc, via, waited>>
ComeUp == ~up /\ up' = TRUE
          /\ UNCHANGED <<session, link, suspect, queue, pc, via, waited, blame, budget>>

Next ==
    \/ \E c \in Callers : Ask(c) \/ AskPenalized(c) \/ Cancel(c) \/ Refused(c) \/ Task(c)
    \/ Sweep \/ GetIdle \/ PenaltyEnds \/ GoDown \/ ComeUp

Spec == Init /\ [][Next]_vars

\* The event loop runs every task that can go on, and timers fire.
Fairness == \A c \in Callers : WF_vars(Task(c))
FairSpec == Spec /\ Fairness

-----------------------------------------------------------------------------
(* Properties *)

\* A query has to fall back only for a reason: an outage or a refusal during it,
\* the sweep, a wait for the lock, the penalty - or it is the first that finds
\* out that an outage broke the connection.  Nobody pays for that a second time.
FailuresHaveCause ==
    /\ TypeOK
    /\ \A c \in Callers : pc[c] = "fallback" => blame[c] # "none"

\* Every query ends, and so does everybody's wait for the lock, whoever is
\* cancelled, swept or timed out before.
QueriesEnd == \A c \in Callers : pc[c] # "idle" ~> pc[c] = "idle"
=============================================================================
