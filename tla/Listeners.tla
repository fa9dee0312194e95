------------------------------- MODULE Listeners -------------------------------
(***************************************************************************)
(* The listeners of the DNS service (app.py) and what they hold while they *)
(* answer: a permit of the connection semaphore per TCP or DoT connection, *)
(* a slot of the DNS worker limiter per request, a number of the           *)
(* WorkerDetailTracker behind the worker page, and an entry in the list of *)
(* active requests.                                                        *)
(*                                                                         *)
(* A TCP or DoT connection has a thread that reads one message after the   *)
(* other; a UDP datagram and a DoH request have a thread for themselves;   *)
(* the DoQ requests follow each other in the thread of their event loop.   *)
(* The two connection servers differ in their TLS handshake, which happens *)
(* before a permit is taken: the module has one of them.                   *)
(*                                                                         *)
(* Abstractions: the limiter is what WorkerLimiter shows it to be, a count *)
(* that never passes the burst limit; the clock, times, averages, counts   *)
(* per protocol and the names of the log are left out.                     *)
(***************************************************************************)
EXTENDS Integers, Sequences, FiniteSets, FiniteSetsExt

CONSTANTS
    Connections,       \* the threads of TCP or DoT connections
    Others,            \* the threads of UDP and DoH requests and of the DoQ loop
    MaxActive,         \* the burst limit of the limiter
    ConnectionLimits,  \* max_tcp_connections, as the settings page may set it
    MaxMessages,       \* bound: requests that are admitted
    MaxEvents          \* bound: loads of the network settings and samples of the
                       \* timeline together (the code keeps 900 samples)

Threads == Connections \cup Others

VARIABLES
    semaphores,    \* every connection semaphore made: its limit and its permits left
    server,        \* the semaphore the running server was given
    accepting,     \* the permit its accept loop has taken for a thread to come; 0: none
    holds,         \* the semaphore each connection's permit is of; 0: none
    at,            \* what each thread does
    slots,         \* active_workers of the limiter
    number,        \* _worker_numbers: the numbers of the tracked threads
    finished,      \* the numbers among _recent_workers of the last 30 seconds
    peak,          \* _peak_active
    intervalPeak,  \* _interval_peak_active
    total,         \* _total_requests
    completed,     \* _completed_requests
    reported,      \* _last_completed_snapshot
    timeline,      \* _worker_timeline
    open           \* _active_requests, by thread

connectionVars == <<semaphores, server, accepting, holds>>
statisticVars == <<finished, peak, intervalPeak, total, completed, reported, timeline>>
vars == <<connectionVars, at, slots, number, statisticVars, open>>

Init ==
    /\ \E limit \in ConnectionLimits : semaphores = <<[limit |-> limit, free |-> limit]>>
    /\ server = 1
    /\ accepting = 0
    /\ holds = [t \in Threads |-> 0]
    /\ at = [t \in Threads |-> "none"]
    /\ slots = 0
    /\ number = <<>>
    /\ finished = {}
    /\ peak = 0 /\ intervalPeak = 0
    /\ total = 0 /\ completed = 0 /\ reported = 0
    /\ timeline = <<>>
    /\ open = {}

Events == Len(semaphores) - 1 + Len(timeline)

Goes(t, from, to) ==
    /\ at[t] = from
    /\ at' = [at EXCEPT ![t] = to]

-----------------------------------------------------------------------------
(* The connections.  The server keeps the semaphore it was started with;    *)
(* a load of the settings makes a new one, which the next start takes.      *)

Permit(k, change) == semaphores' = [semaphores EXCEPT ![k].free = @ + change]

\* process_request: without a permit the connection is closed at once.
Accept ==
    /\ accepting = 0
    /\ semaphores[server].free > 0
    /\ Permit(server, -1)
    /\ accepting' = server
    /\ UNCHANGED <<server, holds, at, slots, number, statisticVars, open>>

StartThread(t) ==
    /\ accepting # 0
    /\ Goes(t, "none", "reading")
    /\ holds' = [holds EXCEPT ![t] = accepting]
    /\ accepting' = 0
    /\ UNCHANGED <<semaphores, server, slots, number, statisticVars, open>>

\* The thread cannot be started: the permit is given back.
StartFails ==
    /\ accepting # 0
    /\ Permit(accepting, 1)
    /\ accepting' = 0
    /\ UNCHANGED <<server, holds, at, slots, number, statisticVars, open>>

\* The client closes, is silent for too long or sends nonsense: handle returns and
\* process_request_thread gives the permit back to the server's semaphore.
Close(t) ==
    /\ Goes(t, "reading", "none")
    /\ Permit(holds[t], 1)
    /\ holds' = [holds EXCEPT ![t] = 0]
    /\ UNCHANGED <<server, accepting, slots, number, statisticVars, open>>

\* load_runtime_network_settings: the running server keeps its semaphore.
LoadSettings(limit) ==
    /\ Events < MaxEvents
    /\ semaphores' = Append(semaphores, [limit |-> limit, free |-> limit])
    /\ UNCHANGED <<server, accepting, holds, at, slots, number, statisticVars, open>>

\* The servers restart.  The accept loop has ended; the threads of the old
\* connections, which nobody waits for (block_on_close), go on.
RestartServer ==
    /\ accepting = 0
    /\ server # Len(semaphores)
    /\ server' = Len(semaphores)
    /\ UNCHANGED <<semaphores, accepting, holds, at, slots, number, statisticVars, open>>

-----------------------------------------------------------------------------
(* A request.  A connection reads it, the other threads begin with it.      *)

ReadMessage(t) ==
    /\ t \in Connections
    /\ Goes(t, "reading", "asking")
    /\ UNCHANGED <<connectionVars, slots, number, statisticVars, open>>

Begin(t) ==
    /\ t \in Others
    /\ Goes(t, "none", "asking")
    /\ UNCHANGED <<connectionVars, slots, number, statisticVars, open>>

Admitted(t) ==
    /\ Goes(t, "asking", "admitted")
    /\ slots < MaxActive
    /\ total + Cardinality({u \in Threads : at[u] = "admitted"}) < MaxMessages
    /\ slots' = slots + 1
    /\ UNCHANGED <<connectionVars, number, statisticVars, open>>

\* SERVFAIL or 503.  A connection reads on.
Rejected(t) ==
    /\ Goes(t, "asking", IF t \in Connections THEN "reading" ELSE "none")
    /\ UNCHANGED <<connectionVars, slots, number, statisticVars, open>>

Numbers == {number[t] : t \in DOMAIN number}
LowestFree == Min(1..(Cardinality(Numbers) + 1) \ Numbers)
Beside(a, b) == IF a > b THEN a ELSE b

WorkerStart(t) ==
    /\ Goes(t, "admitted", "started")
    /\ number' = [u \in DOMAIN number \cup {t} |-> IF u = t THEN LowestFree ELSE number[u]]
    /\ total' = total + 1
    /\ LET now == Cardinality(DOMAIN number')
       IN /\ peak' = Beside(peak, now)
          /\ intervalPeak' = Beside(intervalPeak, now)
    /\ UNCHANGED <<connectionVars, slots, finished, completed, reported, timeline, open>>

\* handle_dns_request: the entry is made first and removed in a finally clause,
\* whether the request is answered or raises.
Register(t) ==
    /\ Goes(t, "started", "handling")
    /\ open' = open \cup {t}
    /\ UNCHANGED <<connectionVars, slots, number, statisticVars>>

Unregister(t) ==
    /\ Goes(t, "handling", "handled")
    /\ open' = open \ {t}
    /\ UNCHANGED <<connectionVars, slots, number, statisticVars>>

WorkerEnd(t) ==
    /\ Goes(t, "handled", "ended")
    /\ number' = [u \in DOMAIN number \ {t} |-> number[u]]
    /\ finished' = finished \cup {number[t]}
    /\ completed' = completed + 1
    /\ UNCHANGED <<connectionVars, slots, peak, intervalPeak, total, reported, timeline, open>>

\* An exception ends the thread of a connection, by way of Close.
ReleaseSlot(t) ==
    /\ Goes(t, "ended", IF t \in Connections THEN "reading" ELSE "none")
    /\ slots' = slots - 1
    /\ UNCHANGED <<connectionVars, number, statisticVars, open>>

-----------------------------------------------------------------------------
(* The statistics: the sampler's thread, and 30 seconds that pass.          *)

\* _record_worker_snapshot
Sample ==
    /\ Events < MaxEvents
    /\ timeline' = Append(timeline, [active |-> Cardinality(DOMAIN number),
                                     peak |-> intervalPeak,
                                     completed |-> completed - reported])
    /\ reported' = completed
    /\ intervalPeak' = Cardinality(DOMAIN number)
    /\ UNCHANGED <<connectionVars, at, slots, number, finished, peak, total, completed, open>>

Fade ==
    /\ finished # {}
    /\ finished' = {}
    /\ UNCHANGED <<connectionVars, at, slots, number, peak, intervalPeak, total, completed,
                   reported, timeline, open>>

\* get_snapshot and the history of get_snapshot_at: the rows of the worker page, when
\* the limiter said beforehand that its limit is limit.
Rows(limit) ==
    {[number |-> number[t], status |-> "Processing", thread |-> {t}] : t \in DOMAIN number}
      \cup
    {[number |-> i, status |-> IF i \in finished THEN "Completed" ELSE "Idle", thread |-> {}] :
        i \in (1..Beside(peak, limit)) \ Numbers}

Next ==
    \/ Accept \/ StartFails \/ RestartServer \/ Sample \/ Fade
    \/ \E limit \in ConnectionLimits : LoadSettings(limit)
    \/ \E t \in Connections : StartThread(t) \/ Close(t)
    \/ \E t \in Threads :
        \/ ReadMessage(t) \/ Begin(t) \/ Admitted(t) \/ Rejected(t) \/ WorkerStart(t)
        \/ Register(t) \/ Unregister(t) \/ WorkerEnd(t) \/ ReleaseSlot(t)

-----------------------------------------------------------------------------
\* Every permit is out at a connection or about to be, and goes back to the semaphore
\* it was taken from, also when the settings or the server changed under the connection.
PermitsReturn ==
    \A k \in DOMAIN semaphores :
        /\ semaphores[k].free >= 0
        /\ semaphores[k].limit - semaphores[k].free =
             Cardinality({t \in Connections : holds[t] = k}) + (IF accepting = k THEN 1 ELSE 0)

\* What a thread holds fits together: an active request is a tracked worker, a tracked
\* worker has a slot, and a connection that is served has a permit.
HoldingsNest ==
    /\ open \subseteq DOMAIN number
    /\ Cardinality(DOMAIN number) <= slots
    /\ slots <= MaxActive
    /\ \A t \in Connections : at[t] # "none" => holds[t] # 0

\* Threads that do nothing hold nothing.
AllIsGivenBack ==
    (\A t \in Threads : at[t] \in {"none", "reading", "asking"}) =>
        /\ slots = 0
        /\ number = <<>>
        /\ open = {}
        /\ total = completed

\* The worker page shows each number up to its total once and every worker at work,
\* whichever limit the limiter reported before the page looked.
RowsAreWhole ==
    \A limit \in 1..MaxActive :
        LET last == Beside(peak, limit)
        IN /\ {r.number : r \in Rows(limit)} = 1..last
           /\ Cardinality(Rows(limit)) = last

\* The requests of the samples, added up one after the other, are n.
CompletedIs(n) ==
    \E sum \in [0..Len(timeline) -> 0..n] :
        /\ sum[0] = 0 /\ sum[Len(timeline)] = n
        /\ \A i \in DOMAIN timeline : sum[i] = sum[i - 1] + timeline[i].completed

\* The timeline misses no request and no load: the requests of its samples are those
\* that were completed, and no peak is below the load its second began or ended with.
TimelineIsTrue ==
    /\ CompletedIs(reported)
    /\ intervalPeak >= Cardinality(DOMAIN number)
    /\ \A i \in DOMAIN timeline :
        /\ timeline[i].peak >= timeline[i].active
        /\ i > 1 => timeline[i].peak >= timeline[i - 1].active
        /\ peak >= timeline[i].peak

\* What the listeners hold is given back, and the worker page shows it as it is.
ListenersAreSound ==
    PermitsReturn /\ HoldingsNest /\ AllIsGivenBack /\ RowsAreWhole /\ TimelineIsTrue
=============================================================================
