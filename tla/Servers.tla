-------------------------------- MODULE Servers --------------------------------
(***************************************************************************)
(* Starting, stopping and restarting the DNS servers (app.py): the start   *)
(* of the program, the buttons of the system monitor, the settings page    *)
(* with its timer, the console's restart.                                  *)
(*                                                                         *)
(* Whoever restarts, stops or starts the servers holds                     *)
(* runtime_restart_lock; main, which starts them the first time while the  *)
(* web interface answers already, does not.                                *)
(*                                                                         *)
(* An open socket (a pair for UDP and TCP) is its port, an encrypted       *)
(* server its kind.  A process that has ended has no sockets.  The server  *)
(* over QUIC runs in a thread of its own: it may open after whoever starts *)
(* it has given up waiting, and close after whoever stops it has.          *)
(***************************************************************************)
EXTENDS Naturals, FiniteSets

CONSTANTS
    Ports,          \* 1..n, from the configured one on
    Strict,         \* STRICT_DNS_PORT
    Enabled,        \* encrypted servers of the settings; "quic" may start late
    MaxRequests,    \* bound: restarts, stops, starts and saved settings
    MaxFaults       \* bound: ports that cannot be bound, starts that fail

VARIABLES
    dns, enc,       \* dns_servers, encrypted_dns_servers
    ports, kinds,   \* the sockets that are open
    dnsPort,        \* DNS_PORT
    main,           \* how far main is
    job, step,      \* who holds runtime_restart_lock, and where it is
    timers,         \* restarts that are scheduled
    ready, message, \* dns_runtime_ready, runtime_status_message
    late, stray,    \* QUIC servers that timed out; those that opened after it
    closing,        \* QUIC servers that were told to stop and have not yet
    overlap,        \* a job ran while main started the servers
    failed,         \* the last restart found no port
    requests, faults

vars == <<dns, enc, ports, kinds, dnsPort, main, job, step, timers, ready, message, late, stray,
          closing, overlap, failed, requests, faults>>
servers == <<dns, enc, ports, kinds, late, stray, closing>>
status == <<ready, message>>

TypeOK ==
    /\ dns \subseteq Ports /\ ports \subseteq Ports /\ dnsPort \in Ports
    /\ enc \subseteq Enabled /\ kinds \subseteq Enabled
    /\ late \subseteq {"quic"} /\ stray \subseteq {"quic"} /\ closing \subseteq {"quic"}
    /\ main \in {"start", "bound", "encrypted", "ready", "gone"}
    /\ job \in {"none", "restart", "stop", "start"}
    /\ step \in {"none", "close", "closeEncrypted", "load", "bind", "encrypted", "done"}
    /\ timers \in 0..MaxRequests /\ ready \in BOOLEAN
    /\ message \in {"starting", "ready", "stopped", "reboot"}

Init ==
    /\ dns = {} /\ enc = {} /\ ports = {} /\ kinds = {} /\ dnsPort = 1
    /\ main = "start" /\ job = "none" /\ step = "none" /\ timers = 0
    /\ ready = FALSE /\ message = "starting"
    /\ late = {} /\ stray = {} /\ closing = {} /\ overlap = FALSE /\ failed = FALSE
    /\ requests = MaxRequests /\ faults = MaxFaults

Up == main # "gone"
Request == Up /\ requests > 0 /\ requests' = requests - 1
Show(text, open) == message' = text /\ ready' = open

-----------------------------------------------------------------------------
(* start_dns_servers, start_encrypted_dns_servers *)

\* The ports it tries; a fault is another program on the first one.
Tried(taken) == {p \in Ports : IF Strict THEN p = dnsPort ELSE p >= dnsPort} \ (ports \cup taken)
\* The port that is bound is listed with those of before; without one nothing changes.
Bind(before) ==
    \E taken \in {{}, {dnsPort}} :
        /\ taken # {} => faults > 0
        /\ faults' = faults - Cardinality(taken)
        /\ IF Tried(taken) = {}
           THEN UNCHANGED <<dns, ports, dnsPort>>
           ELSE LET p == CHOOSE q \in Tried(taken) : \A r \in Tried(taken) : q <= r
                IN dns' = before \cup {p} /\ ports' = ports \cup {p} /\ dnsPort' = p
Bound == ports' # ports

\* A server that does not start is left out; one over QUIC may only be late.
StartEncrypted(listed) ==
    \E broken \in SUBSET Enabled :
        /\ Cardinality(broken) <= faults /\ faults' = faults - Cardinality(broken)
        /\ LET started == Enabled \ (broken \cup kinds)
           IN enc' = listed \cup started /\ kinds' = kinds \cup started
        /\ late' \in {late, late \cup (broken \cap {"quic"})}

\* Nobody closes a server whose start timed out.
BindLate ==
    /\ Up /\ late # {}
    /\ late' = {}
    /\ stray' = stray \cup (late \ kinds) /\ kinds' = kinds \cup late
    /\ UNCHANGED <<dns, enc, ports, dnsPort, main, job, step, timers, status, closing, overlap, failed,
                   requests, faults>>

-----------------------------------------------------------------------------
(* main *)

MainBinds ==
    /\ main = "start"
    /\ Bind({}) /\ main' = IF Bound THEN "bound" ELSE "gone"
    /\ UNCHANGED <<enc, kinds, job, step, timers, status, late, stray, closing, overlap, failed, requests>>
MainEncrypts ==
    /\ main = "bound" /\ main' = "encrypted"
    /\ StartEncrypted({})
    /\ UNCHANGED <<dns, ports, dnsPort, job, step, timers, status, stray, closing, overlap, failed, requests>>
MainReady ==
    /\ main = "encrypted" /\ main' = "ready" /\ Show("ready", TRUE)
    /\ UNCHANGED <<servers, dnsPort, job, step, timers, overlap, failed, requests, faults>>
\* The console's stop, a signal: the process ends, whatever else is going on.
Shutdown ==
    /\ Up /\ main' = "gone"
    /\ UNCHANGED <<servers, dnsPort, job, step, timers, status, overlap, failed, requests, faults>>

-----------------------------------------------------------------------------
(* What holds runtime_restart_lock *)

Begin(kind, first) ==
    /\ Up /\ job = "none" /\ job' = kind /\ step' = first
    /\ overlap' = (overlap \/ main # "ready")
    /\ UNCHANGED <<servers, dnsPort, main, failed, faults>>
End == job' = "none" /\ step' = "none"

\* /api/system-monitor/dns/restart: the lock is held while the timer is set.
ScheduleRestart ==
    /\ Request /\ job = "none" /\ timers' = timers + 1
    /\ UNCHANGED <<servers, dnsPort, main, job, step, status, overlap, failed, faults>>
\* The settings page takes no lock.
SaveSettings ==
    /\ Request /\ timers' = timers + 1
    /\ dnsPort' = 1 /\ Show("reboot", FALSE)
    /\ UNCHANGED <<servers, main, job, step, overlap, failed, faults>>
RestartBegins ==
    /\ timers > 0 /\ timers' = timers - 1
    /\ Begin("restart", "close") /\ Show("reboot", FALSE) /\ UNCHANGED requests
ConsoleRestart ==
    /\ main = "ready" /\ Request /\ Begin("restart", "close") /\ Show("reboot", FALSE) /\ UNCHANGED timers
StopBegins ==
    /\ dns # {} \/ enc # {}
    /\ Request /\ Begin("stop", "close") /\ UNCHANGED <<timers, status>>
StartBegins == dns = {} /\ Request /\ Begin("start", "load") /\ UNCHANGED <<timers, status>>

Frame == UNCHANGED <<main, timers, stray, overlap, requests>>
Close ==
    /\ Up /\ step = "close" /\ step' = "closeEncrypted"
    /\ ports' = ports \ dns /\ dns' = {}
    /\ Frame /\ UNCHANGED <<enc, kinds, late, closing, dnsPort, job, status, failed, faults>>
AfterClose == IF job = "stop" THEN "done" ELSE "load"
\* A bug: the list is emptied and the servers go on.
CloseEncryptedForgets ==
    /\ Up /\ step = "closeEncrypted" /\ step' = AfterClose
    /\ enc' = {}
    /\ Frame /\ UNCHANGED <<dns, ports, kinds, late, closing, dnsPort, job, status, failed, faults>>
\* The waits for the one over QUIC are bounded; its event loop may be busy with a query.
CloseEncrypted ==
    /\ Up /\ step = "closeEncrypted" /\ step' = AfterClose
    /\ \E slow \in SUBSET (enc \cap {"quic"}) :
            kinds' = kinds \ (enc \ slow) /\ closing' = closing \cup slow
    /\ enc' = {}
    /\ Frame /\ UNCHANGED <<dns, ports, late, dnsPort, job, status, failed, faults>>
\* The loop gets to its stop.
QuicCloses ==
    /\ Up /\ closing # {}
    /\ kinds' = kinds \ closing /\ closing' = {}
    /\ UNCHANGED <<dns, enc, ports, late, stray, dnsPort, main, job, step, timers, status, overlap, failed,
                   requests, faults>>
\* The caches it clears besides are those of DnsCache and FilterReload.
Load ==
    /\ Up /\ step = "load" /\ step' = "bind" /\ dnsPort' = 1
    /\ Frame /\ UNCHANGED <<dns, enc, ports, kinds, late, closing, job, status, failed, faults>>
\* The exception ends the job; a restart leaves the page that says so.
JobBinds ==
    /\ Up /\ step = "bind"
    /\ Bind(IF job = "start" THEN dns ELSE {})
    /\ IF Bound THEN step' = "encrypted" /\ UNCHANGED <<job, failed>>
       ELSE End /\ failed' = (failed \/ job = "restart")
    /\ Frame /\ UNCHANGED <<enc, kinds, late, closing, status>>
JobEncrypts ==
    /\ Up /\ step = "encrypted" /\ step' = "done"
    /\ StartEncrypted(IF job = "start" THEN enc ELSE {})
    /\ Frame /\ UNCHANGED <<dns, ports, closing, dnsPort, job, status, failed>>
Done ==
    /\ Up /\ step = "done" /\ End
    /\ Show(IF job = "stop" THEN "stopped" ELSE "ready", TRUE) /\ failed' = FALSE
    /\ Frame /\ UNCHANGED <<dns, enc, ports, kinds, late, closing, dnsPort, faults>>

Next ==
    \/ MainBinds \/ MainEncrypts \/ MainReady \/ Shutdown \/ BindLate
    \/ ScheduleRestart \/ SaveSettings \/ RestartBegins \/ ConsoleRestart \/ StopBegins \/ StartBegins
    \/ Close \/ CloseEncrypted \/ QuicCloses \/ Load \/ JobBinds \/ JobEncrypts \/ Done

Spec == Init /\ [][Next]_vars

-----------------------------------------------------------------------------
Calm == main = "ready" /\ job = "none"

\* No server answers beside the lists, where nobody would close it, and none is listed
\* that does not answer: there is one DNS server, and the encrypted ones are never listed
\* without it.  Known exceptions: a server over QUIC that opened after its start timed
\* out, and one that outlasts the wait for its end, whose port the next start finds
\* taken.
ListedAreOpen ==
    /\ Cardinality(ports) <= 1
    /\ Calm => ports = dns /\ enc \subseteq kinds /\ kinds \subseteq enc \cup stray \cup closing
    /\ Calm /\ enc # {} => dns # {}

\* "DNS server ready" means that it answers, and the page that asks to wait goes away,
\* unless the restart failed.
StatusIsTrue ==
    Calm => /\ message = "ready" => dns # {} /\ ready
            /\ message = "stopped" => dns = {} /\ enc = {}
            /\ ~ready => timers > 0 \/ failed

\* Known exception: a job that ran while main was starting the servers.
ServersAreKept == TypeOK /\ (Up /\ ~overlap => ListedAreOpen /\ StatusIsTrue)
=============================================================================
