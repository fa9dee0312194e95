---------------------------- MODULE MCWorkerLimiter ----------------------------
(***************************************************************************)
(* How the program runs, in one run: a behaviour is one of the limiter of  *)
(* the DNS workers, of the start, stop and restart of the DNS servers, of  *)
(* the update of the program, or of what the listeners hold while they     *)
(* answer.                                                                 *)
(***************************************************************************)
EXTENDS WorkerLimiter

CONSTANTS
    Ports, Strict, Enabled, MaxRequests, MaxFailures,
    Items, Updaters, MaxVersion, MaxFaults,
    Connections, Others, MaxActive, ConnectionLimits, MaxMessages, MaxEvents

VARIABLES part,
    dns, enc, ports, kinds, dnsPort, main, job, step, timers, ready, message, lateQuic, stray,
    closing, together, failed, requests, failures,
    remote, files, saved, result, up, place, hash, zip, left, guessed, overlap, faults,
    semaphores, server, accepting, holds, at, slots, number, finished, peak, intervalPeak, total,
    completed, reported, timeline, open

serverVars == <<dns, enc, ports, kinds, dnsPort, main, job, step, timers, ready, message, lateQuic,
                stray, closing, together, failed, requests, failures>>
updateVars == <<remote, files, saved, result, up, place, hash, zip, left, guessed, overlap, faults>>
listenerVars == <<semaphores, server, accepting, holds, at, slots, number, finished, peak,
                  intervalPeak, total, completed, reported, timeline, open>>

SV == INSTANCE Servers WITH
    MaxFaults <- MaxFailures, late <- lateQuic, overlap <- together, faults <- failures
UP == INSTANCE Updater WITH pc <- place
LI == INSTANCE Listeners

ASSUME ServersAssumption == Ports \subseteq Nat /\ 1 \in Ports /\ MaxRequests \in Nat
ASSUME UpdaterAssumption == MaxVersion \in Nat \ {0}
ASSUME ListenersAssumption ==
    /\ IsFiniteSet(Connections) /\ IsFiniteSet(Others) /\ Connections \cap Others = {}
    /\ ConnectionLimits \subseteq Nat /\ MaxActive \in Nat

\* The base changes, the burst limit stays.
SameBurst == {[base |-> 1, max |-> 2], [base |-> 2, max |-> 2]}

PartsInit ==
    /\ part \in {"limiter", "servers", "updater", "listeners"}
    /\ Init
    /\ part = "limiter" \/ (limits = (CHOOSE s \in Settings : TRUE) /\ recent = FALSE)
    /\ SV!Init
    /\ UP!Init /\ (part = "updater" \/ saved = 0)
    /\ LI!Init /\ (part = "listeners" \/ \A k \in DOMAIN semaphores :
                        semaphores[k].limit = CHOOSE n \in ConnectionLimits : TRUE)

PartsNext ==
    /\ UNCHANGED part
    /\ \/ part = "limiter" /\ Next /\ UNCHANGED <<serverVars, updateVars, listenerVars>>
       \/ part = "servers" /\ SV!Next /\ UNCHANGED <<vars, updateVars, listenerVars>>
       \/ part = "updater" /\ UP!Next /\ UNCHANGED <<vars, serverVars, listenerVars>>
       \/ part = "listeners" /\ LI!Next /\ UNCHANGED <<vars, serverVars, updateVars>>

PartsSpec ==
    PartsInit /\ [][PartsNext]_<<part, vars, serverVars, updateVars, listenerVars>> /\ Fairness

\* What the program shows of itself is true, as Servers, Updater and Listeners comment
\* it: the servers it lists and its status, the commit it takes for the installed one,
\* and the workers at work, which hold what the page shows and give it back.
StatusIsHonest ==
    /\ part = "servers" => SV!ServersAreKept
    /\ part = "updater" => UP!UpdatesAreHonest
    /\ part = "listeners" => LI!ListenersAreSound
=============================================================================
