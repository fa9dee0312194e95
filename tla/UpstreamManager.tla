---------------------------- MODULE UpstreamManager ----------------------------
(***************************************************************************)
(* One upstream of upstream_manager.py under the threads that share it.    *)
(*                                                                         *)
(* The record lives twice: in the file data/upstreams/<id>.json and in the *)
(* dictionary _cache.  No operation on it is atomic:                       *)
(*   - update_health, maybe_update_latency, set_health_paused and update   *)
(*     load a private copy from the FILE, change it, save it, and make it  *)
(*     the cached record;                                                  *)
(*   - begin_probe, finish_probe, run_recovery_probe and reset-health get  *)
(*     the CACHED record: get() copies the outer dictionary only, so they  *)
(*     change the "health" object the cache and every other such handle    *)
(*     still refer to, before they save it.                                *)
(* The model therefore has a heap of health objects, and the cache and     *)
(* each thread refer to objects of it.                                     *)
(*                                                                         *)
(* Every upstream has its own file, cache entry and probe lock, and no     *)
(* operation touches two of them, so one upstream is modelled.             *)
(*                                                                         *)
(* All writers of the record share one temporary file.  Opening it makes   *)
(* it empty; what is written goes to the file that was opened, and that    *)
(* may be the real one by then, for another writer's os.replace moves the  *)
(* file and not the name (POSIX).  Of two writers of one file the second   *)
(* overwrites the first from the start, and leaves a tail if it has less   *)
(* to write.  A file that is empty or has such a tail cannot be loaded.    *)
(*                                                                         *)
(* Abstractions: a record is smaller than the buffer and so written in one *)
(* step, when the file is closed; a change of an object is one step.  The  *)
(* five-second throttle of maybe_update_upstream_status is a choice to     *)
(* report or not.                                                          *)
(***************************************************************************)
EXTENDS UpstreamHealth, FiniteSets

CONSTANTS
    Forwarders,   \* threads that answer DNS queries through the upstream
    Checkers,     \* the health-check worker of app.py
    Probers,      \* the health-recovery worker, and probe-all requests
    Admins,       \* requests of the web interface
    Casts,        \* the sets of threads that may be at work together
    Obj,          \* names for health objects
    None,         \* no record, no object, no thread
    Empty,        \* the content of a file that was opened for writing
    Torn,         \* a content that is no record: one with the tail of another
    Streaks,      \* failures in a row the process may find when it starts
    MaxFaults,    \* bound: queries that fail, after which the network is good
    MaxAdmin,     \* bound: operations the web interface performs
    MaxRestart    \* bound: crashes of the process

Threads == Forwarders \cup Checkers \cup Probers \cup Admins

ASSUME ThreadsAssumption ==
    /\ Forwarders \cap Checkers = {}
    /\ (Forwarders \cup Checkers) \cap Probers = {}
    /\ (Forwarders \cup Checkers \cup Probers) \cap Admins = {}
ASSUME CastsAssumption == Casts \subseteq SUBSET Threads
ASSUME StreaksAssumption == Streaks \subseteq 0..9
ASSUME BoundsAssumption == {MaxFaults, MaxAdmin, MaxRestart} \subseteq Nat

VARIABLES
    disk,         \* <id>.json
    tmp,          \* <id>.json.tmp, shared by every writer of the record
    cache,        \* _cache[id]: the outer dictionary, which refers to an object
    heap,         \* the health objects
    probeLock,    \* is _probe_locks[id] held?
    cacheLock,    \* the thread that keeps _cache_lock over several steps
    handle,       \* the name that the file each thread writes has by now
    pc,           \* where each thread is
    after,        \* where it goes once its record is saved and published
    data,         \* the outer dictionary each thread works on
    flag,         \* the outcome of its query, or the value it is to set
    faults,       \* queries that may still fail
    admin,        \* operations left to the web interface
    restarts      \* restarts left

vars == <<disk, tmp, cache, heap, probeLock, cacheLock, handle, pc, after, data,
          flag, faults, admin, restarts>>

File == [enabled: BOOLEAN, health: Health]
Dict == [enabled: BOOLEAN, ref: Obj]

Content == File \cup {Empty, Torn}

ASSUME NoneAssumption ==
    None \notin Threads /\ None \notin Content /\ None \notin Dict
ASSUME ContentAssumption == Empty \notin File /\ Torn \notin File

Places == {"off",                                        \* not at work
           "idle", "open", "write", "replace", "publish",    \* saving a record
           "asked", "latency", "report",                 \* a query
           "refresh", "begin", "mark", "probe", "finish", "complete",
           "pause", "enable", "forget"}                  \* the web interface

TypeOK ==
    /\ disk \in Content \cup {None}
    /\ tmp \in Content \cup {None}
    /\ cache \in Dict \cup {None}
    /\ heap \in [Obj -> Health]
    /\ probeLock \in BOOLEAN
    /\ cacheLock \in Threads \cup {None}
    /\ handle \in [Threads -> {"tmp", "disk", "gone"}]
    /\ pc \in [Threads -> Places]
    /\ after \in [Threads -> Places]
    /\ data \in [Threads -> Dict \cup {None}]
    /\ flag \in [Threads -> BOOLEAN]
    /\ faults \in 0..MaxFaults
    /\ admin \in 0..MaxAdmin
    /\ restarts \in 0..MaxRestart

-----------------------------------------------------------------------------
(* Objects and records *)

Live == {d.ref : d \in ({cache} \cup {data[t] : t \in Threads}) \ {None}}
Free == Obj \ Live
Fresh == CHOOSE o \in Free : TRUE

(* An object nobody refers to any more is garbage. *)
Reclaim(objects) ==
    heap' = [o \in Obj |-> IF o \in Live' THEN objects[o] ELSE NewHealth]

(* _load_file: a copy of the file in an object of its own, if it is there and
   can be read. *)
Readable == disk \in File
Loadable == Readable /\ Free # {}
Loaded == [enabled |-> disk.enabled, ref |-> Fresh]

(* get: a handle on the cached health object, or else a loaded copy. *)
Gettable == cacheLock = None /\ (cache # None \/ Loadable)
NothingToGet == cache = None /\ cacheLock = None /\ ~Readable
Got == IF cache # None THEN cache ELSE Loaded
GotHealth == IF cache # None THEN heap[cache.ref] ELSE disk.health

Goto(t, place) == pc' = [pc EXCEPT ![t] = place]

(* Thread t changed the health object of dict to h and goes on to save it. *)
Save(t, dict, h, continuation) ==
    /\ data' = [data EXCEPT ![t] = dict]
    /\ heap' = [heap EXCEPT ![dict.ref] = h]
    /\ after' = [after EXCEPT ![t] = continuation]
    /\ Goto(t, "open")

(* The same for the operations that start from the file. *)
SaveLoaded(t, h, continuation) ==
    /\ Loadable
    /\ Save(t, Loaded, h, continuation)

-----------------------------------------------------------------------------
(* _save_file and _update_cache *)

OpenTmp(t) ==
    /\ pc[t] = "open"
    /\ tmp' = Empty
    /\ handle' = [handle EXCEPT ![t] = "tmp"]
    /\ Goto(t, "write")
    /\ UNCHANGED <<disk, cache, heap, probeLock, cacheLock, after, data, flag,
                   faults, admin, restarts>>

(* What a file may hold when a record is written over its content. *)
Overwritten(content, record) ==
    IF content = Empty THEN {record} ELSE {record, Torn}

WriteTmp(t) ==
    LET record == [enabled |-> data[t].enabled, health |-> heap[data[t].ref]]
    IN  /\ pc[t] = "write"
        /\ \/ /\ handle[t] = "tmp"
              /\ tmp' \in Overwritten(tmp, record) /\ UNCHANGED disk
           \/ /\ handle[t] = "disk"
              /\ disk' \in Overwritten(disk, record) /\ UNCHANGED tmp
           \/ handle[t] = "gone" /\ UNCHANGED <<disk, tmp>>
        /\ handle' = [handle EXCEPT ![t] = "gone"]
        /\ Goto(t, "replace")
        /\ UNCHANGED <<cache, heap, probeLock, cacheLock, after, data, flag,
                       faults, admin, restarts>>

Replace(t) ==
    /\ pc[t] = "replace"
    /\ tmp # None
    /\ disk' = tmp
    /\ tmp' = None
    /\ handle' = [u \in Threads |-> IF handle[u] = "tmp" THEN "disk" ELSE "gone"]
    /\ Goto(t, "publish")
    /\ UNCHANGED <<cache, heap, probeLock, cacheLock, after, data, flag, faults,
                   admin, restarts>>

(* Another writer has moved the temporary file away: os.replace raises, and
   the operation ends here.  The lock of active_upstreams is released by its
   "with"; begin_probe does not release the probe lock. *)
ReplaceFails(t) ==
    /\ pc[t] = "replace"
    /\ tmp = None
    /\ Goto(t, "idle")
    /\ data' = [data EXCEPT ![t] = None]
    /\ cacheLock' = IF cacheLock = t THEN None ELSE cacheLock
    /\ UNCHANGED <<disk, tmp, cache, probeLock, handle, after, flag, faults,
                   admin, restarts>>
    /\ Reclaim(heap)

Publish(t) ==
    /\ pc[t] = "publish"
    /\ cacheLock \in {None, t}
    /\ cache' = data[t]
    /\ data' = [data EXCEPT ![t] = None]
    /\ cacheLock' = None
    /\ Goto(t, after[t])
    /\ after' = [after EXCEPT ![t] = "idle"]
    /\ UNCHANGED <<disk, tmp, probeLock, handle, flag, faults, admin,
                   restarts>>
    /\ Reclaim(heap)

-----------------------------------------------------------------------------
(* Queries: _query_with_fallback and the forwarding modes, the health check *)

(* active_upstreams finds an expired backoff.  It keeps _cache_lock while it
   saves the record. *)
SelectExpired(t) ==
    /\ t \in Forwarders
    /\ pc[t] = "idle"
    /\ cacheLock = None
    /\ cache # None /\ cache.enabled
    /\ BackoffExpired(heap[cache.ref])
    /\ cacheLock' = t
    /\ Save(t, cache, Refresh(heap[cache.ref]), "idle")
    /\ UNCHANGED <<disk, tmp, cache, probeLock, handle, flag, faults, admin,
                   restarts>>

(* active_upstreams offers the upstream for a query. *)
Selectable ==
    /\ cacheLock = None
    /\ cache # None /\ cache.enabled
    /\ ~BackoffExpired(heap[cache.ref])
    /\ ~ManuallyPaused(heap[cache.ref])
    /\ heap[cache.ref].circuit = "closed"

Select(t) ==
    /\ t \in Forwarders
    /\ pc[t] = "idle"
    /\ Selectable
    /\ Goto(t, "asked")
    /\ UNCHANGED <<disk, tmp, cache, heap, probeLock, cacheLock, handle,
                   after, data, flag, faults, admin, restarts>>

(* The health check queries every enabled upstream, paused or not. *)
Check(t) ==
    /\ t \in Checkers
    /\ pc[t] = "idle"
    /\ cacheLock = None
    /\ cache # None /\ cache.enabled
    /\ Goto(t, "asked")
    /\ UNCHANGED <<disk, tmp, cache, heap, probeLock, cacheLock, handle,
                   after, data, flag, faults, admin, restarts>>

(* The query of thread t succeeds, or times out or is refused. *)
Query(t) ==
    \E success \in BOOLEAN :
        /\ flag' = [flag EXCEPT ![t] = success]
        /\ success \/ faults > 0
        /\ faults' = IF success THEN faults ELSE faults - 1

Answer(t) ==
    /\ pc[t] = "asked"
    /\ Query(t)
    /\ \/ Goto(t, IF t \in Forwarders THEN "latency" ELSE "report")
       \/ t \in Forwarders /\ Goto(t, "idle")               \* throttled
    /\ UNCHANGED <<disk, tmp, cache, heap, probeLock, cacheLock, handle,
                   after, data, admin, restarts>>

(* maybe_update_latency: rewrites the whole record for its latency. *)
UpdateLatency(t) ==
    /\ pc[t] = "latency"
    /\ \/ SaveLoaded(t, disk.health, "report")
       \/ ~Readable /\ Goto(t, "report") /\ UNCHANGED <<heap, after, data>>
    /\ UNCHANGED <<disk, tmp, cache, probeLock, cacheLock, handle, flag,
                   faults, admin, restarts>>

UpdateHealth(t) ==
    /\ pc[t] = "report"
    /\ \/ SaveLoaded(t, Report(disk.health, flag[t]), "idle")
       \/ ~Readable /\ Goto(t, "idle") /\ UNCHANGED <<heap, after, data>>
    /\ UNCHANGED <<disk, tmp, cache, probeLock, cacheLock, handle, flag,
                   faults, admin, restarts>>

-----------------------------------------------------------------------------
(* Recovery probes: recoverable_upstreams, run_recovery_probe *)

Recoverable(h) ==
    /\ h.reason # "manual"
    /\ h.circuit # "closed"
    /\ h.circuit = "half_open" \/ BackoffExpired(h)

Scan(t) ==
    /\ t \in Probers
    /\ pc[t] = "idle"
    /\ cacheLock = None
    /\ cache # None /\ cache.enabled
    /\ Recoverable(heap[cache.ref])
    /\ Goto(t, "refresh")
    /\ UNCHANGED <<disk, tmp, cache, heap, probeLock, cacheLock, handle,
                   after, data, flag, faults, admin, restarts>>

RefreshProbe(t) ==
    /\ pc[t] = "refresh"
    /\ \/ /\ Gettable /\ BackoffExpired(GotHealth)
          /\ Save(t, Got, Refresh(GotHealth), "begin")
       \/ /\ Gettable /\ ~BackoffExpired(GotHealth)
          /\ Goto(t, "begin") /\ UNCHANGED <<heap, after, data>>
       \/ /\ NothingToGet
          /\ Goto(t, "idle") /\ UNCHANGED <<heap, after, data>>
    /\ UNCHANGED <<disk, tmp, cache, probeLock, cacheLock, handle, flag,
                   faults, admin, restarts>>

MayProbe ==
    Gettable /\ GotHealth.circuit = "half_open" /\ ~ProbeBlocked(GotHealth)
MayNotProbe ==
    \/ NothingToGet
    \/ Gettable /\ (GotHealth.circuit # "half_open" \/ ProbeBlocked(GotHealth))

(* A bug: begin_probe relies on probe_in_flight and takes no lock. *)
BeginProbeUnlocked(t) ==
    /\ pc[t] = "begin"
    /\ \/ MayProbe /\ Goto(t, "mark")
       \/ MayNotProbe /\ Goto(t, "idle")
    /\ UNCHANGED <<disk, tmp, cache, heap, probeLock, cacheLock, handle,
                   after, data, flag, faults, admin, restarts>>

(* begin_probe up to lock.acquire(blocking=False) *)
BeginProbe(t) ==
    /\ pc[t] = "begin"
    /\ \/ MayProbe /\ ~probeLock /\ probeLock' = TRUE /\ Goto(t, "mark")
       \/ MayProbe /\ probeLock /\ Goto(t, "idle") /\ UNCHANGED probeLock
       \/ MayNotProbe /\ Goto(t, "idle") /\ UNCHANGED probeLock
    /\ UNCHANGED <<disk, tmp, cache, heap, cacheLock, handle, after, data,
                   flag, faults, admin, restarts>>

(* begin_probe after it: the double check, and marking the record *)
MarkInFlight(t) ==
    /\ pc[t] = "mark"
    /\ \/ /\ MayProbe
          /\ Save(t, Got, MarkProbe(GotHealth), "probe")
          /\ UNCHANGED probeLock
       \/ /\ MayNotProbe
          /\ probeLock' = FALSE
          /\ Goto(t, "idle") /\ UNCHANGED <<heap, after, data>>
    /\ UNCHANGED <<disk, tmp, cache, cacheLock, handle, flag, faults, admin,
                   restarts>>

(* _execute_health_probe *)
ExecuteProbe(t) ==
    /\ pc[t] = "probe"
    /\ Query(t)
    /\ Goto(t, "finish")
    /\ UNCHANGED <<disk, tmp, cache, heap, probeLock, cacheLock, handle,
                   after, data, admin, restarts>>

(* finish_probe gets the record and releases the lock ... *)
FinishProbe(t) ==
    /\ pc[t] = "finish"
    /\ \/ /\ Gettable
          /\ data' = [data EXCEPT ![t] = Got]
          /\ heap' = [heap EXCEPT ![Got.ref] = GotHealth]
          /\ probeLock' = FALSE
          /\ Goto(t, "complete")
       \/ /\ NothingToGet
          /\ Goto(t, "idle") /\ UNCHANGED <<heap, data, probeLock>>
    /\ UNCHANGED <<disk, tmp, cache, cacheLock, handle, after, flag, faults,
                   admin, restarts>>

(* ... and changes the record afterwards. *)
CompleteProbe(t) ==
    /\ pc[t] = "complete"
    /\ Save(t, data[t], Finish(heap[data[t].ref], flag[t]), "idle")
    /\ UNCHANGED <<disk, tmp, cache, probeLock, cacheLock, handle, flag,
                   faults, admin, restarts>>

-----------------------------------------------------------------------------
(* The web interface *)

Request(t) ==
    /\ t \in Admins
    /\ pc[t] = "idle"
    /\ admin > 0
    /\ admin' = admin - 1

(* The pause button reads the cached state and asks for the opposite. *)
TogglePause(t) ==
    /\ Request(t)
    /\ cacheLock = None /\ (cache # None \/ Readable)
    /\ flag' = [flag EXCEPT ![t] = IF cache # None THEN ~heap[cache.ref].paused
                                   ELSE ~disk.health.paused]
    /\ Goto(t, "pause")
    /\ UNCHANGED <<disk, tmp, cache, heap, probeLock, cacheLock, handle,
                   after, data, faults, restarts>>

SetHealthPaused(t) ==
    /\ pc[t] = "pause"
    /\ \/ SaveLoaded(t, SetPaused(disk.health, flag[t]), "idle")
       \/ ~Readable /\ Goto(t, "idle") /\ UNCHANGED <<heap, after, data>>
    /\ UNCHANGED <<disk, tmp, cache, probeLock, cacheLock, handle, flag,
                   faults, admin, restarts>>

SetEnabled(t) ==
    /\ Request(t)
    /\ Loadable
    /\ \E enabled \in BOOLEAN :
          Save(t, [Loaded EXCEPT !.enabled = enabled], disk.health, "idle")
    /\ UNCHANGED <<disk, tmp, cache, probeLock, cacheLock, handle, flag,
                   faults, restarts>>

ResetHealth(t) ==
    /\ Request(t)
    /\ Gettable /\ Got.enabled
    /\ Save(t, Got, Reset(GotHealth), "idle")
    /\ UNCHANGED <<disk, tmp, cache, probeLock, cacheLock, handle, flag,
                   faults, restarts>>

(* delete removes the file, then the cached record. *)
DeleteFile(t) ==
    /\ Request(t)
    /\ disk # None
    /\ disk' = None
    /\ handle' = [u \in Threads |-> IF handle[u] = "disk" THEN "gone" ELSE handle[u]]
    /\ Goto(t, "forget")
    /\ UNCHANGED <<tmp, cache, heap, probeLock, cacheLock, after, data, flag,
                   faults, restarts>>

RemoveFromCache(t) ==
    /\ pc[t] = "forget"
    /\ cacheLock = None
    /\ cache' = None
    /\ Goto(t, "idle")
    /\ UNCHANGED <<disk, tmp, probeLock, cacheLock, handle, after, data,
                   flag, faults, admin, restarts>>
    /\ Reclaim(heap)

(* create takes the id again once its file is gone (_next_id). *)
Create(t) ==
    /\ Request(t)
    /\ disk = None /\ Free # {}
    /\ Save(t, [enabled |-> TRUE, ref |-> Fresh], NewHealth, "idle")
    /\ UNCHANGED <<disk, tmp, cache, probeLock, cacheLock, handle, flag,
                   faults, restarts>>

-----------------------------------------------------------------------------
(* The environment *)

Age(content) == IF content \in File THEN [content EXCEPT !.health = Older(@)]
                ELSE content

Tick ==
    /\ disk' = Age(disk)
    /\ tmp' = Age(tmp)
    /\ heap' = [o \in Obj |-> Older(heap[o])]
    /\ <<disk, tmp, heap>>' # <<disk, tmp, heap>>
    /\ UNCHANGED <<cache, probeLock, cacheLock, handle, pc, after, data, flag,
                   faults, admin, restarts>>

(* The process dies and starts again: the files are all that is left, and
   _load_cache reads them. *)
Restart ==
    /\ restarts > 0
    /\ restarts' = restarts - 1
    /\ \E o \in Obj :
          /\ cache' = IF Readable THEN [enabled |-> disk.enabled, ref |-> o] ELSE None
          /\ o = CHOOSE x \in Obj : TRUE
          /\ heap' = [x \in Obj |-> IF Readable /\ x = o THEN disk.health
                                    ELSE NewHealth]
    /\ probeLock' = FALSE
    /\ cacheLock' = None
    /\ handle' = [t \in Threads |-> "gone"]
    /\ pc' = [t \in Threads |-> IF pc[t] = "off" THEN "off" ELSE "idle"]
    /\ after' = [t \in Threads |-> "idle"]
    /\ data' = [t \in Threads |-> None]
    /\ flag' = [t \in Threads |-> FALSE]
    /\ UNCHANGED <<disk, tmp, faults, admin>>

-----------------------------------------------------------------------------
(* The process starts with a record that was never used, or with what an
   earlier run left: three failures in a row, paused after the fourth, or one
   failure short of the longest backoff. *)
Failed(n) ==
    LET level == IF n < 4 THEN 0 ELSE IF n < 7 THEN 2 ELSE 3
    IN  IF level = 0 THEN [NewHealth EXCEPT !.failures = n]
        ELSE [NewHealth EXCEPT !.failures = n, !.paused = TRUE,
                               !.reason = "health_backoff", !.circuit = "open",
                               !.level = level, !.left = Backoff[level]]

StartHealths == {Failed(n) : n \in Streaks}

Init ==
    /\ disk \in [enabled: {TRUE}, health: StartHealths]
    /\ tmp = None
    /\ \E o \in Obj :
          /\ o = CHOOSE x \in Obj : TRUE
          /\ cache = [enabled |-> TRUE, ref |-> o]
          /\ heap = [x \in Obj |-> IF x = o THEN disk.health ELSE NewHealth]
    /\ probeLock = FALSE
    /\ cacheLock = None
    /\ handle = [t \in Threads |-> "gone"]
    /\ \E cast \in Casts :
          pc = [t \in Threads |-> IF t \in cast THEN "idle" ELSE "off"]
    /\ after = [t \in Threads |-> "idle"]
    /\ data = [t \in Threads |-> None]
    /\ flag = [t \in Threads |-> FALSE]
    /\ faults = MaxFaults
    /\ admin = MaxAdmin
    /\ restarts = MaxRestart

(* What a thread does once it has begun. *)
Continue(t) ==
    \/ OpenTmp(t) \/ WriteTmp(t) \/ Replace(t) \/ ReplaceFails(t) \/ Publish(t)
    \/ Answer(t) \/ UpdateLatency(t) \/ UpdateHealth(t)
    \/ RefreshProbe(t) \/ BeginProbe(t) \/ MarkInFlight(t) \/ ExecuteProbe(t)
    \/ FinishProbe(t) \/ CompleteProbe(t)
    \/ SetHealthPaused(t) \/ RemoveFromCache(t)

(* What the web interface and the clients may ask for, or not. *)
Start(t) ==
    \/ Select(t) \/ SelectExpired(t)
    \/ TogglePause(t) \/ SetEnabled(t) \/ ResetHealth(t) \/ DeleteFile(t)
    \/ Create(t)

Next ==
    \/ \E t \in Threads : Continue(t) \/ Start(t) \/ Check(t) \/ Scan(t)
    \/ Tick \/ Restart

Spec == Init /\ [][Next]_vars

(* The two workers loop for as long as the process lives, every operation that
   was started runs on, and time passes.  Nobody has to ask a query, press a
   button or repair the network. *)
Fairness ==
    /\ \A t \in Threads : WF_vars(Continue(t))
    /\ \A t \in Checkers : WF_vars(Check(t))
    /\ \A t \in Probers : WF_vars(Scan(t))
    /\ WF_vars(Tick)

FairSpec == Spec /\ Fairness

-----------------------------------------------------------------------------
(* Properties *)

(* The probes that have been let through and are not completed: from the lock
   to the call of finish_probe that gives it back. *)
Probing(t) ==
    \/ pc[t] \in {"mark", "probe", "finish"}
    \/ pc[t] \in {"open", "write", "replace", "publish"} /\ after[t] = "probe"

(* "Per-upstream probe locks to prevent concurrent half-open probes": however
   the recovery worker, probe-all requests, crashes and writers interleave, an
   upstream that is just recovering is never probed by two threads at once. *)
ProbeExclusive ==
    \A t, u \in Threads : Probing(t) /\ Probing(u) => t = u

Records == {heap[o] : o \in Obj} \cup {f.health : f \in {disk, tmp} \cap File}

(* Every copy of the record that a reader can meet (the file, the file being
   written, the cached object, the object of an operation under way) keeps
   traffic away from a paused upstream by its circuit as well. *)
PausedAreOpen == TypeOK /\ \A h \in Records : PausedIsOpen(h) /\ ManualIsPaused(h)

(* No copy of the record is ever paused automatically without an end. *)
AutoPausesEnd == \A h \in Records : AutoPauseEnds(h)

ProbesAlone == \A t \in Threads \ Probers : pc[t] = "off"

(* The circuit of the record a restart would find, where only recovery probes
   are at work; of other casts the abstract circuit breaker says nothing. *)
Breaker == INSTANCE CircuitBreaker
           WITH circuit <- IF ~Readable \/ ~ProbesAlone THEN "closed"
                           ELSE disk.health.circuit

(* With no one but the recovery probes at work, the file goes through the
   states of the circuit breaker, whatever crashes and races there are. *)
ProbesFollowBreaker == Breaker!Spec

Available ==
    \/ cache # None /\ ~cache.enabled
    \/ cache # None /\ heap[cache.ref].reason = "manual"
    \/ cache # None /\ heap[cache.ref].circuit = "closed"
    \/ cache = None /\ disk = None                 \* deleted

(* The promise of the docstring of begin_probe: it "returns False if another
   probe is already in flight or the upstream is not in half_open state", so a
   lock that is taken belongs to a probe somebody is still busy with. *)
LockHasOwner == probeLock => \E t \in Threads : Probing(t)

(* Without a file that can be loaded the health check changes nothing.  The
   recovery worker writes the file anew from the cached record, but not if the
   process has started with that file, if the lock of the probes is left taken,
   or if the record is open with no end to wait for. *)
Lost ==
    /\ disk \in {Empty, Torn}
    /\ \/ cache = None
       \/ ~LockHasOwner
       \/ heap[cache.ref].circuit = "open" /\ heap[cache.ref].left = NoBackoff

(* Once the network is good, an enabled upstream that nobody paused by hand is
   back in use, again and again: the health check and the recovery worker,
   the stale writes and the crashes leave no upstream behind, but where two
   writers met in the temporary file, what they left is the record's file, and
   the recovery worker can do nothing about it. *)
Recovers == []<>(Available \/ Lost)
=============================================================================
