------------------------------ MODULE FilterReload ------------------------------
(***************************************************************************)
(* How edits of the filter rules reach the DNS hot path (app.py).          *)
(*                                                                         *)
(* The hot path reads the module global _active_engine without a lock.     *)
(* reload_filter_engine builds a new engine from the database (rules, then *)
(* blocklists, then profiles) and swaps it in.  Five kinds of threads call *)
(* it:                                                                     *)
(*   - the rules-reload worker, which waits until no edit came for a       *)
(*     second and covers all of them with one reload;                      *)
(*   - the blocklist-toggle worker, written the same way;                  *)
(*   - the import and the delete worker, which empty a queue of jobs and   *)
(*     reload after the last one;                                          *)
(*   - requests of the web interface that edit a profile and reload at     *)
(*     once.                                                               *)
(* A worker thread is started by the first edit and ends when it finds     *)
(* nothing left to do.                                                     *)
(*                                                                         *)
(* Abstractions: what is edited is a version number for each source; the   *)
(* second of waiting is a step; the download of a list is a choice of its  *)
(* outcome.                                                                *)
(***************************************************************************)
EXTENDS Integers, Sequences

CONSTANTS
    Workers,      \* the background workers that take part
    Requests,     \* web requests that reload by themselves
    QueueMax,     \* BLOCKLIST_IMPORT_QUEUE_MAX, BLOCKLIST_DELETE_QUEUE_MAX
    MaxEdits,     \* bound: edits
    MaxFaults     \* bound: jobs and engine builds that fail

ASSUME WorkersAssumption == Workers \subseteq {"rules", "toggle", "import", "delete"}
ASSUME RequestsAssumption == Requests \cap Workers = {}
ASSUME BoundsAssumption == {QueueMax, MaxEdits, MaxFaults} \subseteq Nat

Coalescers == Workers \cap {"rules", "toggle"}
Queues == Workers \cap {"import", "delete"}
Threads == Workers \cup Requests

\* The order in which build_filter_engine reads its sources.
Sources == <<"rules", "lists", "profiles">>
SourceOf(t) ==
    IF t \in Requests THEN "profiles" ELSE IF t = "rules" THEN "rules" ELSE "lists"

VARIABLES
    store,        \* the version of each source in the database
    engine,       \* the versions _active_engine was built from
    built,        \* the versions each thread has read so far
    pc,           \* where each thread is
    owed,         \* edits committed for a worker that is not told of them yet
    todo,         \* rules_reload_pending, ..., the length of a job queue
    seen,         \* seen_pending of the coalescing workers
    running,      \* rules_reload_running, ...: is the worker alive?
    should,       \* should_reload of the queue workers
    failed,       \* did the latest reload fail?
    edits,        \* edits left
    faults        \* faults left

vars == <<store, engine, built, pc, owed, todo, seen, running, should, failed,
          edits, faults>>

Versions == [{"rules", "lists", "profiles"} -> 0..MaxEdits]
Places == {"off", "wait", "look", "finish", "take", "work", "check", "leave",
           "read1", "read2", "read3", "swap"}

TypeOK ==
    /\ store \in Versions /\ engine \in Versions
    /\ built \in [Threads -> Versions]
    /\ pc \in [Threads -> Places]
    /\ owed \in [Workers -> 0..MaxEdits]
    /\ todo \in [Workers -> 0..MaxEdits]
    /\ seen \in [Workers -> 0..MaxEdits]
    /\ running \in [Workers -> BOOLEAN]
    /\ should \in [Workers -> BOOLEAN]
    /\ failed \in BOOLEAN
    /\ edits \in 0..MaxEdits
    /\ faults \in 0..MaxFaults

Unedited == [s \in {"rules", "lists", "profiles"} |-> 0]

\* init_db has built an engine from the database.
Init ==
    /\ store = Unedited /\ engine = Unedited
    /\ built = [t \in Threads |-> Unedited]
    /\ pc = [t \in Threads |-> "off"]
    /\ owed = [w \in Workers |-> 0]
    /\ todo = [w \in Workers |-> 0]
    /\ seen = [w \in Workers |-> 0]
    /\ running = [w \in Workers |-> FALSE]
    /\ should = [w \in Workers |-> FALSE]
    /\ failed = FALSE
    /\ edits = MaxEdits
    /\ faults = MaxFaults

Goto(t, place) == pc' = [pc EXCEPT ![t] = place]

\* A version is a bound on the edits, not a counter of the code.
Bumped(versions, s) == [versions EXCEPT ![s] = @ + 1]

Fault == faults > 0 /\ faults' = faults - 1

-----------------------------------------------------------------------------
(* Requests of the web interface *)

\* A rule is saved or a blocklist switched: the row is committed first.
Edit(w) ==
    /\ w \in Coalescers
    /\ edits > 0
    /\ edits' = edits - 1
    /\ store' = Bumped(store, SourceOf(w))
    /\ owed' = [owed EXCEPT ![w] = @ + 1]
    /\ UNCHANGED <<engine, built, pc, todo, seen, running, should, failed, faults>>

\* A worker is started unless its flag says that there is one.
Start(w, place) ==
    IF running[w]
    THEN UNCHANGED <<running, pc>>
    ELSE /\ running' = [running EXCEPT ![w] = TRUE]
         /\ Goto(w, place)

\* A bug: an edit that finds a worker alive counts on its next look.
EnqueueReloadUncounted(w) ==
    /\ w \in Coalescers
    /\ owed[w] > 0
    /\ owed' = [owed EXCEPT ![w] = @ - 1]
    /\ todo' = [todo EXCEPT ![w] = IF running[w] THEN @ ELSE @ + 1]
    /\ Start(w, "wait")
    /\ UNCHANGED <<store, engine, built, seen, should, failed, edits, faults>>

\* enqueue_rules_reload, enqueue_blocklist_toggle_reload
EnqueueReload(w) ==
    /\ w \in Coalescers
    /\ owed[w] > 0
    /\ owed' = [owed EXCEPT ![w] = @ - 1]
    /\ todo' = [todo EXCEPT ![w] = @ + 1]
    /\ Start(w, "wait")
    /\ UNCHANGED <<store, engine, built, seen, should, failed, edits, faults>>

\* enqueue_blocklist_imports, enqueue_blocklist_deletes: what does not fit is
\* dropped.
EnqueueJobs(w) ==
    /\ w \in Queues
    /\ \E n \in 1..edits :
          /\ edits' = edits - n
          /\ todo' = [todo EXCEPT ![w] = IF @ + n > QueueMax THEN QueueMax ELSE @ + n]
    /\ Start(w, "take")
    /\ UNCHANGED <<store, engine, built, owed, seen, should, failed, faults>>

\* invalidate_rules_cache, reload_client_state: a profile is saved and the
\* request reloads the engine.
EditProfile(r) ==
    /\ pc[r] = "off"
    /\ edits > 0
    /\ edits' = edits - 1
    /\ store' = Bumped(store, "profiles")
    /\ Goto(r, "read1")
    /\ UNCHANGED <<engine, built, owed, todo, seen, running, should, failed, faults>>

-----------------------------------------------------------------------------
(* reload_filter_engine *)

ReadPlaces == <<"read1", "read2", "read3">>
AfterRead == <<"read2", "read3", "swap">>

\* build_filter_engine reads one source after the other.
Read(t) ==
    /\ \E i \in 1..3 :
          /\ pc[t] = ReadPlaces[i]
          /\ built' = [built EXCEPT ![t][Sources[i]] = store[Sources[i]]]
          /\ Goto(t, AfterRead[i])
    /\ UNCHANGED <<store, engine, owed, todo, seen, running, should, failed, edits, faults>>

\* Where a thread goes on after a reload, whether it succeeded or not.
AfterReload(t) ==
    IF t \in Coalescers THEN "finish" ELSE IF t \in Queues THEN "take" ELSE "off"

\* The queue workers forget that a reload was due, also when it failed.
EndReload(t) ==
    /\ Goto(t, AfterReload(t))
    /\ built' = [built EXCEPT ![t] = Unedited]
    /\ should' = [w \in Workers |-> IF w = t THEN FALSE ELSE should[w]]

Swap(t) ==
    /\ pc[t] = "swap"
    /\ engine' = built[t]
    /\ failed' = FALSE
    /\ EndReload(t)
    /\ UNCHANGED <<store, owed, todo, seen, running, edits, faults>>

\* The build raises: the old engine stays, and nobody tries again.
BuildFails(t) ==
    /\ pc[t] \in {"read1", "read2", "read3"}
    /\ Fault
    /\ failed' = TRUE
    /\ EndReload(t)
    /\ UNCHANGED <<store, engine, owed, todo, seen, running, edits>>

-----------------------------------------------------------------------------
(* rules_reload_worker and blocklist_toggle_reload_worker *)

SeePending(w) ==
    /\ w \in Coalescers /\ pc[w] = "wait"
    /\ seen' = [seen EXCEPT ![w] = todo[w]]
    /\ Goto(w, "look")
    /\ UNCHANGED <<store, engine, built, owed, todo, running, should, failed, edits, faults>>

\* After a second: wait again if more edits came.
Look(w) ==
    /\ w \in Coalescers /\ pc[w] = "look"
    /\ Goto(w, IF todo[w] # seen[w] THEN "wait" ELSE "read1")
    /\ UNCHANGED <<store, engine, built, owed, todo, seen, running, should, failed, edits, faults>>

\* Edits came during the reload: the worker stays for them.
NewEdits(w) ==
    /\ todo[w] # seen[w]
    /\ todo' = [todo EXCEPT ![w] = IF @ > seen[w] THEN @ - seen[w] ELSE 0]
    /\ Goto(w, "wait")
    /\ UNCHANGED running

\* A bug: the flag is cleared in a critical section of its own.
FinishRulesLate(w) ==
    /\ w = "rules" /\ w \in Coalescers /\ pc[w] = "finish"
    /\ \/ NewEdits(w)
       \/ /\ todo[w] = seen[w]
          /\ todo' = [todo EXCEPT ![w] = 0]
          /\ Goto(w, "leave")
          /\ UNCHANGED running
    /\ UNCHANGED <<store, engine, built, owed, seen, should, failed, edits, faults>>

\* The rules worker clears its counter and its flag in one critical section.
FinishRules(w) ==
    /\ w = "rules" /\ w \in Coalescers /\ pc[w] = "finish"
    /\ \/ NewEdits(w)
       \/ /\ todo[w] = seen[w]
          /\ todo' = [todo EXCEPT ![w] = 0]
          /\ running' = [running EXCEPT ![w] = FALSE]
          /\ Goto(w, "off")
    /\ UNCHANGED <<store, engine, built, owed, seen, should, failed, edits, faults>>

\* The toggle worker leaves its flag to the finally clause.
FinishToggle(w) ==
    /\ w = "toggle" /\ w \in Coalescers /\ pc[w] = "finish"
    /\ \/ NewEdits(w)
       \/ /\ todo[w] = seen[w]
          /\ todo' = [todo EXCEPT ![w] = 0]
          /\ Goto(w, "leave")
          /\ UNCHANGED running
    /\ UNCHANGED <<store, engine, built, owed, seen, should, failed, edits, faults>>

-----------------------------------------------------------------------------
(* blocklist_import_worker and blocklist_delete_worker *)


TakeJob(w) ==
    /\ w \in Queues /\ pc[w] = "take"
    /\ todo[w] > 0
    /\ todo' = [todo EXCEPT ![w] = @ - 1]
    /\ Goto(w, "work")
    /\ UNCHANGED <<store, engine, built, owed, seen, running, should, failed, edits, faults>>

\* A bug: the flag is cleared as soon as the queue is found empty.
NoJobClears(w) ==
    /\ w \in Queues /\ pc[w] = "take"
    /\ todo[w] = 0
    /\ Goto(w, "leave")
    /\ running' = [running EXCEPT ![w] = FALSE]
    /\ UNCHANGED <<store, engine, built, owed, todo, seen, should, failed, edits, faults>>

NoJob(w) ==
    /\ w \in Queues /\ pc[w] = "take"
    /\ todo[w] = 0
    /\ Goto(w, "leave")
    /\ UNCHANGED <<store, engine, built, owed, todo, seen, running, should, failed, edits, faults>>

JobSucceeds(w) ==
    /\ w \in Queues /\ pc[w] = "work"
    /\ store' = Bumped(store, "lists")
    /\ should' = [should EXCEPT ![w] = TRUE]
    /\ Goto(w, "check")
    /\ UNCHANGED <<engine, built, owed, todo, seen, running, failed, edits, faults>>

\* A bug: whether a reload is due is decided by the last job alone.
JobFailsForgets(w) ==
    /\ w \in Queues /\ pc[w] = "work"
    /\ Fault
    /\ should' = [should EXCEPT ![w] = FALSE]
    /\ Goto(w, "check")
    /\ UNCHANGED <<store, engine, built, owed, todo, seen, running, failed, edits>>

JobFails(w) ==
    /\ w \in Queues /\ pc[w] = "work"
    /\ Fault
    /\ Goto(w, "check")
    /\ UNCHANGED <<store, engine, built, owed, todo, seen, running, should, failed, edits>>

\* The finally clause of a job looks at the queue without the lock.
CheckReload(w) ==
    /\ w \in Queues /\ pc[w] = "check"
    /\ Goto(w, IF should[w] /\ todo[w] = 0 THEN "read1" ELSE "take")
    /\ UNCHANGED <<store, engine, built, owed, todo, seen, running, should, failed, edits, faults>>

-----------------------------------------------------------------------------
(* The finally clause of the toggle, import and delete workers: a critical
   section of its own, after the one in which nothing was left to do. *)
Leave(w) ==
    /\ pc[w] = "leave"
    /\ running' = [running EXCEPT ![w] = FALSE]
    /\ Goto(w, "off")
    /\ UNCHANGED <<store, engine, built, owed, todo, seen, should, failed, edits, faults>>

Step(w) ==
    \/ SeePending(w) \/ Look(w) \/ FinishRules(w) \/ FinishToggle(w)
    \/ TakeJob(w) \/ NoJob(w) \/ JobSucceeds(w) \/ JobFails(w) \/ CheckReload(w)
    \/ Leave(w)

Reload(t) == Read(t) \/ Swap(t) \/ BuildFails(t)

Next ==
    \/ \E w \in Workers :
          Edit(w) \/ EnqueueReload(w) \/ EnqueueJobs(w) \/ Step(w)
    \/ \E r \in Requests : EditProfile(r)
    \/ \E t \in Threads : Reload(t)

Spec == Init /\ [][Next]_vars

(* Every thread that has something to do goes on: a request reports its edit,
   a worker and a reload reach their next step.  Nobody has to edit. *)
Fairness ==
    /\ \A w \in Workers : WF_vars(EnqueueReload(w)) /\ WF_vars(Step(w))
    /\ \A t \in Threads : WF_vars(Reload(t))

FairSpec == Spec /\ Fairness

-----------------------------------------------------------------------------
(* Properties *)

Settled ==
    /\ \A t \in Threads : pc[t] = "off"
    /\ \A w \in Workers : todo[w] = 0 /\ owed[w] = 0

\* When every thread has finished and nothing waits, the hot path filters by
\* what the database says, unless the latest reload failed: edits that one
\* reload covers, and jobs of a batch whose last one failed, are not lost.
SettledIsCurrent == Settled => engine = store \/ failed

\* A flag that says "no worker" is right, so that no second one is started
\* beside the first, and a queue keeps its bound.
OneWorkerEach == TypeOK /\
    \A w \in Workers :
        /\ ~running[w] => pc[w] = "off"
        /\ w \in Queues => todo[w] <= QueueMax

\* Every edit of a rule reaches the hot path, unless the latest reload failed.
RulesReachEngine ==
    "rules" \in Workers => <>[](engine["rules"] = store["rules"] \/ failed)
=============================================================================
