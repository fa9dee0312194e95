------------------------- MODULE MCFilterReload_proofs -------------------------
(***************************************************************************)
(* Proofs about the two ways in which a change reaches the hot path: that  *)
(* there is one worker of each kind, whoever acts; that one kind of thread *)
(* alone leaves the engine current; and that the clients and profiles stay *)
(* consistent and reach the snapshot, for any number of edits, admins,     *)
(* addresses and profiles.                                                 *)
(***************************************************************************)
EXTENDS MCFilterReload, FiniteSetTheorems, TLAPS

-----------------------------------------------------------------------------
(* One worker of each kind: FilterReload alone, all threads together *)

\* The edits that a queue worker still has, and the job it works on.
Jobs(w) == IF w \in Queues THEN todo[w] + (IF pc[w] = "work" THEN 1 ELSE 0) ELSE 0

\* No edit counts twice: not as one that is left, as a version and as a job.
EditsAreCounted ==
    /\ edits + store["rules"] + store["lists"] + store["profiles"] + Jobs("import") + Jobs("delete")
         <= MaxEdits
    /\ \A w \in Coalescers : owed[w] + todo[w] <= store[SourceOf(w)]
    /\ \A w \in Queues : owed[w] = 0
WorkerInv == OneWorkerEach /\ EditsAreCounted

-----------------------------------------------------------------------------
(* One kind of thread alone *)

Behind == engine[SourceOf(actor)] # store[SourceOf(actor)] /\ ~failed
Reading == {"read1", "read2", "read3", "swap"}
\* Where a thread is when it has read what it changes itself.
Ahead(t) ==
    IF SourceOf(t) = "rules" THEN {"read2", "read3", "swap"}
    ELSE IF SourceOf(t) = "lists" THEN {"read3", "swap"} ELSE {"swap"}
HasRead == pc[actor] \in Ahead(actor) /\ built[actor][SourceOf(actor)] = store[SourceOf(actor)]

\* Nothing but the actor's own source changes.
OthersRest == \A s \in {"rules", "lists", "profiles"} \ {SourceOf(actor)} :
    store[s] = 0 /\ engine[s] = 0 /\ built[actor][s] = 0

\* What came after the look of a coalescing worker is still to be told or is counted.
CoalescerInv == actor \in Coalescers =>
    LET more == owed[actor] > 0 \/ todo[actor] > seen[actor] IN
    /\ pc[actor] \in {"off", "wait", "look", "finish", "leave"} \cup Reading
    /\ pc[actor] \in {"look", "finish"} \cup Reading => todo[actor] >= seen[actor]
    /\ pc[actor] \in Ahead(actor) => HasRead \/ more
    /\ pc[actor] = "finish" => ~Behind \/ more
    /\ pc[actor] \in {"off", "leave"} => ~Behind \/ owed[actor] > 0 \/ todo[actor] > 0

\* A queue worker that owes a reload has a job left or is about to reload.
QueueInv == actor \in Queues =>
    /\ pc[actor] \in {"off", "take", "work", "check", "leave"} \cup Reading
    /\ pc[actor] \in Ahead(actor) => HasRead
    /\ pc[actor] \notin Reading => ~Behind \/ should[actor]
    /\ pc[actor] = "take" => ~should[actor] \/ todo[actor] > 0
    /\ pc[actor] \in {"off", "leave"} => ~should[actor]

RequestInv == actor \in Requests =>
    /\ pc[actor] \in {"off"} \cup Reading
    /\ pc[actor] \in Ahead(actor) => HasRead
    /\ pc[actor] = "off" => ~Behind

ActorInv == actor \in Threads /\ OthersRest /\ CoalescerInv /\ QueueInv /\ RequestInv

-----------------------------------------------------------------------------
(* Clients and profiles *)

ClientThreads == CL!Threads
Engines == [profiles : SUBSET Profiles, policy : [Profiles -> Nat]]
Truth == [profiles |-> profiles, policy |-> policy]

\* The rows: one of each id and of each address, each with a profile.
RowsInv ==
    /\ clients \subseteq CL!Client /\ snapshot \subseteq CL!Client
    /\ \A r \in clients : r.profile \in profiles /\ r.id <= lastId
    /\ \A r, o \in clients : r # o => r.id # o.id /\ r.address # o.address
    /\ CL!Default \in profiles /\ lastId \in Nat

\* What a thread has built is as old as it says.
BuiltInv ==
    /\ clientBuilt = [t \in ClientThreads |-> clientBuilt[t]]
    /\ change \in Nat /\ troubled \in BOOLEAN
    /\ current \in [engine : Nat, snapshot : Nat]
    /\ current.engine <= change /\ current.snapshot <= change
    /\ \A t \in ClientThreads :
        /\ clientPc[t] = "put engine" => clientBuilt[t].what \in Engines
        /\ clientPc[t] = "put" => clientBuilt[t].what \subseteq CL!Client
        /\ clientPc[t] \in {"put engine", "put"} =>
             clientBuilt[t].change \in Nat /\ clientBuilt[t].change <= change

\* The latest change of a profile: what knows of it is right, and someone who will
\* bring it to the engine, if the engine does not know of it yet.
EngineFollows == \E e \in 0..change :
    /\ \A t \in ClientThreads :
         clientPc[t] = "put engine" /\ clientBuilt[t].change >= e => clientBuilt[t].what = Truth
    /\ current.engine >= e => clientEngine = Truth
    /\ \/ troubled \/ current.engine >= e
       \/ \E t \in ClientThreads : \/ clientPc[t] = "build engine"
                                   \/ clientPc[t] = "put engine" /\ clientBuilt[t].change >= e

\* The same for the snapshot and the latest change.
SnapshotFollows ==
    /\ \A t \in ClientThreads :
         ~troubled /\ clientPc[t] = "put" /\ clientBuilt[t].change = change =>
           clientBuilt[t].what = clients
    /\ ~troubled /\ current.snapshot = change => snapshot = clients
    /\ \/ troubled \/ current.snapshot = change
       \/ \E t \in ClientThreads : \/ clientPc[t] \in {"build engine", "put engine", "build"}
                                   \/ clientPc[t] = "put" /\ clientBuilt[t].change = change

ClientsInv == CL!TypeOK /\ RowsInv /\ BuiltInv /\ EngineFollows /\ SnapshotFollows

-----------------------------------------------------------------------------
(* One worker of each kind *)

LEMMA WorkersAre ==
  /\ Workers = Coalescers \cup Queues /\ Coalescers \cap Queues = {}
  /\ Coalescers \subseteq {"rules", "toggle"} /\ Queues \subseteq {"import", "delete"}
  /\ Workers \subseteq Threads /\ Requests \subseteq Threads /\ Threads = Workers \cup Requests
  /\ \A t \in Threads : SourceOf(t) \in {"rules", "lists", "profiles"}
  /\ \A w \in Workers : SourceOf(w) = (IF w = "rules" THEN "rules" ELSE "lists")
  /\ \A t \in Threads : AfterReload(t) \in {"finish", "take", "off"}
  /\ \A w \in Workers : AfterReload(w) # "off"
  BY WorkersAssumption, RequestsAssumption
     DEF Coalescers, Queues, Threads, SourceOf, AfterReload

LEMMA ReadIs ==
  ASSUME NEW t \in Threads, Read(t)
  PROVE  /\ \/ pc[t] = "read1" /\ Goto(t, "read2")
               /\ built' = [built EXCEPT ![t]["rules"] = store["rules"]]
            \/ pc[t] = "read2" /\ Goto(t, "read3")
               /\ built' = [built EXCEPT ![t]["lists"] = store["lists"]]
            \/ pc[t] = "read3" /\ Goto(t, "swap")
               /\ built' = [built EXCEPT ![t]["profiles"] = store["profiles"]]
         /\ UNCHANGED <<store, engine, owed, todo, seen, running, should, failed, edits, faults>>
<1>1. PICK i \in 1..3 :
        /\ pc[t] = ReadPlaces[i]
        /\ built' = [built EXCEPT ![t][Sources[i]] = store[Sources[i]]]
        /\ Goto(t, AfterRead[i])
  BY DEF Read
<1>2. UNCHANGED <<store, engine, owed, todo, seen, running, should, failed, edits, faults>>
  BY DEF Read
<1>3. CASE i = 1
  BY <1>1, <1>2, <1>3 DEF ReadPlaces, AfterRead, Sources
<1>4. CASE i = 2
  BY <1>1, <1>2, <1>4 DEF ReadPlaces, AfterRead, Sources
<1>5. CASE i = 3
  BY <1>1, <1>2, <1>5 DEF ReadPlaces, AfterRead, Sources
<1>6. QED
  BY <1>3, <1>4, <1>5

LEMMA StartIs ==
  ASSUME OneWorkerEach, NEW w \in Workers, NEW place \in Places, Start(w, place)
  PROVE  /\ running' \in [Workers -> BOOLEAN] /\ pc' \in [Threads -> Places]
         /\ \A v \in Workers : ~running'[v] => pc'[v] = "off"
         /\ \A v \in Threads \ {w} : pc'[v] = pc[v]
         /\ pc'[w] = pc[w] \/ pc'[w] = place
<1> USE WorkersAre DEF OneWorkerEach, TypeOK
<1>1. CASE running[w]
  BY <1>1 DEF Start
<1>2. CASE ~running[w]
  <2>1. running' = [running EXCEPT ![w] = TRUE] /\ pc' = [pc EXCEPT ![w] = place]
    BY <1>2 DEF Start, Goto
  <2>2. running' \in [Workers -> BOOLEAN] /\ \A v \in Workers \ {w} : running'[v] = running[v]
    BY <2>1
  <2>3. pc' \in [Threads -> Places] /\ \A v \in Threads \ {w} : pc'[v] = pc[v]
    BY <2>1
  <2>4. pc'[w] = place /\ running'[w]
    BY <2>1
  <2>5. QED
    BY <2>2, <2>3, <2>4
<1>3. QED
  BY <1>1, <1>2

LEMMA WorkerStep == WorkerInv /\ [Next]_vars => WorkerInv'
<1> SUFFICES ASSUME WorkerInv, [Next]_vars PROVE WorkerInv'
  OBVIOUS
<1> USE BoundsAssumption, WorkersAre
    DEF WorkerInv, OneWorkerEach, EditsAreCounted, TypeOK, Versions, Places, Jobs,
        Goto, Bumped, Fault, Start, Unedited, EndReload, NewEdits
<1>1. ASSUME NEW w \in Workers, Edit(w) PROVE WorkerInv'
  BY <1>1 DEF Edit
<1>2. ASSUME NEW w \in Workers, EnqueueReload(w) PROVE WorkerInv'
  <2>1. /\ w \in Coalescers /\ owed[w] > 0 /\ owed' = [owed EXCEPT ![w] = @ - 1]
        /\ todo' = [todo EXCEPT ![w] = @ + 1]
        /\ UNCHANGED <<store, engine, built, seen, should, failed, edits, faults>>
    BY <1>2 DEF EnqueueReload
  <2>2. owed[w] \in Nat /\ todo[w] \in Nat /\ owed[w] + todo[w] <= MaxEdits
    BY <2>1
  <2>3. running' \in [Workers -> BOOLEAN] /\ pc' \in [Threads -> Places]
        /\ (\A v \in Workers : ~running'[v] => pc'[v] = "off")
        /\ (\A v \in Queues : pc'[v] = pc[v])
    <3>1. Start(w, "wait") /\ "wait" \in Places
      BY <1>2 DEF EnqueueReload
    <3>2. OneWorkerEach
      OBVIOUS
    <3>3. w \in Threads /\ w \notin Queues /\ Queues \subseteq Threads
      BY <2>1
    <3>4. QED
      BY ONLY <3>1, <3>2, <3>3, StartIs, w \in Workers
  <2>4. TypeOK'
    BY <2>1, <2>2, <2>3
  <2>5. EditsAreCounted'
    BY <2>1, <2>2, <2>3
  <2>6. QED
    BY <2>1, <2>3, <2>4, <2>5
<1>3. ASSUME NEW w \in Workers, EnqueueJobs(w) PROVE WorkerInv'
  <2>1. PICK n \in 1..edits :
          /\ edits' = edits - n
          /\ todo' = [todo EXCEPT ![w] = IF @ + n > QueueMax THEN QueueMax ELSE @ + n]
    BY <1>3 DEF EnqueueJobs
  <2>2. w \in Queues /\ UNCHANGED <<store, engine, built, owed, seen, should, failed, faults>>
    BY <1>3 DEF EnqueueJobs
  <2>3. /\ edits \in Nat /\ n \in Nat /\ edits' \in 0..MaxEdits /\ todo[w] \in Nat
        /\ todo'[w] \in Nat /\ todo'[w] <= QueueMax /\ todo'[w] <= todo[w] + n
        /\ \A v \in Workers \ {w} : todo'[v] = todo[v]
    BY <2>1, <2>2
  <2>4. running' \in [Workers -> BOOLEAN] /\ pc' \in [Threads -> Places]
        /\ (\A v \in Workers : ~running'[v] => pc'[v] = "off")
        /\ (\A v \in Workers \ {w} : pc'[v] = pc[v])
        /\ (pc'[w] = pc[w] \/ pc'[w] = "take")
    <3>1. Start(w, "take") /\ "take" \in Places
      BY <1>3 DEF EnqueueJobs
    <3>2. OneWorkerEach
      OBVIOUS
    <3>3. /\ running' \in [Workers -> BOOLEAN] /\ pc' \in [Threads -> Places]
          /\ \A v \in Workers : ~running'[v] => pc'[v] = "off"
          /\ \A v \in Threads \ {w} : pc'[v] = pc[v]
          /\ pc'[w] = pc[w] \/ pc'[w] = "take"
      BY ONLY <3>1, <3>2, StartIs, w \in Workers
    <3>4. QED
      BY ONLY <3>3, WorkersAre
  <2>5. Jobs(w)' <= Jobs(w) + n /\ \A v \in Workers \ {w} : Jobs(v)' = Jobs(v)
    BY <2>2, <2>3, <2>4
  <2>6. EditsAreCounted'
    <3>1. /\ edits + store["rules"] + store["lists"] + store["profiles"]
               + Jobs("import") + Jobs("delete") <= MaxEdits
          /\ Jobs("import") \in Nat /\ Jobs("delete") \in Nat
          /\ Jobs("import")' \in Nat /\ Jobs("delete")' \in Nat
          /\ store["rules"] \in Nat /\ store["lists"] \in Nat /\ store["profiles"] \in Nat
      BY <2>3
    <3>2. w = "import" \/ w = "delete"
      BY <2>2
    <3>3. Jobs("import")' + Jobs("delete")' <= Jobs("import") + Jobs("delete") + n
      <4>1. CASE w = "import"
        BY <2>3, <2>5, <3>1, <4>1
      <4>2. CASE w = "delete"
        BY <2>3, <2>5, <3>1, <4>2
      <4>3. QED
        BY <3>2, <4>1, <4>2
    <3>4. (edits + store["rules"] + store["lists"] + store["profiles"]
             + Jobs("import") + Jobs("delete") <= MaxEdits)'
      BY <2>1, <2>2, <2>3, <3>1, <3>3
    <3>5. QED
      BY <2>2, <2>3, <3>4
  <2>7. \A v \in Workers : todo'[v] \in 0..MaxEdits
    BY <2>2, <2>3, <2>6
  <2>8. QED
    BY <2>1, <2>2, <2>3, <2>4, <2>6, <2>7
<1>4. ASSUME NEW w \in Workers, SeePending(w) PROVE WorkerInv'
  BY <1>4 DEF SeePending
<1>5. ASSUME NEW w \in Workers, Look(w) PROVE WorkerInv'
  BY <1>5 DEF Look
<1>6. ASSUME NEW w \in Workers, FinishRules(w) PROVE WorkerInv'
  <2>1. CASE /\ NewEdits(w)
             /\ UNCHANGED <<store, engine, built, owed, seen, should, failed, edits, faults>>
    BY <1>6, <2>1 DEF FinishRules
  <2>2. CASE /\ todo' = [todo EXCEPT ![w] = 0]
             /\ running' = [running EXCEPT ![w] = FALSE]
             /\ pc' = [pc EXCEPT ![w] = "off"]
             /\ UNCHANGED <<store, engine, built, owed, seen, should, failed, edits, faults>>
    BY <1>6, <2>2 DEF FinishRules
  <2>3. QED
    BY <1>6, <2>1, <2>2 DEF FinishRules
<1>7. ASSUME NEW w \in Workers, FinishToggle(w) PROVE WorkerInv'
  BY <1>7 DEF FinishToggle
<1>8. ASSUME NEW w \in Workers, TakeJob(w) PROVE WorkerInv'
  BY <1>8 DEF TakeJob
<1>9. ASSUME NEW w \in Workers, NoJob(w) PROVE WorkerInv'
  BY <1>9 DEF NoJob
<1>10. ASSUME NEW w \in Workers, JobSucceeds(w) PROVE WorkerInv'
  BY <1>10 DEF JobSucceeds
<1>11. ASSUME NEW w \in Workers, JobFails(w) PROVE WorkerInv'
  BY <1>11 DEF JobFails
<1>12. ASSUME NEW w \in Workers, CheckReload(w) PROVE WorkerInv'
  BY <1>12 DEF CheckReload
<1>13. ASSUME NEW w \in Workers, Leave(w) PROVE WorkerInv'
  BY <1>13 DEF Leave
<1>14. ASSUME NEW r \in Requests, EditProfile(r) PROVE WorkerInv'
  <2>1. /\ edits > 0 /\ edits' = edits - 1 /\ pc' = [pc EXCEPT ![r] = "read1"]
        /\ store' = [store EXCEPT !["profiles"] = @ + 1]
        /\ UNCHANGED <<engine, built, owed, todo, seen, running, should, failed, faults>>
        /\ r \in Threads /\ r \notin Workers
    BY <1>14, RequestsAssumption DEF EditProfile
  <2>2. /\ store'["rules"] = store["rules"] /\ store'["lists"] = store["lists"]
        /\ store'["profiles"] = store["profiles"] + 1
        /\ \A v \in Workers : Jobs(v)' = Jobs(v)
    BY <2>1
  <2>3. EditsAreCounted'
    BY <2>1, <2>2
  <2>4. store' \in Versions
    BY <2>1, <2>3
  <2>5. QED
    BY <2>1, <2>3, <2>4
<1>15. ASSUME NEW t \in Threads, Read(t) PROVE WorkerInv'
  BY <1>15, ReadIs
<1>16. ASSUME NEW t \in Threads, Swap(t) PROVE WorkerInv'
  <2>1. /\ pc' = [pc EXCEPT ![t] = AfterReload(t)] /\ built' = [built EXCEPT ![t] = Unedited]
        /\ should' = [w \in Workers |-> IF w = t THEN FALSE ELSE should[w]]
        /\ UNCHANGED <<store, owed, todo, seen, running, edits>>
        /\ pc[t] \in Reading
    BY <1>16 DEF Swap, Reading
  <2>2. engine' \in Versions /\ failed' \in BOOLEAN /\ faults' \in 0..MaxFaults
    BY <1>16 DEF Swap
  <2>3. /\ pc' \in [Threads -> Places] /\ built' \in [Threads -> Versions]
        /\ should' \in [Workers -> BOOLEAN]
    <3>1. pc' \in [Threads -> Places]
      BY <2>1
    <3>2. built' \in [Threads -> Versions]
      <4>1. Unedited \in Versions
        OBVIOUS
      <4>2. QED
        BY ONLY <2>1, <4>1, built \in [Threads -> Versions]
    <3>3. should' \in [Workers -> BOOLEAN]
      <4>1. should \in [Workers -> BOOLEAN]
        OBVIOUS
      <4>2. QED
        BY ONLY <2>1, <4>1
    <3>4. QED
      BY <3>1, <3>2, <3>3
  <2>4. \A w \in Workers : /\ ~running'[w] => pc'[w] = "off"
                           /\ pc'[w] = "work" <=> pc[w] = "work"
    BY <2>1 DEF Reading
  <2>5. EditsAreCounted'
    BY <2>1, <2>4
  <2>6. QED
    BY <2>1, <2>2, <2>3, <2>4, <2>5
<1>17. ASSUME NEW t \in Threads, BuildFails(t) PROVE WorkerInv'
  <2>1. /\ pc' = [pc EXCEPT ![t] = AfterReload(t)] /\ built' = [built EXCEPT ![t] = Unedited]
        /\ should' = [w \in Workers |-> IF w = t THEN FALSE ELSE should[w]]
        /\ UNCHANGED <<store, owed, todo, seen, running, edits>>
        /\ pc[t] \in Reading
    BY <1>17 DEF BuildFails, Reading
  <2>2. engine' \in Versions /\ failed' \in BOOLEAN /\ faults' \in 0..MaxFaults
    BY <1>17 DEF BuildFails
  <2>3. /\ pc' \in [Threads -> Places] /\ built' \in [Threads -> Versions]
        /\ should' \in [Workers -> BOOLEAN]
    <3>1. pc' \in [Threads -> Places]
      BY <2>1
    <3>2. built' \in [Threads -> Versions]
      <4>1. Unedited \in Versions
        OBVIOUS
      <4>2. QED
        BY ONLY <2>1, <4>1, built \in [Threads -> Versions]
    <3>3. should' \in [Workers -> BOOLEAN]
      <4>1. should \in [Workers -> BOOLEAN]
        OBVIOUS
      <4>2. QED
        BY ONLY <2>1, <4>1
    <3>4. QED
      BY <3>1, <3>2, <3>3
  <2>4. \A w \in Workers : /\ ~running'[w] => pc'[w] = "off"
                           /\ pc'[w] = "work" <=> pc[w] = "work"
    BY <2>1 DEF Reading
  <2>5. EditsAreCounted'
    BY <2>1, <2>4
  <2>6. QED
    BY <2>1, <2>2, <2>3, <2>4, <2>5
<1>18. CASE UNCHANGED vars
  BY <1>18 DEF vars
<1>19. QED
  BY <1>1, <1>2, <1>3, <1>4, <1>5, <1>6, <1>7, <1>8, <1>9, <1>10, <1>11, <1>12, <1>13, <1>14,
     <1>15, <1>16, <1>17, <1>18 DEF Next, Step, Reload

LEMMA WorkerInit == Init => WorkerInv
<1> SUFFICES ASSUME Init PROVE WorkerInv
  OBVIOUS
<1> USE BoundsAssumption, WorkersAre DEF Init, Versions, Unedited
<1>1. TypeOK
  <2>1. store \in Versions /\ engine \in Versions /\ built \in [Threads -> Versions]
    OBVIOUS
  <2>2. /\ owed \in [Workers -> 0..MaxEdits] /\ todo \in [Workers -> 0..MaxEdits]
        /\ seen \in [Workers -> 0..MaxEdits] /\ edits \in 0..MaxEdits /\ faults \in 0..MaxFaults
    OBVIOUS
  <2>3. running \in [Workers -> BOOLEAN] /\ should \in [Workers -> BOOLEAN] /\ failed \in BOOLEAN
    OBVIOUS
  <2>4. pc \in [Threads -> Places]
    BY DEF Places
  <2>5. QED
    BY <2>1, <2>2, <2>3, <2>4 DEF TypeOK
<1>2. EditsAreCounted
  BY DEF EditsAreCounted, Jobs
<1>3. QED
  BY <1>1, <1>2 DEF WorkerInv, OneWorkerEach

\* However the five kinds of threads interleave, a flag that says "no worker" is
\* right, so that no second worker of a kind is started, and a queue of jobs keeps
\* its bound.
THEOREM OneWorker == Spec => []OneWorkerEach
<1>1. WorkerInv => OneWorkerEach
  BY DEF WorkerInv
<1>2. QED
  BY <1>1, WorkerInit, WorkerStep, PTL DEF Spec

-----------------------------------------------------------------------------
(* One kind of thread alone *)

LEMMA ActorStep ==
  OneWorkerEach /\ ActorInv /\ UNCHANGED actor /\ [ReloadNext]_vars => ActorInv'
<1> SUFFICES ASSUME OneWorkerEach, ActorInv, UNCHANGED actor, [ReloadNext]_vars PROVE ActorInv'
  OBVIOUS
<1> USE WorkersAre
    DEF OneWorkerEach, TypeOK, Versions, ActorInv, OthersRest, CoalescerInv, QueueInv, RequestInv,
        Behind, Reading, Ahead, HasRead,
        Goto, Bumped, Fault, Start, Unedited, EndReload, NewEdits
<1>a. actor \notin Requests \/ (actor \notin Coalescers /\ actor \notin Queues)
  BY RequestsAssumption
<1>1. ASSUME NEW w \in Workers, w = actor, Edit(w) PROVE ActorInv'
  BY <1>1, <1>a DEF Edit
<1>2. ASSUME NEW w \in Workers, w = actor, EnqueueReload(w) PROVE ActorInv'
  BY <1>2, <1>a DEF EnqueueReload
<1>3. ASSUME NEW w \in Workers, w = actor, EnqueueJobs(w) PROVE ActorInv'
  <2>1. PICK n \in 1..edits :
          todo' = [todo EXCEPT ![w] = IF @ + n > QueueMax THEN QueueMax ELSE @ + n]
    BY <1>3 DEF EnqueueJobs
  <2>2. w \in Queues /\ UNCHANGED <<store, engine, built, owed, seen, should, failed, faults>>
    BY <1>3 DEF EnqueueJobs
  <2>3. todo'[w] >= todo[w] /\ todo[w] \in Nat /\ todo'[w] \in Nat
    BY <2>1, <2>2, BoundsAssumption
  <2>4. pc'[w] = pc[w] \/ (pc[w] = "off" /\ pc'[w] = "take")
    BY <1>3 DEF EnqueueJobs
  <2>5. actor \notin Coalescers /\ actor \notin Requests /\ actor = w
    BY <1>3, <1>a, <2>2
  <2>6. OthersRest'
    BY <1>3, <2>2
  <2>7. QueueInv'
    BY <2>2, <2>3, <2>4, <2>5
  <2>8. QED
    BY <2>5, <2>6, <2>7
<1>4. ASSUME NEW w \in Workers, w = actor, SeePending(w) PROVE ActorInv'
  BY <1>4, <1>a DEF SeePending
<1>5. ASSUME NEW w \in Workers, w = actor, Look(w) PROVE ActorInv'
  BY <1>5, <1>a DEF Look
<1>6. ASSUME NEW w \in Workers, w = actor, FinishRules(w) PROVE ActorInv'
  BY <1>6, <1>a DEF FinishRules
<1>7. ASSUME NEW w \in Workers, w = actor, FinishToggle(w) PROVE ActorInv'
  BY <1>7, <1>a DEF FinishToggle
<1>8. ASSUME NEW w \in Workers, w = actor, TakeJob(w) PROVE ActorInv'
  BY <1>8, <1>a DEF TakeJob
<1>9. ASSUME NEW w \in Workers, w = actor, NoJob(w) PROVE ActorInv'
  BY <1>9, <1>a DEF NoJob
<1>10. ASSUME NEW w \in Workers, w = actor, JobSucceeds(w) PROVE ActorInv'
  BY <1>10, <1>a DEF JobSucceeds
<1>11. ASSUME NEW w \in Workers, w = actor, JobFails(w) PROVE ActorInv'
  BY <1>11, <1>a DEF JobFails
<1>12. ASSUME NEW w \in Workers, w = actor, CheckReload(w) PROVE ActorInv'
  BY <1>12, <1>a DEF CheckReload
<1>13. ASSUME NEW w \in Workers, w = actor, Leave(w) PROVE ActorInv'
  BY <1>13, <1>a DEF Leave
<1>14. ASSUME NEW r \in Requests, r = actor, EditProfile(r) PROVE ActorInv'
  BY <1>14, <1>a DEF EditProfile, SourceOf
<1>15. ASSUME NEW t \in Threads, t = actor, Read(t) PROVE ActorInv'
  BY <1>15, <1>a, ReadIs
<1>16. ASSUME NEW t \in Threads, t = actor, Swap(t) PROVE ActorInv'
  BY <1>16, <1>a DEF Swap, AfterReload
<1>17. ASSUME NEW t \in Threads, t = actor, BuildFails(t) PROVE ActorInv'
  BY <1>17, <1>a DEF BuildFails, AfterReload
<1>18. CASE UNCHANGED vars
  BY <1>18 DEF vars
<1>19. QED
  BY <1>1, <1>2, <1>3, <1>4, <1>5, <1>6, <1>7, <1>8, <1>9, <1>10, <1>11, <1>12, <1>13, <1>14,
     <1>15, <1>16, <1>17, <1>18 DEF ReloadNext, Step, Reload

LEMMA ActorInit == Init /\ actor \in Threads => ActorInv
<1> SUFFICES ASSUME Init, actor \in Threads PROVE ActorInv
  OBVIOUS
<1> USE WorkersAre DEF Init, Unedited
<1>1. OthersRest
  BY DEF OthersRest
<1>2. ~Behind
  BY DEF Behind
<1>3. CoalescerInv /\ QueueInv /\ RequestInv
  BY <1>2 DEF CoalescerInv, QueueInv, RequestInv, Ahead, Reading
<1>4. QED
  BY <1>1, <1>3 DEF ActorInv

LEMMA ActorSettles == OneWorkerEach /\ ActorInv => SettledIsCurrent
<1> SUFFICES ASSUME OneWorkerEach, ActorInv, Settled, ~failed PROVE engine = store
  BY DEF SettledIsCurrent
<1>1. pc[actor] = "off" /\ (actor \in Workers => todo[actor] = 0 /\ owed[actor] = 0)
  BY DEF Settled, ActorInv
<1>2. ~Behind
  BY <1>1, WorkersAre DEF ActorInv, CoalescerInv, QueueInv, RequestInv, Reading
<1>3. \A s \in {"rules", "lists", "profiles"} : engine[s] = store[s]
  BY <1>2, WorkersAre DEF ActorInv, OthersRest, Behind
<1>4. QED
  BY <1>3 DEF OneWorkerEach, TypeOK, Versions

\* Where one kind of thread alone reloads, the hot path filters by what the
\* database says as soon as it has finished, unless its latest reload failed: no
\* edit that came during a reload and no job of a batch is lost.
THEOREM SettledCurrent == PartsSpec => []SettledIsCurrent
<1> DEFINE Inv == WorkerInv /\ (part = "reload" => ActorInv)
               /\ (part # "reload" => Unedited = store /\ store = engine)
           all == <<part, actor, vars, clientVars>>
<1>1. PartsInit => Inv
  BY ActorInit, WorkerInit DEF PartsInit, Init
<1>2. Inv /\ [PartsNext]_all => Inv'
  <2> SUFFICES ASSUME Inv, [PartsNext]_all PROVE Inv'
    OBVIOUS
  <2>1. CASE part = "reload" /\ ReloadNext /\ UNCHANGED <<part, actor>>
    <3>1. Next
      BY <2>1 DEF ReloadNext, Next
    <3>2. QED
      BY <2>1, <3>1, WorkerStep, ActorStep DEF WorkerInv
  <2>2. CASE UNCHANGED vars /\ UNCHANGED <<part, actor>>
    <3>1. UNCHANGED <<store, engine>>
      BY <2>2 DEF vars
    <3>2. QED
      BY <2>2, <3>1, WorkerStep, ActorStep DEF WorkerInv, Unedited
  <2>3. QED
    BY <2>1, <2>2 DEF PartsNext
<1>3. Inv => SettledIsCurrent
  BY ActorSettles DEF WorkerInv, SettledIsCurrent
<1>4. QED
  BY <1>1, <1>2, <1>3, PTL DEF PartsSpec

-----------------------------------------------------------------------------
(* Clients and profiles *)

LEMMA CardinalityIs == \A S : CL!Cardinality(S) = Cardinality(S)
  BY DEF CL!Cardinality, Cardinality, CL!IsFiniteSet, IsFiniteSet

LEMMA EmptySeq == <<>> \in Seq(Ips)
  OBVIOUS

LEMMA ClientIs ==
  /\ \A r \in CL!Client : r.id \in Nat /\ r.address \in CL!Addresses /\ r.profile \in Profiles
  /\ \A n \in Nat, address \in CL!Addresses, p \in Profiles :
       LET r == [id |-> n, address |-> address, profile |-> p] IN
       r \in CL!Client /\ r.id = n /\ r.address = address /\ r.profile = p
  /\ \A o \in CL!Client, address \in CL!Addresses, p \in Profiles :
       LET r == [o EXCEPT !.address = address, !.profile = p] IN
       r \in CL!Client /\ r.id = o.id /\ r.address = address /\ r.profile = p
  /\ \A o \in CL!Client, p \in Profiles :
       LET r == [o EXCEPT !.profile = p] IN
       r \in CL!Client /\ r.id = o.id /\ r.address = o.address /\ r.profile = p
  BY DEF CL!Client

\* The rows, and the types.
LEMMA RowsStep ==
  CL!TypeOK /\ RowsInv /\ BuiltInv /\ [CL!Next]_clientVars => (CL!TypeOK /\ RowsInv)'
<1> SUFFICES ASSUME CL!TypeOK, RowsInv, BuiltInv, [CL!Next]_clientVars
             PROVE  (CL!TypeOK /\ RowsInv)'
  OBVIOUS
<1> USE DEF RowsInv, CL!TypeOK, CL!Changes, CL!Goto, CL!tables, CL!unknown, CL!MayRefer,
            ClientThreads
<1>a. /\ clients \subseteq CL!Client /\ \A r \in clients : r.profile \in profiles /\ r.id <= lastId
      /\ \A r, o \in clients : r # o => r.id # o.id /\ r.address # o.address
      /\ CL!Default \in profiles /\ lastId \in Nat
  OBVIOUS
<1>b. clientPc \in [CL!Threads ->
        {"idle", "build engine", "put engine", "build", "put", "insert"}]
  OBVIOUS
<1>c. lastId \in Nat /\ CL!Default \in profiles /\ CL!Default \in Profiles
  OBVIOUS
<1>1. ASSUME NEW a \in Admins, NEW address \in CL!Addresses, NEW p \in Profiles,
             CL!CreateClient(a, address, p)
      PROVE  (CL!TypeOK /\ RowsInv)'
  <2> DEFINE r == [id |-> lastId + 1, address |-> address, profile |-> p]
  <2>1. r \in CL!Client /\ r.id = lastId + 1 /\ r.address = address /\ r.profile = p
    <3>1. lastId + 1 \in Nat
      BY ONLY <1>c
    <3>2. QED
      BY ONLY <3>1, ClientIs, address \in CL!Addresses, p \in Profiles
  <2>2. clients' = {o \in clients : o.address # address} \cup {r}
    BY <1>1 DEF CL!CreateClient
  <2>3. /\ lastId' = lastId + 1 /\ p \in profiles
        /\ clientPc' = [clientPc EXCEPT ![a] = "build engine"]
        /\ UNCHANGED <<profiles, policy, clientEngine, snapshot, seenIps, queue, batch>>
    BY <1>1 DEF CL!CreateClient
  <2> HIDE DEF r
  <2>4. clients' \subseteq CL!Client /\ \A o \in clients : o.id \in Nat /\ o.id <= lastId
    BY ONLY <1>a, <2>1, <2>2, ClientIs
  <2>5. \A o, q \in clients' : o # q => o.id # q.id /\ o.address # q.address
    <3>1. \A o \in clients : o.id < lastId + 1
      BY ONLY <1>a, <2>4
    <3>2. \A o \in clients' : o = r \/ (o \in clients /\ o.address # address)
      BY ONLY <2>2
    <3>3. \A o \in clients : o.id # lastId + 1
      BY ONLY <1>a, <2>4
    <3>4. QED
      BY ONLY <1>a, <2>1, <3>2, <3>3
  <2>11. lastId' = lastId + 1 /\ p \in profiles /\ profiles' = profiles
    BY ONLY <2>3
  <2>7. \A o \in clients' : o.profile \in profiles' /\ o.id <= lastId'
    <3>1. \A o \in clients' : o = r \/ o \in clients
      BY ONLY <2>2
    <3>2. \A o \in clients : o.id <= lastId + 1 /\ o.profile \in profiles
      BY ONLY <1>a, <1>c, <2>4
    <3>3. r.id <= lastId + 1 /\ r.profile \in profiles
      BY ONLY <1>c, <2>1, <2>11
    <3>4. QED
      BY ONLY <2>3, <3>1, <3>2, <3>3
  <2>9. lastId' \in Nat /\ CL!Default \in profiles'
    BY ONLY <1>c, <2>11
  <2>10. snapshot' \subseteq CL!Client
    BY <2>3
  <2>8. RowsInv'
    BY ONLY <2>4, <2>5, <2>7, <2>9, <2>10 DEF RowsInv
  <2>6. QED
    BY <1>b, <2>3, <2>4, <2>8 DEF CL!Threads
<1>2. ASSUME NEW a \in Admins, NEW row \in clients, CL!DeleteClient(a, row)
      PROVE  (CL!TypeOK /\ RowsInv)'
  BY <1>2 DEF CL!DeleteClient
<1>3. ASSUME NEW a \in Admins, NEW row \in clients, NEW address \in CL!Addresses,
             NEW p \in Profiles, CL!UpdateClient(a, row, address, p)
      PROVE  (CL!TypeOK /\ RowsInv)'
  <2> DEFINE r == [row EXCEPT !.address = address, !.profile = p]
  <2>1. r \in CL!Client /\ r.id = row.id /\ r.address = address /\ r.profile = p
    <3>1. row \in CL!Client
      BY <1>a
    <3>2. QED
      BY ONLY <3>1, address \in CL!Addresses, p \in Profiles DEF CL!Client
  <2>2. /\ clients' = (clients \ {row}) \cup {r}
        /\ \A o \in clients \ {row} : o.address # address
    BY <1>3 DEF CL!UpdateClient
  <2>3. /\ p \in profiles /\ clientPc' = [clientPc EXCEPT ![a] = "build engine"]
        /\ UNCHANGED <<profiles, policy, lastId, clientEngine, snapshot, seenIps, queue, batch>>
    BY <1>3 DEF CL!UpdateClient
  <2> HIDE DEF r
  <2>4. clients' \subseteq CL!Client
    BY ONLY <1>a, <2>1, <2>2
  <2>5. \A o, q \in clients' : o # q => o.id # q.id /\ o.address # q.address
    <3>1. \A o \in clients' : o = r \/ (o \in clients /\ o # row /\ o.address # address)
      BY ONLY <2>2
    <3>2. QED
      BY ONLY <1>a, <2>1, <3>1, row \in clients
  <2>7. \A o \in clients' : o.profile \in profiles' /\ o.id <= lastId'
    BY ONLY <1>a, <2>1, <2>2, <2>3, row \in clients
  <2>8. RowsInv'
    BY <1>a, <2>3, <2>4, <2>5, <2>7
  <2>6. QED
    BY <1>b, <2>3, <2>4, <2>8 DEF CL!Threads
<1>4. ASSUME NEW a \in Admins, NEW p \in Profiles, CL!CreateProfile(a, p)
      PROVE  (CL!TypeOK /\ RowsInv)'
  BY <1>4 DEF CL!CreateProfile
<1>5. ASSUME NEW a \in Admins, NEW p \in Profiles, CL!DeleteProfile(a, p)
      PROVE  (CL!TypeOK /\ RowsInv)'
  <2> DEFINE Moved(r) == IF r.profile = p THEN [r EXCEPT !.profile = CL!Default] ELSE r
  <2>1. ASSUME NEW r \in clients
        PROVE  /\ Moved(r) \in CL!Client /\ Moved(r).id = r.id /\ Moved(r).address = r.address
               /\ Moved(r).profile \in profiles \ {p}
    <3>1. p # CL!Default /\ r \in CL!Client /\ r.profile \in profiles
      BY <1>5, <1>a DEF CL!DeleteProfile
    <3>2. LET o == [r EXCEPT !.profile = CL!Default] IN
          o \in CL!Client /\ o.id = r.id /\ o.address = r.address /\ o.profile = CL!Default
      <4>1. CL!Default \in Profiles
        BY <1>c
      <4>2. \A o \in CL!Client, q \in Profiles :
              LET x == [o EXCEPT !.profile = q] IN
              x \in CL!Client /\ x.id = o.id /\ x.address = o.address /\ x.profile = q
        BY ONLY ClientIs
      <4>3. QED
        BY ONLY <3>1, <4>1, <4>2
    <3>3. QED
      BY ONLY <1>a, <3>1, <3>2 DEF Moved
  <2>2. clients' = {Moved(r) : r \in clients} /\ profiles' = profiles \ {p}
    BY <1>5 DEF CL!DeleteProfile
  <2>3. /\ clientPc' = [clientPc EXCEPT ![a] = "build engine"] /\ policy' = [policy EXCEPT ![p] = 0]
        /\ CL!Default \in profiles'
        /\ UNCHANGED <<lastId, clientEngine, snapshot, seenIps, queue, batch>>
    BY <1>5 DEF CL!DeleteProfile
  <2> HIDE DEF Moved
  <2>4. clients' \subseteq CL!Client
    BY ONLY <2>1, <2>2
  <2>5. \A o, q \in clients' : o # q => o.id # q.id /\ o.address # q.address
    BY ONLY <1>a, <2>1, <2>2
  <2>8. \A o \in clients' : o.profile \in profiles' /\ o.id <= lastId'
    BY ONLY <1>a, <2>1, <2>2, <2>3
  <2>9. RowsInv'
    BY <1>a, <2>3, <2>4, <2>5, <2>8
  <2>6. policy' \in [Profiles -> Nat] /\ policy \in [Profiles -> Nat]
    BY <2>3
  <2>7. QED
    BY <1>b, <2>2, <2>3, <2>4, <2>6, <2>9 DEF CL!Threads
<1>6. ASSUME NEW a \in Admins, NEW p \in Profiles, CL!UpdateProfile(a, p)
      PROVE  (CL!TypeOK /\ RowsInv)'
  <2>1. /\ clientPc' = [clientPc EXCEPT ![a] = "build engine"]
        /\ policy' = [policy EXCEPT ![p] = @ + 1]
        /\ UNCHANGED <<profiles, clients, lastId, clientEngine, snapshot, seenIps, queue, batch>>
    BY <1>6 DEF CL!UpdateProfile
  <2>2. policy' \in [Profiles -> Nat]
    <3>1. policy \in [Profiles -> Nat]
      OBVIOUS
    <3>2. policy[p] + 1 \in Nat
      BY ONLY <3>1, p \in Profiles
    <3>3. QED
      BY ONLY <2>1, <3>1, <3>2, p \in Profiles
  <2>3. QED
    BY <1>b, <2>1, <2>2 DEF CL!Threads
<1>7. ASSUME NEW a \in Admins, CL!BuildEngine(a) PROVE (CL!TypeOK /\ RowsInv)'
  BY <1>7 DEF CL!BuildEngine
<1>8. ASSUME NEW a \in Admins, CL!BuildEngineFails(a) PROVE (CL!TypeOK /\ RowsInv)'
  BY <1>8 DEF CL!BuildEngineFails
<1>9. ASSUME NEW a \in Admins, CL!PutEngine(a) PROVE (CL!TypeOK /\ RowsInv)'
  BY <1>9 DEF CL!PutEngine, CL!Threads, BuiltInv, Engines
<1>10. ASSUME NEW t \in CL!Threads, CL!Build(t) PROVE (CL!TypeOK /\ RowsInv)'
  BY <1>10 DEF CL!Build
<1>11. ASSUME NEW t \in CL!Threads, CL!BuildFails(t) PROVE (CL!TypeOK /\ RowsInv)'
  BY <1>11 DEF CL!BuildFails
<1>12. ASSUME NEW t \in CL!Threads, CL!Put(t) PROVE (CL!TypeOK /\ RowsInv)'
  BY <1>12 DEF CL!Put, BuiltInv
<1>13. ASSUME NEW ip \in Ips, CL!EnsureClient(ip) PROVE (CL!TypeOK /\ RowsInv)'
  <2>1. /\ seenIps' = seenIps \cup {ip} /\ queue' \in {queue, Append(queue, ip)}
        /\ UNCHANGED <<profiles, policy, clients, lastId, clientEngine, snapshot, batch, clientPc>>
    BY <1>13 DEF CL!EnsureClient
  <2>2. queue' \in Seq(Ips)
    <3>1. queue \in Seq(Ips)
      OBVIOUS
    <3>2. QED
      BY ONLY <2>1, <3>1, ip \in Ips
  <2>3. QED
    BY <2>1, <2>2
<1>14. ASSUME NEW ip \in Ips, CL!Forget(ip) PROVE (CL!TypeOK /\ RowsInv)'
  BY <1>14 DEF CL!Forget
<1>15. CASE CL!TakeBatch
  <2>1. /\ batch' = {queue[i] : i \in DOMAIN queue} /\ queue' = <<>>
        /\ clientPc' = [clientPc EXCEPT ![Worker] = "insert"]
        /\ UNCHANGED <<profiles, policy, clients, lastId, clientEngine, snapshot, seenIps>>
    BY <1>15 DEF CL!TakeBatch
  <2>2. batch' \subseteq Ips /\ queue' \in Seq(Ips)
    <3>1. queue \in Seq(Ips)
      OBVIOUS
    <3>2. \A i \in DOMAIN queue : queue[i] \in Ips
      BY ONLY <3>1
    <3>3. <<>> \in Seq(Ips)
      BY EmptySeq
    <3>4. QED
      BY ONLY <2>1, <3>2, <3>3
  <2>3. QED
    BY <2>1, <2>2
<1>16. CASE CL!Insert
  <2>1. CL!Missing \subseteq Ips /\ \A ip \in CL!Missing, o \in clients : o.address # ip
    BY DEF CL!Missing
  <2>2. CL!Cardinality(CL!Missing) \in Nat
    BY <2>1, AddressesAssumption, CardinalityIs, FS_Subset, FS_CardinalityType
  <2>3. PICK id \in [CL!Missing -> (lastId + 1)..(lastId + CL!Cardinality(CL!Missing))] :
          /\ \A x, y \in CL!Missing : x # y => id[x] # id[y]
          /\ clients' = clients \cup
               {[id |-> id[ip], address |-> ip, profile |-> CL!Default] : ip \in CL!Missing}
    BY <1>16 DEF CL!Insert
  <2> DEFINE New(ip) == [id |-> id[ip], address |-> ip, profile |-> CL!Default]
  <2>4. ASSUME NEW ip \in CL!Missing
        PROVE  /\ New(ip) \in CL!Client /\ New(ip).id = id[ip] /\ New(ip).address = ip
               /\ New(ip).profile = CL!Default
               /\ id[ip] \in Nat /\ id[ip] > lastId /\ id[ip] <= lastId + CL!Cardinality(CL!Missing)
    <3>1. id[ip] \in (lastId + 1)..(lastId + CL!Cardinality(CL!Missing))
      BY ONLY <2>3, <2>4
    <3>2. id[ip] \in Nat /\ id[ip] > lastId /\ id[ip] <= lastId + CL!Cardinality(CL!Missing)
      BY ONLY <1>a, <2>2, <3>1
    <3>3. ip \in CL!Addresses
      BY <2>1 DEF CL!Addresses
    <3>4. QED
      BY ONLY <1>c, <3>2, <3>3, ClientIs DEF New
  <2>5. clients' = clients \cup {New(ip) : ip \in CL!Missing}
    BY <2>3
  <2>6. /\ lastId' = lastId + CL!Cardinality(CL!Missing) /\ batch' = {}
        /\ clientPc' \in {[clientPc EXCEPT ![Worker] = "idle"],
                          [clientPc EXCEPT ![Worker] = "build"]}
        /\ UNCHANGED <<profiles, policy, clientEngine, snapshot, seenIps, queue>>
    BY <1>16 DEF CL!Insert
  <2> HIDE DEF New
  <2>7. clients' \subseteq CL!Client
    BY ONLY <1>a, <2>4, <2>5
  <2>0. \A o \in clients : o.id \in Nat /\ o.id <= lastId
    BY ONLY <1>a, ClientIs
  <2>8. \A r \in clients' : r.profile \in profiles' /\ r.id <= lastId'
    BY ONLY <1>a, <2>0, <2>2, <2>4, <2>5, <2>6
  <2>9. \A r, o \in clients' : r # o => r.id # o.id /\ r.address # o.address
    <3>1. \A r \in clients, ip \in CL!Missing : r.id # New(ip).id /\ r.address # New(ip).address
      BY ONLY <1>a, <2>0, <2>1, <2>4
    <3>2. \A x, y \in CL!Missing :
            New(x) # New(y) => New(x).id # New(y).id /\ New(x).address # New(y).address
      BY ONLY <2>3, <2>4
    <3>3. QED
      BY ONLY <1>a, <2>5, <3>1, <3>2
  <2>12. lastId' \in Nat /\ CL!Default \in profiles'
    BY ONLY <1>c, <2>2, <2>6
  <2>13. snapshot' \subseteq CL!Client
    BY <2>6
  <2>10. RowsInv'
    BY ONLY <2>7, <2>8, <2>9, <2>12, <2>13 DEF RowsInv
  <2>11. QED
    BY <1>b, <2>6, <2>7, <2>10 DEF CL!Threads
<1>17. CASE CL!InsertFails
  BY <1>17 DEF CL!InsertFails
<1>18. CASE UNCHANGED clientVars
  BY <1>18 DEF clientVars
<1>19. QED
  BY <1>1, <1>2, <1>3, <1>4, <1>5, <1>6, <1>7, <1>8, <1>9, <1>10, <1>11, <1>12, <1>13, <1>14,
     <1>15, <1>16, <1>17, <1>18
     DEF CL!Next, CL!Change, CL!WorkerStep, CL!SetProfileServices, CL!AddProfileRule,
         CL!AddBlocklistToProfile, CL!Threads

\* What a change of the tables does to those who bring it further.
Changed(a) ==
    /\ clientPc[a] = "idle" /\ clientPc' = [clientPc EXCEPT ![a] = "build engine"]
    /\ change' = change + 1
    /\ UNCHANGED <<clientEngine, snapshot, clientBuilt, current, troubled>>

LEMMA ChangeIs == ASSUME NEW a \in Admins, CL!Change(a) PROVE Changed(a)
  BY DEF CL!Change, CL!Changes, Changed, CL!Goto, CL!CreateClient, CL!DeleteClient,
         CL!UpdateClient, CL!CreateProfile, CL!DeleteProfile, CL!UpdateProfile,
         CL!SetProfileServices, CL!AddProfileRule, CL!AddBlocklistToProfile

LEMMA NotAbove == \A n \in Nat : n <= n
  OBVIOUS

LEMMA BuiltRecord ==
  ASSUME NEW t \in CL!Threads, NEW what, NEW n,
         clientBuilt = [o \in ClientThreads |-> clientBuilt[o]],
         clientBuilt' = [clientBuilt EXCEPT ![t] = [what |-> what, change |-> n]]
  PROVE  /\ clientBuilt'[t].what = what /\ clientBuilt'[t].change = n
         /\ \A o \in CL!Threads \ {t} : clientBuilt'[o] = clientBuilt[o]
         /\ clientBuilt' = [o \in ClientThreads |-> clientBuilt'[o]]
  BY DEF ClientThreads

LEMMA BuiltStep == CL!TypeOK /\ BuiltInv /\ [CL!Next]_clientVars => BuiltInv'
<1> SUFFICES ASSUME CL!TypeOK, BuiltInv, [CL!Next]_clientVars
             PROVE  BuiltInv'
  OBVIOUS
<1>a. clients \subseteq CL!Client /\ profiles \subseteq Profiles /\ policy \in [Profiles -> Nat]
      /\ clientPc \in [CL!Threads ->
                        {"idle", "build engine", "put engine", "build", "put", "insert"}]
  BY DEF CL!TypeOK
<1>b. change \in Nat /\ current.engine \in Nat /\ current.snapshot \in Nat
      /\ current.engine <= change /\ current.snapshot <= change
  BY DEF BuiltInv
<1>c. ASSUME NEW t \in CL!Threads, NEW place, clientPc' = [clientPc EXCEPT ![t] = place],
             place \notin {"put engine", "put"},
             clientBuilt' = clientBuilt, current' = current, troubled' = troubled,
             change' \in {change, change + 1}
      PROVE  BuiltInv'
  <2>1. change' \in Nat /\ change <= change'
    <3>1. change' = change \/ change' = change + 1
      BY <1>c
    <3>2. change \in Nat
      BY <1>b
    <3>3. QED
      BY ONLY <3>1, <3>2
  <2>2. \A o \in CL!Threads : clientPc'[o] = clientPc[o] \/ clientPc'[o] = place
    BY ONLY <1>a, <1>c
  <2>3. current.engine <= change' /\ current.snapshot <= change'
    BY ONLY <1>b, <2>1
  <2>4. ASSUME NEW o \in ClientThreads, clientPc'[o] \in {"put engine", "put"}
        PROVE  /\ clientPc'[o] = clientPc[o]
               /\ clientBuilt[o].change \in Nat /\ clientBuilt[o].change <= change'
    <3>1. clientPc'[o] = clientPc[o]
      BY <2>2, <2>4, <1>c DEF ClientThreads
    <3>2. clientBuilt[o].change \in Nat /\ clientBuilt[o].change <= change
      BY <2>4, <3>1 DEF BuiltInv
    <3>3. QED
      BY ONLY <1>b, <2>1, <3>1, <3>2
  <2>5. QED
    BY <1>c, <2>1, <2>3, <2>4 DEF BuiltInv
<1>d. ASSUME NEW t \in CL!Threads, NEW place \in {"put engine", "put"}, NEW what,
             place = "put engine" => what \in Engines,
             place = "put" => what \subseteq CL!Client,
             clientPc' = [clientPc EXCEPT ![t] = place],
             clientBuilt' = [clientBuilt EXCEPT ![t] = [what |-> what, change |-> change]],
             UNCHANGED <<change, current>>, troubled' \in BOOLEAN
      PROVE  BuiltInv'
  <2>1. clientBuilt = [o \in ClientThreads |-> clientBuilt[o]]
    BY DEF BuiltInv
  <2>2. /\ clientBuilt'[t].what = what /\ clientBuilt'[t].change = change
        /\ \A o \in CL!Threads \ {t} : clientBuilt'[o] = clientBuilt[o]
        /\ clientBuilt' = [o \in ClientThreads |-> clientBuilt'[o]]
    BY ONLY <1>d, <2>1, BuiltRecord
  <2>3. clientPc'[t] = place /\ \A o \in CL!Threads \ {t} : clientPc'[o] = clientPc[o]
    BY ONLY <1>a, <1>d
  <2>4. ASSUME NEW o \in ClientThreads
        PROVE  /\ clientPc'[o] = "put engine" => clientBuilt'[o].what \in Engines
               /\ clientPc'[o] = "put" => clientBuilt'[o].what \subseteq CL!Client
               /\ clientPc'[o] \in {"put engine", "put"} =>
                    clientBuilt'[o].change \in Nat /\ clientBuilt'[o].change <= change
    <3>1. CASE o = t
      <4>1. clientBuilt'[o].what = what /\ clientBuilt'[o].change = change /\ clientPc'[o] = place
        BY <2>2, <2>3, <3>1
      <4>2. change \in Nat /\ change <= change
        <5>1. change \in Nat
          BY <1>b
        <5>2. QED
          BY ONLY <5>1, NotAbove
      <4>3. QED
        BY <1>d, <4>1, <4>2
    <3>2. CASE o # t
      BY <2>2, <2>3, <2>4, <3>2 DEF BuiltInv, ClientThreads
    <3>3. QED
      BY ONLY <3>1, <3>2
  <2>5. CL!Client' = CL!Client /\ Engines' = Engines
    BY DEF CL!Client, Engines, CL!Addresses
  <2>6. QED
    BY <1>d, <2>2, <2>4, <2>5 DEF BuiltInv
<1> USE DEF BuiltInv, CL!Goto, CL!tables, CL!unknown, ClientThreads, CL!Fault
<1>1. ASSUME NEW a \in Admins, CL!Change(a) PROVE BuiltInv'
  <2>1. Changed(a) /\ a \in CL!Threads
    BY <1>1, ChangeIs DEF CL!Threads
  <2>2. /\ clientPc' = [clientPc EXCEPT ![a] = "build engine"]
        /\ clientBuilt' = clientBuilt /\ current' = current /\ troubled' = troubled
        /\ change' \in {change, change + 1}
    BY ONLY <2>1 DEF Changed
  <2>4. "build engine" \notin {"put engine", "put"}
    OBVIOUS
  <2>3. QED
    BY ONLY <1>c, <2>1, <2>2, <2>4
<1>7. ASSUME NEW a \in Admins, CL!BuildEngine(a) PROVE BuiltInv'
  <2>1. [profiles |-> profiles, policy |-> policy] \in Engines
    BY <1>a DEF Engines
  <2>2. /\ clientPc' = [clientPc EXCEPT ![a] = "put engine"]
        /\ clientBuilt' = [clientBuilt EXCEPT ![a] =
             [what |-> [profiles |-> profiles, policy |-> policy], change |-> change]]
        /\ UNCHANGED <<change, current, troubled>>
    BY <1>7 DEF CL!BuildEngine
  <2>3. a \in CL!Threads
    BY DEF CL!Threads
  <2>4. QED
    BY ONLY <1>d, <2>1, <2>2, <2>3, troubled \in BOOLEAN, BuiltInv DEF BuiltInv
<1>8. ASSUME NEW a \in Admins, CL!BuildEngineFails(a) PROVE BuiltInv'
  BY <1>8, <1>a DEF CL!BuildEngineFails, CL!Threads
<1>9. ASSUME NEW a \in Admins, CL!PutEngine(a) PROVE BuiltInv'
  BY <1>9, <1>a DEF CL!PutEngine, CL!Threads
<1>10. ASSUME NEW t \in CL!Threads, CL!Build(t) PROVE BuiltInv'
  <2>1. /\ clientPc' = [clientPc EXCEPT ![t] = "put"]
        /\ clientBuilt' = [clientBuilt EXCEPT ![t] = [what |-> clients, change |-> change]]
        /\ UNCHANGED <<change, current, troubled>>
    BY <1>10 DEF CL!Build
  <2>2. troubled \in BOOLEAN
    BY DEF BuiltInv
  <2>3. clients \subseteq CL!Client /\ troubled' \in BOOLEAN /\ UNCHANGED <<change, current>>
    BY ONLY <1>a, <2>1, <2>2
  <2>4. QED
    BY ONLY <1>d, <2>1, <2>3, t \in CL!Threads
<1>11. ASSUME NEW t \in CL!Threads, CL!BuildFails(t) PROVE BuiltInv'
  <2>1. /\ clientPc' = [clientPc EXCEPT ![t] = "put"]
        /\ clientBuilt' = [clientBuilt EXCEPT ![t] = [what |-> {}, change |-> change]]
        /\ UNCHANGED <<change, current>> /\ troubled' = TRUE
    BY <1>11 DEF CL!BuildFails
  <2>2. QED
    <3>1. {} \subseteq CL!Client /\ troubled' \in BOOLEAN /\ UNCHANGED <<change, current>>
      BY ONLY <2>1
    <3>2. PICK what : what = {}
      OBVIOUS
    <3>3. what \subseteq CL!Client
          /\ clientBuilt' = [clientBuilt EXCEPT ![t] = [what |-> what, change |-> change]]
      BY ONLY <2>1, <3>1, <3>2
    <3>4. QED
      BY ONLY <1>d, <2>1, <3>1, <3>3, t \in CL!Threads
<1>12. ASSUME NEW t \in CL!Threads, CL!Put(t) PROVE BuiltInv'
  BY <1>12, <1>a DEF CL!Put
<1>13. ASSUME NEW ip \in Ips, CL!EnsureClient(ip) PROVE BuiltInv'
  BY <1>13, <1>a DEF CL!EnsureClient
<1>14. ASSUME NEW ip \in Ips, CL!Forget(ip) PROVE BuiltInv'
  BY <1>14, <1>a DEF CL!Forget
<1>15. CASE CL!TakeBatch
  BY <1>15, <1>a DEF CL!TakeBatch
<1>16. CASE CL!Insert
  <2>1. /\ clientPc' \in {[clientPc EXCEPT ![Worker] = "idle"],
                          [clientPc EXCEPT ![Worker] = "build"]}
        /\ change' \in {change, change + 1}
        /\ UNCHANGED <<clientBuilt, current, troubled>>
    BY <1>16 DEF CL!Insert
  <2>2. Worker \in CL!Threads
    BY DEF CL!Threads
  <2>3. QED
    BY ONLY <1>c, <2>1, <2>2
<1>17. CASE CL!InsertFails
  BY <1>17, <1>a DEF CL!InsertFails
<1>18. CASE UNCHANGED clientVars
  BY <1>18 DEF clientVars
<1>19. QED
  BY <1>1, <1>7, <1>8, <1>9, <1>10, <1>11, <1>12, <1>13, <1>14, <1>15, <1>16, <1>17, <1>18
     DEF CL!Next, CL!WorkerStep, CL!Threads

LEMMA EngineStep ==
  CL!TypeOK /\ BuiltInv /\ EngineFollows /\ [CL!Next]_clientVars => EngineFollows'
<1> SUFFICES ASSUME CL!TypeOK, BuiltInv, EngineFollows, [CL!Next]_clientVars
             PROVE  EngineFollows'
  OBVIOUS
<1>a. /\ clientPc \in [CL!Threads ->
                        {"idle", "build engine", "put engine", "build", "put", "insert"}]
      /\ \A a \in Admins : a \in CL!Threads
  BY DEF CL!TypeOK, CL!Threads
<1> DEFINE Follows(e) ==
      /\ \A t \in ClientThreads :
           clientPc[t] = "put engine" /\ clientBuilt[t].change >= e => clientBuilt[t].what = Truth
      /\ current.engine >= e => clientEngine = Truth
      /\ \/ troubled \/ current.engine >= e
         \/ \E t \in ClientThreads : \/ clientPc[t] = "build engine"
                                     \/ clientPc[t] = "put engine" /\ clientBuilt[t].change >= e
<1>b. PICK e \in 0..change : Follows(e)
  BY DEF EngineFollows
<1>c. ASSUME NEW n \in 0..change', Follows(n)' PROVE EngineFollows'
  BY <1>c DEF EngineFollows
<1>d. e \in Nat /\ change \in Nat /\ e <= change
  <2>1. change \in Nat /\ e \in 0..change
    BY DEF BuiltInv
  <2>2. QED
    BY ONLY <2>1
<1> USE DEF BuiltInv, CL!Goto, CL!tables, CL!unknown, ClientThreads, CL!Fault
<1>1. ASSUME NEW a \in Admins, CL!Change(a) PROVE EngineFollows'
  <2>1. Changed(a) /\ a \in CL!Threads
    BY <1>1, ChangeIs DEF CL!Threads
  <2>2. /\ \A o \in CL!Threads \ {a} : clientPc'[o] = clientPc[o]
        /\ clientPc'[a] = "build engine" /\ clientBuilt' = clientBuilt /\ current' = current
        /\ change' = change + 1
    BY <1>a, <2>1 DEF Changed
  <2>3. \A o \in CL!Threads : clientPc[o] = "put engine" =>
          clientBuilt[o].change \in Nat /\ ~(clientBuilt[o].change >= change + 1)
    <3>1. SUFFICES ASSUME NEW o \in CL!Threads, clientPc[o] = "put engine"
                   PROVE  clientBuilt[o].change \in Nat /\ ~(clientBuilt[o].change >= change + 1)
      OBVIOUS
    <3>2. clientBuilt[o].change \in Nat /\ clientBuilt[o].change <= change
      BY <3>1 DEF BuiltInv
    <3>3. change \in Nat
      BY <1>d
    <3>4. QED
      BY ONLY <3>2, <3>3
  <2>4. ~(current.engine >= change + 1) /\ change' \in 0..change'
    <3>1. current.engine \in Nat /\ current.engine <= change
      BY DEF BuiltInv
    <3>2. change \in Nat /\ change' = change + 1
      BY <1>d, <2>2
    <3>3. QED
      BY ONLY <3>1, <3>2
  <2>5. Follows(change)'
    BY ONLY <2>1, <2>2, <2>3, <2>4 DEF ClientThreads
  <2>6. QED
    BY ONLY <2>4, <2>5 DEF EngineFollows
<1>e. ASSUME e \in 0..change', Follows(e)' PROVE EngineFollows'
  BY <1>c, <1>e
<1>7. ASSUME NEW a \in Admins, CL!BuildEngine(a) PROVE EngineFollows'
  <2>2. /\ clientPc' = [clientPc EXCEPT ![a] = "put engine"]
        /\ clientBuilt' = [clientBuilt EXCEPT ![a] = [what |-> Truth, change |-> change]]
        /\ UNCHANGED <<change, current, troubled, clientEngine>> /\ Truth' = Truth
    BY <1>7 DEF CL!BuildEngine, Truth
  <2>3. a \in CL!Threads
    BY DEF CL!Threads
  <2>4. /\ clientBuilt'[a].what = Truth /\ clientBuilt'[a].change = change
        /\ \A o \in CL!Threads \ {a} : clientBuilt'[o] = clientBuilt[o]
    BY <2>2, <2>3, BuiltRecord
  <2>5. Follows(e)'
    BY <1>a, <1>b, <1>d, <2>2, <2>3, <2>4
  <2>6. QED
    BY <1>e, <2>2, <2>5
<1>8. ASSUME NEW a \in Admins, CL!BuildEngineFails(a) PROVE EngineFollows'
  <2>1. /\ clientPc' = [clientPc EXCEPT ![a] = "idle"] /\ troubled' = TRUE
        /\ UNCHANGED <<change, current, clientBuilt, clientEngine>> /\ Truth' = Truth
    BY <1>8 DEF CL!BuildEngineFails, Truth
  <2>2. Follows(e)'
    BY <1>a, <1>b, <2>1
  <2>3. QED
    BY <1>e, <2>1, <2>2
<1>9. ASSUME NEW a \in Admins, CL!PutEngine(a) PROVE EngineFollows'
  <2>1. /\ clientPc[a] = "put engine" /\ clientPc' = [clientPc EXCEPT ![a] = "build"]
        /\ clientEngine' = clientBuilt[a].what
        /\ current' = [current EXCEPT !.engine = clientBuilt[a].change]
        /\ troubled' = (troubled \/ clientBuilt[a].change < current.engine)
        /\ clientBuilt' = [clientBuilt EXCEPT ![a] = None]
        /\ change' = change /\ Truth' = Truth
    BY <1>9 DEF CL!PutEngine, Truth
  <2>2. /\ \A o \in CL!Threads \ {a} :
             clientBuilt'[o] = clientBuilt[o] /\ clientPc'[o] = clientPc[o]
        /\ clientPc'[a] = "build" /\ a \in CL!Threads
    BY <1>a, <2>1
  <2>3. current'.engine = clientBuilt[a].change
    BY <2>1
  <2>4. clientBuilt[a].change \in Nat /\ current.engine \in Nat
    BY <2>1, <2>2
  <2>5. Follows(e)'
    <3>1. \A t \in CL!Threads :
            clientPc'[t] = "put engine" /\ clientBuilt'[t].change >= e =>
              clientBuilt'[t].what = Truth
      BY ONLY <1>b, <2>2 DEF ClientThreads
    <3>2. current'.engine >= e => clientEngine' = Truth
      BY ONLY <1>b, <2>1, <2>2, <2>3 DEF ClientThreads
    <3>3. CASE troubled \/ clientBuilt[a].change >= e
      BY <2>1, <2>3, <3>1, <3>2, <3>3
    <3>4. CASE ~troubled /\ ~(clientBuilt[a].change >= e) /\ current.engine >= e
      <4>1. clientBuilt[a].change < current.engine
        BY ONLY <1>d, <2>4, <3>4
      <4>2. troubled'
        BY <2>1, <4>1
      <4>3. QED
        BY ONLY <2>1, <3>1, <3>2, <4>2 DEF ClientThreads
    <3>5. CASE ~troubled /\ ~(clientBuilt[a].change >= e) /\ ~(current.engine >= e)
      <4>1. PICK t \in CL!Threads : \/ clientPc[t] = "build engine"
                                    \/ clientPc[t] = "put engine" /\ clientBuilt[t].change >= e
        BY ONLY <1>b, <3>5 DEF ClientThreads
      <4>2. t # a
        BY <2>1, <3>5, <4>1
      <4>3. \E o \in CL!Threads : \/ clientPc'[o] = "build engine"
                                  \/ clientPc'[o] = "put engine" /\ clientBuilt'[o].change >= e
        BY ONLY <2>2, <4>1, <4>2
      <4>4. QED
        BY <2>1, <3>1, <3>2, <4>3
    <3>6. QED
      BY <3>3, <3>4, <3>5
  <2>6. QED
    BY <1>e, <2>1, <2>5
<1>10. ASSUME NEW t \in CL!Threads, CL!Build(t) PROVE EngineFollows'
  <2>1. /\ clientPc[t] = "build" /\ clientPc' = [clientPc EXCEPT ![t] = "put"]
        /\ clientBuilt' = [clientBuilt EXCEPT ![t] = [what |-> clients, change |-> change]]
        /\ UNCHANGED <<change, current, troubled, clientEngine>> /\ Truth' = Truth
    BY <1>10 DEF CL!Build, Truth
  <2>2. /\ \A o \in CL!Threads \ {t} :
             clientBuilt'[o] = clientBuilt[o] /\ clientPc'[o] = clientPc[o]
        /\ clientPc'[t] = "put"
    BY <1>a, <2>1
  <2>3. Follows(e)'
    BY <1>b, <2>1, <2>2
  <2>4. QED
    BY <1>e, <2>1, <2>3
<1>11. ASSUME NEW t \in CL!Threads, CL!BuildFails(t) PROVE EngineFollows'
  <2>1. /\ clientPc[t] = "build" /\ clientPc' = [clientPc EXCEPT ![t] = "put"]
        /\ clientBuilt' = [clientBuilt EXCEPT ![t] = [what |-> {}, change |-> change]]
        /\ UNCHANGED <<change, current, clientEngine>> /\ troubled' = TRUE /\ Truth' = Truth
    BY <1>11 DEF CL!BuildFails, Truth
  <2>2. /\ \A o \in CL!Threads \ {t} :
             clientBuilt'[o] = clientBuilt[o] /\ clientPc'[o] = clientPc[o]
        /\ clientPc'[t] = "put"
    BY <1>a, <2>1
  <2>3. Follows(e)'
    BY <1>b, <2>1, <2>2
  <2>4. QED
    BY <1>e, <2>1, <2>3
<1>12. ASSUME NEW t \in CL!Threads, CL!Put(t) PROVE EngineFollows'
  <2>1. /\ clientPc[t] = "put" /\ clientPc' = [clientPc EXCEPT ![t] = "idle"]
        /\ clientBuilt' = [clientBuilt EXCEPT ![t] = None]
        /\ current' = [current EXCEPT !.snapshot = clientBuilt[t].change]
        /\ troubled' = (troubled \/ clientBuilt[t].change < current.snapshot)
        /\ UNCHANGED <<change, clientEngine>> /\ Truth' = Truth
    BY <1>12 DEF CL!Put, Truth
  <2>2. /\ \A o \in CL!Threads \ {t} :
             clientBuilt'[o] = clientBuilt[o] /\ clientPc'[o] = clientPc[o]
        /\ clientPc'[t] = "idle" /\ current'.engine = current.engine
    BY <1>a, <2>1
  <2>3. Follows(e)'
    BY <1>b, <2>1, <2>2
  <2>4. QED
    BY <1>e, <2>1, <2>3
<1>13. ASSUME NEW ip \in Ips, CL!EnsureClient(ip) PROVE EngineFollows'
  BY <1>13, <1>b, <1>e DEF CL!EnsureClient, Truth
<1>14. ASSUME NEW ip \in Ips, CL!Forget(ip) PROVE EngineFollows'
  BY <1>14, <1>b, <1>e DEF CL!Forget, Truth
<1>f. ASSUME clientPc' = [clientPc EXCEPT ![Worker] = "insert"]
             \/ clientPc' = [clientPc EXCEPT ![Worker] = "build"]
             \/ clientPc' = [clientPc EXCEPT ![Worker] = "idle"],
             clientPc[Worker] \in {"idle", "insert"},
             change' \in {change, change + 1},
             UNCHANGED <<clientBuilt, current, troubled, clientEngine, profiles, policy>>
      PROVE  EngineFollows'
  <2>1. /\ \A o \in CL!Threads : clientPc'[o] = clientPc[o] \/ o = Worker
        /\ clientPc'[Worker] \notin {"put engine", "build engine"} /\ Worker \in CL!Threads
    BY <1>a, <1>f DEF CL!Threads
  <2>2. Follows(e)'
    BY <1>b, <1>f, <2>1 DEF Truth
  <2>3. e \in 0..change'
    BY ONLY <1>d, <1>f
  <2>4. QED
    BY ONLY <1>e, <2>2, <2>3
<1>15. CASE CL!TakeBatch
  BY <1>15, <1>f DEF CL!TakeBatch
<1>16. CASE CL!Insert
  BY <1>16, <1>f DEF CL!Insert
<1>17. CASE CL!InsertFails
  BY <1>17, <1>f DEF CL!InsertFails
<1>18. CASE UNCHANGED clientVars
  BY <1>18, <1>b, <1>e DEF clientVars, Truth
<1>19. QED
  BY <1>1, <1>7, <1>8, <1>9, <1>10, <1>11, <1>12, <1>13, <1>14, <1>15, <1>16, <1>17, <1>18
     DEF CL!Next, CL!WorkerStep, CL!Threads

LEMMA SnapshotStep ==
  CL!TypeOK /\ BuiltInv /\ SnapshotFollows /\ [CL!Next]_clientVars => SnapshotFollows'
<1> SUFFICES ASSUME CL!TypeOK, BuiltInv, SnapshotFollows, [CL!Next]_clientVars
             PROVE  SnapshotFollows'
  OBVIOUS
<1>a. /\ clientPc \in [CL!Threads ->
                        {"idle", "build engine", "put engine", "build", "put", "insert"}]
      /\ \A a \in Admins : a \in CL!Threads
  BY DEF CL!TypeOK, CL!Threads
<1>b. change \in Nat /\ current.snapshot \in Nat /\ current.snapshot <= change
  BY DEF BuiltInv
<1>c. ASSUME NEW o \in CL!Threads, clientPc[o] = "put"
      PROVE  clientBuilt[o].change \in Nat /\ clientBuilt[o].change <= change
  BY <1>c DEF BuiltInv, ClientThreads
<1>d. clientBuilt = [o \in ClientThreads |-> clientBuilt[o]]
  BY DEF BuiltInv
\* A step that leaves the tables alone and puts nothing.
<1>e. ASSUME NEW t \in CL!Threads, clientPc'[t] # "put",
             clientPc[t] \in {"build engine", "put engine", "build"}
               => clientPc'[t] \in {"build engine", "put engine", "build"} \/ troubled',
             clientPc[t] # "put",
             \A o \in CL!Threads \ {t} :
               clientPc'[o] = clientPc[o] /\ clientBuilt'[o] = clientBuilt[o],
             UNCHANGED <<change, clients, snapshot>>, current'.snapshot = current.snapshot,
             troubled => troubled'
      PROVE  SnapshotFollows'
  <2>1. CASE troubled'
    BY <2>1 DEF SnapshotFollows
  <2>2. CASE ~troubled'
    BY <1>e, <2>2 DEF SnapshotFollows, ClientThreads
  <2>3. QED
    BY <2>1, <2>2
\* A step after which someone builds what has just changed.
<1>f. ASSUME NEW t \in CL!Threads, clientPc'[t] \in {"build engine", "build"},
             \A o \in CL!Threads \ {t} : clientPc'[o] = clientPc[o],
             clientBuilt' = clientBuilt, change' = change + 1, current' = current
      PROVE  SnapshotFollows'
  <2>1. \A o \in ClientThreads : clientPc'[o] = "put" => clientBuilt'[o].change # change'
    <3>1. SUFFICES ASSUME NEW o \in CL!Threads, clientPc'[o] = "put"
                   PROVE  clientBuilt[o].change # change + 1
      BY <1>f DEF ClientThreads
    <3>2. clientPc[o] = "put"
      BY <1>f, <3>1
    <3>3. clientBuilt[o].change \in Nat /\ clientBuilt[o].change <= change
      BY <1>c, <3>2
    <3>4. change \in Nat
      BY <1>b
    <3>5. QED
      BY ONLY <3>3, <3>4
  <2>2. current'.snapshot # change'
    <3>1. current'.snapshot = current.snapshot /\ change' = change + 1
      BY <1>f
    <3>2. QED
      BY ONLY <1>b, <3>1
  <2>3. QED
    BY <1>f, <2>1, <2>2 DEF SnapshotFollows, ClientThreads
\* A step that builds the snapshot.
<1>g. ASSUME NEW t \in CL!Threads, NEW what, clientPc' = [clientPc EXCEPT ![t] = "put"],
             clientPc[t] = "build",
             clientBuilt' = [clientBuilt EXCEPT ![t] = [what |-> what, change |-> change]],
             UNCHANGED <<change, clients, snapshot, current>>,
             troubled' \/ (what = clients /\ UNCHANGED troubled)
      PROVE  SnapshotFollows'
  <2>1. /\ clientBuilt'[t].what = what /\ clientBuilt'[t].change = change
        /\ \A o \in CL!Threads \ {t} : clientBuilt'[o] = clientBuilt[o]
    <3>1. clientBuilt' = [clientBuilt EXCEPT ![t] = [what |-> what, change |-> change]]
      BY <1>g
    <3>2. QED
      BY ONLY <1>d, <3>1, BuiltRecord
  <2>2. clientPc'[t] = "put" /\ \A o \in CL!Threads \ {t} : clientPc'[o] = clientPc[o]
    BY ONLY <1>a, <1>g
  <2>3. CASE troubled'
    BY <2>3 DEF SnapshotFollows
  <2>4. CASE ~troubled'
    <3>1. ~troubled /\ what = clients /\ change' = change /\ clients' = clients
          /\ snapshot' = snapshot /\ current' = current /\ clientPc[t] = "build"
      BY <1>g, <2>4
    <3>2. \A o \in CL!Threads : clientPc'[o] = "put" /\ clientBuilt'[o].change = change =>
            clientBuilt'[o].what = clients
      BY ONLY <2>1, <2>2, <3>1, SnapshotFollows DEF SnapshotFollows, ClientThreads
    <3>3. \E o \in CL!Threads : clientPc'[o] = "put" /\ clientBuilt'[o].change = change
      BY ONLY <2>1, <2>2, t \in CL!Threads
    <3>4. current.snapshot = change => snapshot = clients
      BY ONLY <3>1, SnapshotFollows DEF SnapshotFollows
    <3>5. QED
      BY ONLY <3>1, <3>2, <3>3, <3>4 DEF SnapshotFollows, ClientThreads
  <2>5. QED
    BY <2>3, <2>4
<1>h. Worker \in CL!Threads
  BY DEF CL!Threads
<1> USE DEF CL!Goto, CL!tables, CL!unknown, CL!Fault
<1>1. ASSUME NEW a \in Admins, CL!Change(a) PROVE SnapshotFollows'
  <2>1. Changed(a) /\ a \in CL!Threads
    BY <1>1, <1>a, ChangeIs
  <2>2. QED
    BY <1>a, <1>f, <2>1 DEF Changed
<1>7. ASSUME NEW a \in Admins, CL!BuildEngine(a) PROVE SnapshotFollows'
  <2>1. /\ clientPc[a] = "build engine" /\ clientPc' = [clientPc EXCEPT ![a] = "put engine"]
        /\ \A o \in CL!Threads \ {a} : clientBuilt'[o] = clientBuilt[o]
        /\ UNCHANGED <<change, clients, snapshot, current, troubled>>
    BY <1>7, <1>d DEF CL!BuildEngine, ClientThreads
  <2>2. QED
    BY <1>a, <1>e, <2>1
<1>8. ASSUME NEW a \in Admins, CL!BuildEngineFails(a) PROVE SnapshotFollows'
  BY <1>8, <1>a, <1>e DEF CL!BuildEngineFails
<1>9. ASSUME NEW a \in Admins, CL!PutEngine(a) PROVE SnapshotFollows'
  <2>1. /\ clientPc[a] = "put engine" /\ clientPc' = [clientPc EXCEPT ![a] = "build"]
        /\ \A o \in CL!Threads \ {a} : clientBuilt'[o] = clientBuilt[o]
        /\ UNCHANGED <<change, clients, snapshot>> /\ (troubled => troubled')
        /\ current' = [current EXCEPT !.engine = clientBuilt[a].change]
    BY <1>9, <1>d DEF CL!PutEngine, ClientThreads
  <2>2. current'.snapshot = current.snapshot
    BY <2>1 DEF BuiltInv
  <2>3. clientPc'[a] = "build" /\ \A o \in CL!Threads \ {a} : clientPc'[o] = clientPc[o]
    BY ONLY <1>a, <2>1
  <2>4. /\ UNCHANGED <<change, clients, snapshot>> /\ (troubled => troubled')
        /\ clientPc[a] # "put" /\ a \in CL!Threads
    BY <1>a, <2>1
  <2>5. QED
    BY ONLY <1>e, <2>1, <2>2, <2>3, <2>4
<1>10. ASSUME NEW t \in CL!Threads, CL!Build(t) PROVE SnapshotFollows'
  BY <1>10, <1>g DEF CL!Build
<1>11. ASSUME NEW t \in CL!Threads, CL!BuildFails(t) PROVE SnapshotFollows'
  BY <1>11, <1>g DEF CL!BuildFails
<1>12. ASSUME NEW t \in CL!Threads, CL!Put(t) PROVE SnapshotFollows'
  <2>1. /\ clientPc[t] = "put" /\ clientPc' = [clientPc EXCEPT ![t] = "idle"]
        /\ clientBuilt' = [clientBuilt EXCEPT ![t] = None]
        /\ snapshot' = clientBuilt[t].what
        /\ current' = [current EXCEPT !.snapshot = clientBuilt[t].change]
        /\ troubled' = (troubled \/ clientBuilt[t].change < current.snapshot)
        /\ UNCHANGED <<change, clients>>
    BY <1>12 DEF CL!Put
  <2>2. /\ clientPc'[t] = "idle" /\ current'.snapshot = clientBuilt[t].change
        /\ \A o \in CL!Threads \ {t} :
             clientPc'[o] = clientPc[o] /\ clientBuilt'[o] = clientBuilt[o]
    BY <1>a, <1>d, <2>1 DEF BuiltInv, ClientThreads
  <2>3. clientBuilt[t].change \in Nat /\ clientBuilt[t].change <= change
    BY <1>c, <2>1
  <2>4. CASE troubled'
    BY <2>4 DEF SnapshotFollows
  <2>5. CASE ~troubled' /\ clientBuilt[t].change = change
    BY <2>1, <2>2, <2>5 DEF SnapshotFollows, ClientThreads
  <2>6. CASE ~troubled' /\ clientBuilt[t].change # change
    <3>1. ~troubled /\ ~(clientBuilt[t].change < current.snapshot)
      BY <2>1, <2>6
    <3>2. current.snapshot # change
      BY ONLY <1>b, <2>3, <2>6, <3>1
    <3>3. PICK o \in CL!Threads : \/ clientPc[o] \in {"build engine", "put engine", "build"}
                                  \/ clientPc[o] = "put" /\ clientBuilt[o].change = change
      BY ONLY <3>1, <3>2, SnapshotFollows DEF SnapshotFollows, ClientThreads
    <3>4. o # t
      BY <2>1, <2>6, <3>3
    <3>5. \E q \in CL!Threads :
            \/ clientPc'[q] \in {"build engine", "put engine", "build"}
            \/ clientPc'[q] = "put" /\ clientBuilt'[q].change = change
      BY ONLY <2>2, <3>3, <3>4
    <3>6. current'.snapshot # change
      BY <2>2, <2>6
    <3>7. \A q \in CL!Threads : clientPc'[q] = "put" /\ clientBuilt'[q].change = change =>
            clientBuilt'[q].what = clients
      BY ONLY <2>2, <3>1, SnapshotFollows DEF SnapshotFollows, ClientThreads
    <3>8. QED
      BY <2>1, <3>5, <3>6, <3>7 DEF SnapshotFollows, ClientThreads
  <2>7. QED
    BY <2>4, <2>5, <2>6
<1>13. ASSUME NEW ip \in Ips, CL!EnsureClient(ip) PROVE SnapshotFollows'
  BY <1>13 DEF CL!EnsureClient, SnapshotFollows
<1>14. ASSUME NEW ip \in Ips, CL!Forget(ip) PROVE SnapshotFollows'
  BY <1>14 DEF CL!Forget, SnapshotFollows
<1>15. CASE CL!TakeBatch
  BY <1>15, <1>a, <1>e, <1>h DEF CL!TakeBatch
<1>16. CASE CL!Insert
  <2>1. CASE CL!Missing = {}
    <3>1. PICK id \in [CL!Missing -> (lastId + 1)..(lastId + CL!Cardinality(CL!Missing))] :
            clients' = clients \cup
              {[id |-> id[ip], address |-> ip, profile |-> CL!Default] : ip \in CL!Missing}
      BY <1>16 DEF CL!Insert
    <3>2. clients' = clients
      BY <2>1, <3>1
    <3>3. /\ clientPc[Worker] = "insert" /\ clientPc' = [clientPc EXCEPT ![Worker] = "idle"]
          /\ UNCHANGED <<change, clientBuilt, current, troubled, snapshot>>
      BY <1>16, <2>1 DEF CL!Insert
    <3>4. QED
      BY <1>a, <1>e, <1>h, <3>2, <3>3
  <2>2. CASE CL!Missing # {}
    <3>1. /\ clientPc' = [clientPc EXCEPT ![Worker] = "build"] /\ change' = change + 1
          /\ UNCHANGED <<clientBuilt, current>>
      BY <1>16, <2>2 DEF CL!Insert
    <3>2. QED
      BY <1>a, <1>f, <1>h, <3>1
  <2>3. QED
    BY <2>1, <2>2
<1>17. CASE CL!InsertFails
  BY <1>17, <1>a, <1>e, <1>h DEF CL!InsertFails
<1>18. CASE UNCHANGED clientVars
  BY <1>18 DEF clientVars, SnapshotFollows
<1>19. QED
  BY <1>1, <1>7, <1>8, <1>9, <1>10, <1>11, <1>12, <1>13, <1>14, <1>15, <1>16, <1>17, <1>18
     DEF CL!Next, CL!WorkerStep, CL!Threads

LEMMA ClientsStep == ClientsInv /\ [CL!Next]_clientVars => ClientsInv'
  BY RowsStep, BuiltStep, EngineStep, SnapshotStep DEF ClientsInv

LEMMA ClientsInit == CL!Init => ClientsInv
<1> SUFFICES ASSUME CL!Init PROVE ClientsInv
  OBVIOUS
<1>1. PICK s \in ClientScenes : clients = s.clients /\ profiles = s.profiles
  BY DEF CL!Init
<1>2. /\ lastId = CL!Cardinality(clients) /\ snapshot = clients
      /\ policy = [p \in Profiles |-> 0]
      /\ clientEngine = [profiles |-> profiles, policy |-> policy]
      /\ seenIps = {} /\ queue = <<>> /\ batch = {} /\ change = 0
      /\ current = [engine |-> 0, snapshot |-> 0] /\ troubled = FALSE
      /\ clientPc = [t \in CL!Threads |-> "idle"] /\ clientBuilt = [t \in CL!Threads |-> None]
  BY DEF CL!Init
<1>3. /\ profiles \subseteq Profiles /\ CL!Default \in profiles
      /\ clients \subseteq CL!Client /\ IsFiniteSet(clients)
      /\ \A r \in clients : r.profile \in profiles /\ r.id <= Cardinality(clients)
      /\ \A r, o \in clients : r # o => r.id # o.id /\ r.address # o.address
  BY <1>1, ScenesAssumption
<1>4. lastId = Cardinality(clients) /\ lastId \in Nat
  BY <1>2, <1>3, CardinalityIs, FS_CardinalityType
<1>5. RowsInv
  BY <1>2, <1>3, <1>4 DEF RowsInv
<1>6. CL!TypeOK
  <2>1. policy \in [Profiles -> Nat]
    BY <1>2
  <2>2. queue \in Seq(Ips)
    BY <1>2, EmptySeq
  <2>3. QED
    BY <1>2, <1>3, <1>5, <2>1, <2>2 DEF CL!TypeOK, RowsInv
<1>7. BuiltInv
  <2>1. change = 0 /\ current.engine = 0 /\ current.snapshot = 0 /\ troubled = FALSE
        /\ current \in [engine : Nat, snapshot : Nat]
    BY <1>2
  <2>2. clientBuilt = [t \in ClientThreads |-> clientBuilt[t]]
        /\ \A t \in ClientThreads : clientPc[t] = "idle"
    BY <1>2 DEF ClientThreads
  <2>3. QED
    <3>1. change \in Nat /\ current.engine <= change /\ current.snapshot <= change
      BY ONLY <2>1
    <3>2. troubled \in BOOLEAN
      BY ONLY <2>1
    <3>3. \A t \in ClientThreads : clientPc[t] # "put engine" /\ clientPc[t] # "put"
      BY ONLY <2>2
    <3>4. QED
      BY ONLY <2>1, <2>2, <3>1, <3>2, <3>3 DEF BuiltInv
<1>8. EngineFollows
  BY <1>2 DEF EngineFollows, ClientThreads, Truth
<1>9. SnapshotFollows
  BY <1>2 DEF SnapshotFollows, ClientThreads
<1>10. QED
  BY <1>5, <1>6, <1>7, <1>8, <1>9 DEF ClientsInv

LEMMA ClientsAreCurrentIs == ClientsInv => CL!ClientsAreCurrent
<1> SUFFICES ASSUME ClientsInv PROVE CL!ClientsAreCurrent
  OBVIOUS
<1> USE DEF ClientsInv
<1>1. CL!ProfilesExist
  BY DEF RowsInv, CL!ProfilesExist
<1>2. CL!RequestsFollow
  <2>1. SUFFICES ASSUME \A t \in CL!Threads : clientPc[t] = "idle", ~troubled
                 PROVE  snapshot = clients /\ clientEngine = Truth
    BY DEF CL!RequestsFollow, Truth
  <2>2. QED
    BY <2>1 DEF EngineFollows, SnapshotFollows, ClientThreads
<1>3. CL!LookupsAgree
  <2> SUFFICES ASSUME NEW ip \in Ips
               PROVE  \/ CL!Lookup(clients, ip) = CL!GetClientByIp(ip)
                      \/ \E r \in clients : r.address = ip /\ r.id > CL!GetClientByIp(ip).id
    BY DEF CL!LookupsAgree
  <2> DEFINE rows == {r \in clients : CL!Covers(r, ip)}
             exact == {r \in clients : r.address = ip}
  <2>1. /\ CL!GetClientByIp(ip) = IF rows = {} THEN None ELSE CL!Oldest(rows)
        /\ CL!Lookup(clients, ip) = IF exact # {} THEN CL!Oldest(exact)
                                    ELSE IF rows # {} THEN CL!Oldest(rows) ELSE None
    BY DEF CL!GetClientByIp, CL!Lookup
  <2>2. exact \subseteq rows /\ rows \subseteq clients
    BY DEF CL!Covers
  <2>3. CASE exact = {}
    BY <2>1, <2>3
  <2>4. ASSUME NEW e \in exact PROVE CL!Lookup(clients, ip) = e
    <3>1. \A r \in exact : r = e
      BY <2>4 DEF RowsInv
    <3>2. e.id <= e.id
      <4>1. e.id \in Nat
        BY <2>4, ClientIs DEF RowsInv
      <4>2. QED
        BY ONLY <4>1, NotAbove
    <3>3. CL!Oldest(exact) = e
      BY <2>4, <3>1, <3>2 DEF CL!Oldest
    <3>4. QED
      BY <2>1, <2>4, <3>3
  <2>5. ASSUME NEW e \in exact
        PROVE  CL!GetClientByIp(ip) = e \/ e.id > CL!GetClientByIp(ip).id
    <3>1. \A r \in rows : r = e \/ r.address = Net
      BY <2>5 DEF RowsInv, CL!Covers
    <3>2. \A r, o \in rows : r.address = Net /\ o.address = Net => r = o
      BY <2>2 DEF RowsInv
    <3>3. \A r \in rows : r.id \in Nat
      BY <2>2, ClientIs DEF RowsInv
    <3>4. e \in rows
      BY <2>2
    <3>5. CASE \A r \in rows : e.id <= r.id
      <4>1. \A r \in rows : (\A o \in rows : r.id <= o.id) => r = e
        <5>1. SUFFICES ASSUME NEW r \in rows, \A o \in rows : r.id <= o.id, r # e PROVE FALSE
          OBVIOUS
        <5>2. r.id <= e.id /\ e.id <= r.id /\ r.id \in Nat /\ e.id \in Nat
          BY <3>3, <3>4, <3>5, <5>1
        <5>3. r.id = e.id
          BY ONLY <5>2
        <5>4. r.id # e.id
          BY <2>2, <3>4, <5>1 DEF RowsInv
        <5>5. QED
          BY <5>3, <5>4
      <4>2. CL!Oldest(rows) = e
        BY <3>4, <3>5, <4>1 DEF CL!Oldest
      <4>3. QED
        BY <2>1, <3>4, <4>2
    <3>6. ASSUME NEW n \in rows, ~(e.id <= n.id)
          PROVE  e.id > CL!GetClientByIp(ip).id
      <4>1. n # e /\ n.address = Net /\ n.id < e.id
        BY <3>1, <3>3, <3>4, <3>6
      <4>2. \A r \in rows : r = e \/ r = n
        BY <3>1, <3>2, <4>1
      <4>3. \A r \in rows : n.id <= r.id
        BY <3>3, <3>4, <4>1, <4>2
      <4>4. \A r \in rows : (\A o \in rows : r.id <= o.id) => r = n
        BY <3>3, <3>4, <3>6, <4>1, <4>2
      <4>5. CL!Oldest(rows) = n
        BY <4>3, <4>4 DEF CL!Oldest
      <4>6. QED
        BY <2>1, <3>3, <3>4, <4>1, <4>5
    <3>7. QED
      BY <3>5, <3>6
  <2>6. QED
    BY <2>3, <2>4, <2>5
<1>4. QED
  BY <1>1, <1>2, <1>3 DEF CL!ClientsAreCurrent

\* However many admins and clients there are: no client is left with a profile that
\* was deleted, the two lookups agree on a client's row, and when all threads are done
\* queries are answered from what the tables hold, unless a rebuild failed or was
\* overtaken by an older one.
THEOREM ClientsCurrent == PartsSpec => []ClientsAreCurrent
<1> DEFINE Inv == part = "clients" => ClientsInv
           all == <<part, actor, vars, clientVars>>
<1>1. PartsInit => Inv
  BY ClientsInit DEF PartsInit
<1>2. Inv /\ [PartsNext]_all => Inv'
  <2> SUFFICES ASSUME Inv, [PartsNext]_all, part' = "clients" PROVE ClientsInv'
    OBVIOUS
  <2>1. part = "clients" /\ [CL!Next]_clientVars
    BY DEF PartsNext
  <2>2. QED
    BY <2>1, ClientsStep
<1>3. Inv => ClientsAreCurrent
  BY ClientsAreCurrentIs DEF ClientsAreCurrent
<1>4. QED
  BY <1>1, <1>2, <1>3, PTL DEF PartsSpec
=============================================================================
