-------------------------------- MODULE Clients --------------------------------
(***************************************************************************)
(* Clients and their profiles (client_manager.py), and the snapshot of     *)
(* both from which queries are answered (app.py, ensure_client and         *)
(* reload_client_state).                                                   *)
(*                                                                         *)
(* A change is one transaction; after it the thread that made it rebuilds  *)
(* the filter engine and then the snapshot.  Nothing keeps two rebuilds    *)
(* apart.  A client that no row covers is put into a queue once in five    *)
(* minutes, and a worker makes the row.                                    *)
(*                                                                         *)
(* An address is an IP or the network Net, which covers the IPs Inside.    *)
(* What a profile blocks is a version of its policy.                       *)
(***************************************************************************)
EXTENDS Naturals, Sequences, FiniteSets

CONSTANTS
    Ips, Inside,    \* the addresses of clients; those in the network
    Net,
    Profiles,       \* ids, numbers; the first is the default one
    Admins,         \* threads of the web interface
    Worker,         \* unknown_client_worker
    QueueMax,       \* size of unknown_client_queue
    Scenes,         \* bound: [profiles, clients, ops, changes, faults]
    None

Default == CHOOSE p \in Profiles : \A q \in Profiles : p <= q
Addresses == Ips \cup {Net}
Threads == Admins \cup {Worker}
Client == [id : Nat, address : Addresses, profile : Profiles]

VARIABLES
    profiles,   \* table profiles: the ids
    policy,     \* what each profile blocks
    clients,    \* table clients: a set of rows
    lastId,
    engine,     \* what the filter engine holds: profiles and policies
    snapshot,   \* _client_snapshot: rows
    seen,       \* unknown_client_seen: in the last five minutes
    queue,      \* unknown_client_queue
    batch,      \* what the worker took out of it
    pc,         \* where each thread is
    built,      \* what it built and has not put in place yet
    change,     \* counts the changes
    current,    \* the last change that engine and snapshot know of
    troubled,   \* a rebuild failed, or an older one was put in place last
    ops, budget \* bound: what this behaviour may do, and how often

vars == <<profiles, policy, clients, lastId, engine, snapshot, seen, queue, batch, pc, built,
          change, current, troubled, ops, budget>>
tables == <<profiles, policy, clients, lastId>>
unknown == <<seen, queue, batch>>

TypeOK ==
    /\ profiles \subseteq Profiles /\ policy \in [Profiles -> Nat]
    /\ clients \subseteq Client /\ snapshot \subseteq Client
    /\ engine \in [profiles : SUBSET Profiles, policy : [Profiles -> Nat]]
    /\ seen \subseteq Ips /\ queue \in Seq(Ips) /\ batch \subseteq Ips
    /\ pc \in [Threads -> {"idle", "build engine", "put engine", "build", "put", "insert"}]

Init ==
    /\ \E s \in Scenes :
        /\ clients = s.clients
        /\ profiles = s.profiles
        /\ ops = s.ops /\ budget = [changes |-> s.changes, faults |-> s.faults]
    /\ policy = [p \in Profiles |-> 0]
    /\ lastId = Cardinality(clients)
    /\ engine = [profiles |-> profiles, policy |-> policy] /\ snapshot = clients
    /\ seen = {} /\ queue = <<>> /\ batch = {}
    /\ pc = [t \in Threads |-> "idle"] /\ built = [t \in Threads |-> None]
    /\ change = 0 /\ current = [engine |-> 0, snapshot |-> 0] /\ troubled = FALSE

Goto(t, place) == pc' = [pc EXCEPT ![t] = place]
Fault == budget.faults > 0 /\ budget' = [budget EXCEPT !.faults = @ - 1]

Covers(row, ip) == row.address = ip \/ (row.address = Net /\ ip \in Inside)
Oldest(S) == CHOOSE r \in S : \A o \in S : r.id <= o.id
\* lookup_client_snapshot: the row of the IP, else the first network.
Lookup(table, ip) ==
    LET exact == {r \in table : r.address = ip}
        nets == {r \in table : Covers(r, ip)}
    IN IF exact # {} THEN Oldest(exact) ELSE IF nets # {} THEN Oldest(nets) ELSE None
\* get_client_by_ip, for the explanations: the first row that covers it.
GetClientByIp(ip) ==
    LET rows == {r \in clients : Covers(r, ip)} IN IF rows = {} THEN None ELSE Oldest(rows)

-----------------------------------------------------------------------------
(* The changes: each a transaction, then _notify *)

Changes(a, op) ==
    /\ op \in ops /\ budget.changes > 0 /\ pc[a] = "idle"
    /\ budget' = [budget EXCEPT !.changes = @ - 1]
    /\ change' = change + 1 /\ Goto(a, "build engine")
    /\ UNCHANGED <<engine, snapshot, unknown, built, current, troubled, ops>>

\* A bug: foreign keys are not enforced.
MayReferAny(p) == TRUE
\* A profile that does not exist is refused: PRAGMA foreign_keys=ON.
MayRefer(p) == p \in profiles

\* INSERT OR REPLACE: a row of the same address goes, and its id with it.
CreateClient(a, address, p) ==
    /\ Changes(a, "client") /\ MayRefer(p)
    /\ lastId' = lastId + 1
    /\ clients' = {r \in clients : r.address # address}
                    \cup {[id |-> lastId + 1, address |-> address, profile |-> p]}
    /\ UNCHANGED <<profiles, policy>>
\* A form that was opened before may name a profile that is gone.
UpdateClient(a, row, address, p) ==
    /\ Changes(a, "client") /\ MayRefer(p)
    /\ \A r \in clients \ {row} : r.address # address
    /\ clients' = (clients \ {row}) \cup {[row EXCEPT !.address = address, !.profile = p]}
    /\ UNCHANGED <<profiles, policy, lastId>>
DeleteClient(a, row) ==
    /\ Changes(a, "client")
    /\ clients' = clients \ {row}
    /\ UNCHANGED <<profiles, policy, lastId>>

CreateProfile(a, p) ==
    /\ Changes(a, "profile") /\ p \notin profiles
    /\ profiles' = profiles \cup {p}
    /\ UNCHANGED <<policy, clients, lastId>>
\* Its clients get the default profile, in the same transaction.
DeleteProfile(a, p) ==
    /\ Changes(a, "profile") /\ p \in profiles \ {Default}
    /\ profiles' = profiles \ {p}
    /\ clients' = {IF r.profile = p THEN [r EXCEPT !.profile = Default] ELSE r : r \in clients}
    /\ policy' = [policy EXCEPT ![p] = 0]
    /\ UNCHANGED lastId
\* Switches and safe search; services; rules; lists: what the profile blocks.
UpdateProfile(a, p) ==
    /\ Changes(a, "profile") /\ p \in profiles
    /\ policy' = [policy EXCEPT ![p] = @ + 1]
    /\ UNCHANGED <<profiles, clients, lastId>>
SetProfileServices(a, p) == UpdateProfile(a, p)
AddProfileRule(a, p) == UpdateProfile(a, p)
AddBlocklistToProfile(a, p) == UpdateProfile(a, p)

-----------------------------------------------------------------------------
(* reload_client_state, and reload_client_snapshot alone for the worker *)

BuildEngine(a) ==
    /\ pc[a] = "build engine"
    /\ built' = [built EXCEPT ![a] = [what |-> [profiles |-> profiles, policy |-> policy],
                                      change |-> change]]
    /\ Goto(a, "put engine")
    /\ UNCHANGED <<tables, engine, snapshot, unknown, change, current, troubled, ops, budget>>
\* The exception ends the request: the snapshot is not rebuilt, either.
BuildEngineFails(a) ==
    /\ pc[a] = "build engine" /\ Fault
    /\ Goto(a, "idle") /\ troubled' = TRUE
    /\ UNCHANGED <<tables, engine, snapshot, unknown, built, change, current, ops>>
PutEngine(a) ==
    /\ pc[a] = "put engine"
    /\ engine' = built[a].what
    /\ current' = [current EXCEPT !.engine = built[a].change]
    /\ troubled' = (troubled \/ built[a].change < current.engine)
    /\ built' = [built EXCEPT ![a] = None] /\ Goto(a, "build")
    /\ UNCHANGED <<tables, snapshot, unknown, change, ops, budget>>

Build(t) ==
    /\ pc[t] = "build"
    /\ built' = [built EXCEPT ![t] = [what |-> clients, change |-> change]]
    /\ Goto(t, "put")
    /\ UNCHANGED <<tables, engine, snapshot, unknown, change, current, troubled, ops, budget>>
\* build_client_snapshot swallows the exception: the snapshot is empty.
BuildFails(t) ==
    /\ pc[t] = "build" /\ Fault
    /\ built' = [built EXCEPT ![t] = [what |-> {}, change |-> change]]
    /\ Goto(t, "put") /\ troubled' = TRUE
    /\ UNCHANGED <<tables, engine, snapshot, unknown, change, current, ops>>
Put(t) ==
    /\ pc[t] = "put"
    /\ snapshot' = built[t].what
    /\ current' = [current EXCEPT !.snapshot = built[t].change]
    /\ troubled' = (troubled \/ built[t].change < current.snapshot)
    /\ built' = [built EXCEPT ![t] = None] /\ Goto(t, "idle")
    /\ UNCHANGED <<tables, engine, unknown, change, ops, budget>>

-----------------------------------------------------------------------------
(* Clients nobody knows *)

\* ensure_client: noted as seen, then queued if there is room.
EnsureClient(ip) ==
    /\ "query" \in ops /\ Lookup(snapshot, ip) = None /\ ip \notin seen
    /\ seen' = seen \cup {ip}
    /\ queue' = IF Len(queue) < QueueMax THEN Append(queue, ip) ELSE queue
    /\ UNCHANGED <<tables, engine, snapshot, batch, pc, built, change, current, troubled, ops, budget>>
Forget(ip) ==
    /\ ip \in seen /\ seen' = seen \ {ip}
    /\ UNCHANGED <<tables, engine, snapshot, queue, batch, pc, built, change, current, troubled,
                   ops, budget>>

TakeBatch ==
    /\ pc[Worker] = "idle" /\ queue # <<>>
    /\ batch' = {queue[i] : i \in DOMAIN queue} /\ queue' = <<>>
    /\ Goto(Worker, "insert")
    /\ UNCHANGED <<tables, engine, snapshot, seen, built, change, current, troubled, ops, budget>>
\* An address that has a row of its own is left out.
Missing == {ip \in batch : \A r \in clients : r.address # ip}
Insert ==
    /\ pc[Worker] = "insert"
    /\ \E id \in [Missing -> (lastId + 1)..(lastId + Cardinality(Missing))] :
        /\ \A x, y \in Missing : x # y => id[x] # id[y]
        /\ clients' = clients \cup {[id |-> id[ip], address |-> ip, profile |-> Default] : ip \in Missing}
    /\ lastId' = lastId + Cardinality(Missing)
    /\ batch' = {}
    /\ change' = IF Missing = {} THEN change ELSE change + 1
    /\ Goto(Worker, IF Missing = {} THEN "idle" ELSE "build")
    /\ UNCHANGED <<profiles, policy, engine, snapshot, seen, queue, built, current, troubled, ops, budget>>
\* A bug: the exception ends the worker.
InsertFailsForGood ==
    /\ pc[Worker] = "insert" /\ Fault
    /\ batch' = {} /\ Goto(Worker, "put engine")
    /\ UNCHANGED <<tables, engine, snapshot, seen, queue, built, change, current, troubled, ops>>
\* The batch is lost; its clients come again when they are forgotten.
InsertFails ==
    /\ pc[Worker] = "insert" /\ Fault
    /\ batch' = {} /\ Goto(Worker, "idle")
    /\ UNCHANGED <<tables, engine, snapshot, seen, queue, built, change, current, troubled, ops>>

Change(a) ==
    \/ \E address \in Addresses, p \in Profiles : CreateClient(a, address, p)
    \/ \E row \in clients : \/ DeleteClient(a, row)
                            \/ \E address \in Addresses, p \in Profiles : UpdateClient(a, row, address, p)
    \/ \E p \in Profiles : CreateProfile(a, p) \/ DeleteProfile(a, p) \/ UpdateProfile(a, p)
                           \/ SetProfileServices(a, p) \/ AddProfileRule(a, p)
                           \/ AddBlocklistToProfile(a, p)
WorkerStep == TakeBatch \/ Insert \/ Build(Worker) \/ Put(Worker)
Next ==
    \/ \E a \in Admins : Change(a) \/ BuildEngine(a) \/ BuildEngineFails(a) \/ PutEngine(a)
                         \/ Build(a) \/ Put(a)
    \/ \E t \in Threads : BuildFails(t)
    \/ \E ip \in Ips : EnsureClient(ip) \/ Forget(ip)
    \/ WorkerStep \/ InsertFails

Spec == Init /\ [][Next]_vars
\* Clients ask again and again and five minutes pass, now and then while the queue
\* has room; the worker goes on.
Room == Len(queue) < QueueMax
Fairness ==
    /\ \A ip \in Ips : SF_vars(EnsureClient(ip) /\ Room) /\ SF_vars(Forget(ip) /\ Room)
    /\ WF_vars(WorkerStep \/ InsertFails)

-----------------------------------------------------------------------------
\* No client is left with a profile that was deleted, whatever form was open: it
\* would be answered without any filter (client_filtering_enabled).
ProfilesExist == \A r \in clients : r.profile \in profiles

\* When every thread is done, queries are answered from what the tables hold,
\* unless a rebuild failed or was overtaken.
RequestsFollow ==
    (\A t \in Threads : pc[t] = "idle") /\ ~troubled =>
        snapshot = clients /\ engine = [profiles |-> profiles, policy |-> policy]

\* The snapshot "Mirrors" get_client_by_ip (app.py:1166): both give a client the same
\* row, unless the row of its own address is younger than the network's.
LookupsAgree ==
    \A ip \in Ips : Lookup(clients, ip) = GetClientByIp(ip)
        \/ \E r \in clients : r.address = ip /\ r.id > GetClientByIp(ip).id

ClientsAreCurrent == TypeOK /\ ProfilesExist /\ RequestsFollow /\ LookupsAgree

\* A client that asks and is not known gets a row or is found, though the queue was
\* full or a batch was lost.
ClientsGetKnown ==
    \A ip \in Ips : "query" \in ops /\ Lookup(snapshot, ip) = None
        ~> (Lookup(snapshot, ip) # None \/ \E r \in clients : Covers(r, ip))
=============================================================================
