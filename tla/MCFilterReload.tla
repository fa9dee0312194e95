---------------------------- MODULE MCFilterReload ----------------------------
(***************************************************************************)
(* The two ways in which a change reaches the hot path, in one run: a      *)
(* behaviour is one of the background reloads of the filter engine, or of  *)
(* the clients and profiles.  Of the threads that reload one acts in each  *)
(* behaviour, so that the run covers each kind.                            *)
(***************************************************************************)
EXTENDS FilterReload, FiniteSets

CONSTANTS Ips, Inside, Net, Profiles, Admins, Worker, UnknownMax, ClientScenes, None

VARIABLES part,
    actor,    \* the thread that reloads
    profiles, policy, clients, lastId, clientEngine, snapshot, seenIps, queue, batch, clientPc,
    clientBuilt, change, current, troubled, clientOps, clientBudget

clientVars == <<profiles, policy, clients, lastId, clientEngine, snapshot, seenIps, queue, batch,
                clientPc, clientBuilt, change, current, troubled, clientOps, clientBudget>>

SomeWorkers == {"rules", "toggle", "import"}
OneRequest == {"request"}

ReloadNext ==
    \/ \E w \in Workers :
          /\ w = actor
          /\ Edit(w) \/ EnqueueReload(w) \/ EnqueueJobs(w) \/ Step(w)
    \/ \E r \in Requests : r = actor /\ EditProfile(r)
    \/ \E t \in Threads : t = actor /\ Reload(t)

\* Two admins change clients and profiles; or clients nobody knows ask meanwhile.
Row(address, profile) == [id |-> 1, address |-> address, profile |-> profile]
Quiet == [profiles |-> {1}, clients |-> {}, ops |-> {}, changes |-> 0, faults |-> 0]
SomeScenes == {Quiet,
    [profiles |-> {1, 2}, clients |-> {Row("in", 2)}, ops |-> {"client"}, changes |-> 2,
     faults |-> 1],
    [profiles |-> {1}, clients |-> {Row("in", 1)}, ops |-> {"profile"}, changes |-> 2,
     faults |-> 1],
    [profiles |-> {1, 2}, clients |-> {Row("in", 2)}, ops |-> {"client", "profile"}, changes |-> 2,
     faults |-> 0],
    [profiles |-> {1, 2}, clients |-> {Row("net", 2)}, ops |-> {"client", "query"}, changes |-> 1,
     faults |-> 1],
    [profiles |-> {1}, clients |-> {}, ops |-> {"query"}, changes |-> 0, faults |-> 1] }
CL == INSTANCE Clients WITH
    Scenes <- ClientScenes, QueueMax <- UnknownMax, engine <- clientEngine, seen <- seenIps,
    pc <- clientPc, built <- clientBuilt, ops <- clientOps, budget <- clientBudget

\* A network is no address of a client.  The tables that a behaviour begins with are
\* consistent: a row for each address, numbered in turn, and a profile for each row.
ASSUME AddressesAssumption == IsFiniteSet(Ips) /\ Net \notin Ips
ASSUME ScenesAssumption == \A s \in ClientScenes :
    /\ s.profiles \subseteq Profiles /\ CL!Default \in s.profiles
    /\ s.clients \subseteq CL!Client /\ IsFiniteSet(s.clients)
    /\ \A r \in s.clients : r.profile \in s.profiles /\ r.id <= Cardinality(s.clients)
    /\ \A r, o \in s.clients : r # o => r.id # o.id /\ r.address # o.address

-----------------------------------------------------------------------------
PartsInit ==
    /\ part \in {"reload", "clients"}
    /\ Init /\ IF part = "reload" THEN actor \in Threads ELSE actor = None
    /\ CL!Init /\ (part = "clients" <=> clientOps # {})

PartsNext ==
    /\ UNCHANGED <<part, actor>>
    /\ \/ part = "reload" /\ ReloadNext /\ UNCHANGED clientVars
       \/ part = "clients" /\ CL!Next /\ UNCHANGED vars

PartsSpec ==
    /\ PartsInit /\ [][PartsNext]_<<part, actor, vars, clientVars>>
    /\ Fairness /\ CL!Fairness

\* The properties of Clients, as it comments them.
ClientsAreCurrent == part = "clients" => CL!ClientsAreCurrent
ClientsGetKnown == CL!ClientsGetKnown
=============================================================================
