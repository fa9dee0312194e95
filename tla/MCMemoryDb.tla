------------------------------ MODULE MCMemoryDb ------------------------------
(***************************************************************************)
(* What the server keeps, in one run: a behaviour is one of the database   *)
(* in memory and its copy on disk, of the connection that all threads      *)
(* share, of the settings and their copies, or of the sessions and their   *)
(* rows.                                                                   *)
(***************************************************************************)
EXTENDS MemoryDb

CONSTANTS
    QueueMax, BatchMax, Backups, Storages, MaxEntries, MaxFailures, MaxWrites, MaxEnds,
    Keys, Hot, Users, MaxSettings, Reads,
    Tokens, Readers

VARIABLES part,
    produced, queue, dropped, batch, lost, log, data, saved, synced, stale, storage, syncing, open,
    pending, torn, upstreams, served, lists, step, outcome, reverted, writes, failures, ends,
    value, cache, hot, latch, hotLock, at, left, overtaken, restored,
    memory, rows, savedRows, issued, expired, leaving, reading, out, revived, undone

connectionVars == <<produced, queue, dropped, batch, lost, log, data, saved, synced, stale, storage,
                    syncing, open, pending, torn, upstreams, served, lists, step, outcome, reverted,
                    writes, failures, ends>>
settingsVars == <<value, cache, hot, latch, hotLock, at, left, overtaken, restored>>
sessionsVars == <<memory, rows, savedRows, issued, expired, leaving, reading, out, revived, undone>>

SC == INSTANCE SharedConnection WITH
    MaxFaults <- MaxFailures, MaxStops <- MaxEnds, dirty <- stale, faults <- failures, stops <- ends
ST == INSTANCE Settings WITH Threads <- Users, Max <- MaxSettings
SE == INSTANCE Sessions WITH saved <- savedRows

\* The bounds are numbers; there is no hot copy of what is no key; "no value" and "no
\* thread" differ from every value and thread.
ASSUME ConnectionAssumption == {QueueMax, BatchMax, MaxEntries} \subseteq Nat
ASSUME SettingsAssumption ==
    Hot \subseteq Keys /\ None \notin Users \cup Nat /\ {MaxSettings, Reads} \subseteq Nat

\* One thread commits under db_lock, another without it.
CommitTwo == {"under lock", "careless"}
CommitCareless == {"careless"}

PartsInit ==
    /\ part \in {"disk", "connection", "settings", "sessions"}
    /\ Init /\ (part = "disk" \/ (serialize /\ disk = CHOOSE i \in Inodes : TRUE))
    /\ SC!Init /\ (part = "connection" \/ (~lists /\ storage = CHOOSE s \in Storages : TRUE))
    /\ ST!Init /\ SE!Init

PartsNext ==
    /\ UNCHANGED part
    /\ \/ part = "disk" /\ Next /\ UNCHANGED <<connectionVars, settingsVars, sessionsVars>>
       \/ part = "connection" /\ SC!Next /\ UNCHANGED <<vars, settingsVars, sessionsVars>>
       \/ part = "settings" /\ ST!Next /\ UNCHANGED <<vars, connectionVars, sessionsVars>>
       \/ part = "sessions" /\ SE!Next /\ UNCHANGED <<vars, connectionVars, settingsVars>>

PartsSpec ==
    /\ PartsInit
    /\ [][PartsNext]_<<part, vars, connectionVars, settingsVars, sessionsVars>>
    /\ Fairness

\* The properties of the parts, as their modules comment them.
ConnectionIsShared == part = "connection" => SC!ConnectionIsShared
CopiesAreCurrent ==
    /\ part = "settings" => ST!SettingsAreCurrent
    /\ part = "sessions" => SE!SessionsAreCurrent
=============================================================================
