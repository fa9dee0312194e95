---------------------------- MODULE SharedConnection ----------------------------
(***************************************************************************)
(* The one SQLite connection that all threads share (app.py): the writer   *)
(* of the query log, the pages that change settings or clear the log, the  *)
(* restore of a backup, and the audit log.                                 *)
(*                                                                         *)
(* A transaction belongs to the connection, not to a thread.  Threads take *)
(* db_lock for theirs, log_admin_action does not; whoever commits commits  *)
(* all that is pending, and nobody rolls back after an exception.          *)
(*                                                                         *)
(* The database is the file itself, or in memory with a copy on disk that  *)
(* a loop writes now and then (MemoryDb has its steps): a snapshot taken   *)
(* with db.serialize(), or db.backup(), which waits under db_lock while a  *)
(* transaction is open.                                                    *)
(*                                                                         *)
(* An entry of the log is a number; a table is as it was, as an edit made  *)
(* it, or as the backup has it.                                            *)
(***************************************************************************)
EXTENDS Naturals, Sequences, FiniteSets, SequencesExt

CONSTANTS
    QueueMax,     \* DB_WRITE_QUEUE_MAX
    BatchMax,     \* the 2000 entries of a batch
    Backups,      \* may a backup have blocklists?
    Storages,     \* where the database is: "file", "serialize", "backup"
    MaxEntries, MaxFaults, MaxWrites, MaxStops    \* bounds

\* The tables in the order in which a restore replaces them.
Tables == <<"settings", "rules", "blocklists", "clients">>
Data == [ToSet(Tables) -> {"old", "edited", "backup"}]

VARIABLES
    produced,     \* entries so far
    queue,        \* db_write_queue
    dropped,      \* entries for which there was no room
    batch,        \* what the writer took
    lost,         \* entries a failure, a stop or the clearing took
    log, data,    \* the tables as every thread sees them
    saved,        \* the same as of the last commit
    synced,       \* the same in the database file
    dirty,        \* memory_db_dirty
    storage,      \* where the database is; it never changes
    syncing,      \* a db.backup() has db_lock
    open,         \* a failure left a transaction open
    pending,      \* a failed change is in it
    torn,         \* a part of a change was committed
    upstreams,    \* the upstreams' files
    served,       \* what engine and snapshot were built from
    lists,        \* the backup has blocklists
    step,         \* of the restore; 0 when there is none
    outcome,      \* how it ended
    reverted,     \* a stop took commits back
    writes, faults, stops    \* what the bounds leave

vars == <<produced, queue, dropped, batch, lost, log, data, saved, synced, dirty, storage, syncing, open,
          pending, torn, upstreams, served, lists, step, outcome, reverted, writes, faults, stops>>
disk == <<synced, dirty>>
tables == <<log, data, saved, disk, open>>
keeping == <<lists, storage, syncing, reverted>>
entries == <<produced, queue, dropped, batch, lost>>

TypeOK ==
    /\ produced \in 0..MaxEntries /\ Len(queue) <= QueueMax /\ Len(batch) <= BatchMax
    /\ dropped \subseteq 1..produced /\ lost \subseteq 1..produced
    /\ {ToSet(queue), ToSet(batch), ToSet(log), ToSet(saved.log), ToSet(synced.log)}
            \subseteq SUBSET (1..produced)
    /\ {data, saved.data, synced.data, served} \subseteq Data
    /\ step \in 0..8 /\ outcome \in {"none", "ok", "failed", "cut"}
    /\ upstreams \in {"old", "none", "backup"}

Init ==
    /\ produced = 0 /\ queue = <<>> /\ dropped = {} /\ batch = <<>> /\ lost = {}
    /\ log = <<>> /\ data = [t \in ToSet(Tables) |-> "old"]
    /\ saved = [log |-> log, data |-> data]
    /\ synced = saved /\ dirty = FALSE /\ storage \in Storages /\ syncing = FALSE
    /\ open = FALSE /\ pending = FALSE /\ torn = FALSE /\ reverted = FALSE
    /\ upstreams = "old" /\ served = data
    /\ lists \in Backups /\ step = 0 /\ outcome = "none"
    /\ writes = MaxWrites /\ faults = MaxFaults /\ stops = MaxStops

\* db_lock: only the restore and a backup keep it over several steps.
Restoring == step \in 1..7
LockFree == ~Restoring /\ ~syncing
Fault == faults > 0 /\ faults' = faults - 1
\* db.commit(): the whole transaction, whoever wrote it.
Commit(newLog, newData) ==
    /\ log' = newLog /\ data' = newData /\ saved' = [log |-> newLog, data |-> newData]
    /\ IF storage = "file" THEN synced' = saved' /\ UNCHANGED dirty
                           ELSE dirty' = TRUE /\ UNCHANGED synced
    /\ open' = FALSE /\ pending' = FALSE
    /\ torn' = (torn \/ pending \/ (Restoring /\ data # saved.data /\ step # 7))

-----------------------------------------------------------------------------
(* The query log *)

LogQuery ==
    /\ produced < MaxEntries /\ produced' = produced + 1
    /\ IF Len(queue) < QueueMax
       THEN queue' = Append(queue, produced') /\ UNCHANGED dropped
       ELSE dropped' = dropped \cup {produced'} /\ UNCHANGED queue
    /\ UNCHANGED <<batch, lost, tables, pending, torn, upstreams, served, keeping, step, outcome, writes, faults, stops>>

Smaller(a, b) == IF a < b THEN a ELSE b
Size == Smaller(BatchMax, Len(queue))
\* A bug: what was taken stays in the queue when there is more than one batch.
TakeBatchAgain ==
    /\ batch = <<>> /\ queue # <<>>
    /\ batch' = SubSeq(queue, 1, Size)
    /\ queue' = IF Len(queue) > BatchMax THEN queue ELSE <<>>
    /\ UNCHANGED <<produced, dropped, lost, tables, pending, torn, upstreams, served, keeping, step, outcome,
                   writes, faults, stops>>
TakeBatch ==
    /\ batch = <<>> /\ queue # <<>>
    /\ batch' = SubSeq(queue, 1, Size) /\ queue' = SubSeq(queue, Size + 1, Len(queue))
    /\ UNCHANGED <<produced, dropped, lost, tables, pending, torn, upstreams, served, keeping, step, outcome,
                   writes, faults, stops>>
Insert ==
    /\ LockFree /\ batch # <<>>
    /\ Commit(log \o batch, data)
    /\ batch' = <<>>
    /\ UNCHANGED <<produced, queue, dropped, lost, upstreams, served, keeping, step, outcome, writes, faults, stops>>
\* The rows before the failing one stay in the transaction, which stays open; the others
\* are gone.
InsertFails ==
    /\ LockFree /\ batch # <<>> /\ Fault
    /\ \E n \in 0..Len(batch) :
        /\ log' = log \o SubSeq(batch, 1, n)
        /\ lost' = lost \cup ToSet(SubSeq(batch, n + 1, Len(batch)))
        /\ pending' = (pending \/ n > 0)
    /\ batch' = <<>> /\ open' = TRUE
    /\ UNCHANGED <<produced, queue, dropped, data, saved, disk, torn, upstreams, served, keeping, step, outcome,
                   writes, stops>>

Write ==
    /\ writes > 0 /\ writes' = writes - 1
    /\ UNCHANGED <<produced, queue, dropped, batch, upstreams, served, keeping, step, outcome, faults, stops>>
\* The page that clears the log, and the old entries that db_maintenance_loop deletes.
ClearLog == LockFree /\ Write /\ Commit(<<>>, data) /\ lost' = lost \cup ToSet(log)
SetSetting == LockFree /\ Write /\ Commit(log, [data EXCEPT !["settings"] = "edited"]) /\ UNCHANGED lost
\* log_admin_action, without db_lock.
Audit == Write /\ Commit(log, data) /\ UNCHANGED lost

-----------------------------------------------------------------------------
(* handle_restore, under db_lock up to its commit *)

BeginRestore ==
    /\ LockFree /\ step = 0 /\ outcome = "none" /\ step' = 1
    /\ UNCHANGED <<entries, tables, pending, torn, upstreams, served, keeping, outcome, writes, faults, stops>>
\* Settings, rules, blocklists; and, after the upstreams, clients with their profiles.
RestoreTable ==
    /\ step \in {1, 2, 3, 5} /\ step' = step + 1
    /\ data' = [data EXCEPT ![Tables[IF step = 5 THEN 4 ELSE step]] = "backup"]
    /\ UNCHANGED <<entries, log, saved, disk, open, pending, torn, upstreams, served, keeping, outcome, writes, faults, stops>>
\* um.delete for all of them, then um.create.
RestoreUpstreams ==
    /\ step = 4
    /\ IF upstreams = "none" THEN upstreams' = "backup" /\ step' = 5
                             ELSE upstreams' = "none" /\ UNCHANGED step
    /\ UNCHANGED <<entries, tables, pending, torn, served, keeping, outcome, writes, faults, stops>>
Abort ==
    /\ step' = 0 /\ outcome' = "failed" /\ open' = TRUE /\ pending' = (pending \/ data # saved.data)
    /\ UNCHANGED <<entries, log, data, saved, disk, torn, upstreams, served, keeping, writes, stops>>
\* A row of the backup is refused: a profile it names is gone, a value is missing.
RestoreFails == step \in 2..6 /\ Fault /\ Abort
\* The second pass over the blocklists asks for a column that the table does not have.
SecondPass ==
    /\ step = 6
    /\ \/ lists /\ Abort /\ UNCHANGED faults
       \/ ~lists /\ step' = 7
          /\ UNCHANGED <<entries, tables, pending, torn, upstreams, served, keeping, outcome, writes, faults, stops>>
CommitRestore ==
    /\ step = 7 /\ Commit(log, data) /\ step' = 8
    /\ UNCHANGED <<entries, upstreams, served, keeping, outcome, writes, faults, stops>>
\* invalidate_rules_cache: the engine, the snapshot of the clients, the cache.
ReloadAll ==
    /\ step = 8 /\ served' = data /\ step' = 0 /\ outcome' = "ok"
    /\ UNCHANGED <<entries, tables, pending, torn, upstreams, keeping, writes, faults, stops>>

-----------------------------------------------------------------------------
(* sync_memory_db_to_disk, as far as the others see it *)

\* The snapshot has what is not committed, too.
Sync ==
    /\ storage = "serialize" /\ LockFree /\ dirty
    /\ synced' = [log |-> log, data |-> data] /\ dirty' = FALSE
    /\ torn' = (torn \/ pending)
    /\ UNCHANGED <<entries, log, data, saved, open, pending, upstreams, served, keeping, step, outcome,
                   writes, faults, stops>>
\* SQLite answers a backup with "busy" as long as its own connection has a transaction
\* open, and it is tried again without an end; only a commit without db_lock helps.
BeginBackup ==
    /\ storage = "backup" /\ LockFree /\ dirty
    /\ syncing' = TRUE /\ dirty' = FALSE
    /\ UNCHANGED <<entries, log, data, saved, synced, open, pending, torn, upstreams, served, lists,
                   storage, reverted, step, outcome, writes, faults, stops>>
EndBackup ==
    /\ syncing /\ ~open
    /\ syncing' = FALSE /\ synced' = [log |-> log, data |-> data]
    /\ UNCHANGED <<entries, log, data, saved, dirty, open, pending, torn, upstreams, served, lists,
                   storage, reverted, step, outcome, writes, faults, stops>>

-----------------------------------------------------------------------------
\* The process dies, or is stopped: shutdown_runtime_servers empties the queue.  The
\* next one finds what is in the file, and builds engine and snapshot from it: without
\* the commits since the last sync, and with entries that were deleted since.
Stop ==
    /\ stops > 0 /\ stops' = stops - 1
    /\ lost' = (lost \cup ToSet(queue \o batch) \cup ToSet(log)) \ ToSet(synced.log)
    /\ queue' = <<>> /\ batch' = <<>>
    /\ log' = synced.log /\ data' = synced.data /\ served' = synced.data /\ saved' = synced
    /\ dirty' = FALSE /\ syncing' = FALSE /\ open' = FALSE /\ pending' = FALSE
    /\ step' = 0 /\ outcome' = IF step # 0 THEN "cut" ELSE outcome
    /\ reverted' = (reverted \/ synced # saved)
    /\ UNCHANGED <<produced, dropped, synced, storage, torn, upstreams, lists, writes, faults>>

Next ==
    \/ LogQuery \/ TakeBatch \/ Insert \/ InsertFails \/ ClearLog \/ SetSetting \/ Audit
    \/ BeginRestore \/ RestoreTable \/ RestoreUpstreams \/ RestoreFails \/ SecondPass
    \/ CommitRestore \/ ReloadAll \/ Sync \/ BeginBackup \/ EndBackup \/ Stop

Spec == Init /\ [][Next]_vars

-----------------------------------------------------------------------------
\* No entry of the log is written twice or out of order, and each is queued, written,
\* counted as dropped, or lost by something that loses entries.
EntriesOnce ==
    LET all == log \o batch \o queue
    IN /\ \A i, j \in DOMAIN all : i < j => all[i] < all[j]
       /\ 1..produced = ToSet(all) \cup dropped \cup lost
       /\ Cardinality(dropped) + Cardinality(lost) + Len(all) = produced

\* What a thread has done and not committed when it gives up db_lock is only what a
\* failure left.
ChangesAreCommitted == ~Restoring /\ ~pending => saved = [log |-> log, data |-> data]

\* Neither what is committed nor what a restart would find in the file has a part of a
\* restore, unless one failed, or the audit log committed in between.
Part(tablesOf) == "backup" \in {tablesOf[t] : t \in ToSet(Tables)}
RestoredIn(tablesOf) ==
    \A t \in ToSet(Tables) : tablesOf[t] = "backup" \/ (t = "settings" /\ tablesOf[t] = "edited")
RestoreIsWhole ==
    ~torn => /\ Part(saved.data) => RestoredIn(saved.data)
             /\ Part(synced.data) => RestoredIn(synced.data)

\* A restore that reports success is complete and committed, and it is what queries are
\* answered from, also after a restart that found all commits.  Known exception: after
\* one that did not, the tables are the old ones, the upstreams those of the backup.
RestoreIsServed ==
    outcome = "ok" /\ ~reverted =>
        /\ upstreams = "backup"
        /\ \A t \in ToSet(Tables) \ {"settings"} :
            data[t] = "backup" /\ saved.data[t] = "backup" /\ served[t] = "backup"

ConnectionIsShared == TypeOK /\ EntriesOnce /\ ChangesAreCommitted /\ RestoreIsWhole /\ RestoreIsServed
=============================================================================
