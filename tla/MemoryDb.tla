-------------------------------- MODULE MemoryDb --------------------------------
(***************************************************************************)
(* The database in memory and its copy on disk (app.py).                   *)
(*                                                                         *)
(* With DB_IN_MEMORY the server works on an SQLite database in RAM.  Every *)
(* commit advances memory_db_generation and sets memory_db_dirty.  A       *)
(* background loop, and once more the main thread when the server stops,   *)
(* call sync_memory_db_to_disk: under db_lock it notes the generation and  *)
(* takes a snapshot; it writes the file <db>.ramtmp, moves it over the     *)
(* database file, and clears the flag if the generation is still the same. *)
(* Nothing keeps two of these calls apart: both use the same temporary     *)
(* file.                                                                   *)
(*                                                                         *)
(* A file is an inode with a content: a writer that has it open keeps      *)
(* writing to it after it was moved.                                       *)
(*                                                                         *)
(* Threads share one connection, and a commit that fails leaves its        *)
(* transaction open.  SQLite answers db.backup() of such a connection with *)
(* "busy", which Python's module tries again without an end, here while    *)
(* the thread has db_lock.                                                 *)
(*                                                                         *)
(* Abstractions: the content of the database is the number of the commits  *)
(* in it.  What the open transaction has, which db.serialize() saves too,  *)
(* is SharedConnection's.                                                  *)
(***************************************************************************)
EXTENDS Integers, FiniteSets

CONSTANTS
    Writers,      \* threads that commit
    Careless,     \* those of them that commit without db_lock
    Modes,        \* :memory: with db.serialize() (TRUE), or else db.backup()
    Inodes,       \* names for files
    None,
    MaxCommits,   \* bound: commits
    MaxFaults,    \* bound: writes and replacements that fail
    MaxCrashes    \* bound: crashes of the process

Syncers == {"loop", "final"}

ASSUME WritersAssumption ==
    IsFiniteSet(Writers) /\ Careless \subseteq Writers /\ Writers \cap Syncers = {}
ASSUME NoneAssumption == None \notin Writers \cup Syncers \cup Inodes
ASSUME ModesAssumption == Modes \subseteq BOOLEAN
ASSUME BoundsAssumption == {MaxCommits, MaxFaults, MaxCrashes} \subseteq Nat

VARIABLES
    serialize,    \* how this server takes its snapshots; it never changes
    ram,          \* commits in the database in memory
    generation,   \* memory_db_generation
    dirty,        \* memory_db_dirty
    dbLock,       \* who holds db_lock
    uncommitted,  \* a failure left a transaction open
    file,         \* the content of every inode
    disk,         \* the inode of the database file
    temp,         \* the inode of <db>.ramtmp
    pc,           \* where each thread is
    snapshot,     \* what each syncer is to write
    noted,        \* snapshot_generation
    fd,           \* the file each syncer has open
    phase,        \* is the server up, stopping or gone?
    stops,        \* calls of stop_memory_db_sync left: main, then atexit
    due,          \* generation when the server began to stop
    commits, faults, crashes    \* what the bounds leave

vars == <<serialize, ram, generation, dirty, dbLock, uncommitted, file, disk, temp, pc,
          snapshot, noted, fd, phase, stops, due, commits, faults, crashes>>

Threads == Writers \cup Syncers
Version == Nat
\* A file that was opened and not written, is written to the end, or has parts
\* of two snapshots.
Content == [version : Version, state : {"open", "whole", "mixed"}]
Whole(version) == [version |-> version, state |-> "whole"]
Places == {"idle", "commit", "bump", "lock", "note", "snap", "open", "write",
           "replace", "clear"}

TypeOK ==
    /\ serialize \in Modes
    /\ ram \in Version /\ generation \in Version /\ due \in Version
    /\ dirty \in BOOLEAN
    /\ dbLock \in Threads \cup {None} /\ uncommitted \in BOOLEAN
    /\ file \in [Inodes -> Content]
    /\ disk \in Inodes /\ temp \in Inodes \cup {None}
    /\ pc \in [Threads -> Places]
    /\ snapshot \in [Syncers -> Version] /\ noted \in [Syncers -> Version]
    /\ fd \in [Syncers -> Inodes \cup {None}]
    /\ phase \in {"up", "stopping", "gone"} /\ stops \in 0..2
    /\ commits \in 0..MaxCommits /\ faults \in 0..MaxFaults
    /\ crashes \in 0..MaxCrashes

\* connect_db has copied the database file into memory.
Init ==
    /\ serialize \in Modes
    /\ ram = 0 /\ generation = 0 /\ due = 0
    /\ dirty = FALSE
    /\ dbLock = None /\ uncommitted = FALSE
    /\ disk \in Inodes /\ temp = None
    /\ file = [i \in Inodes |-> Whole(0)]
    /\ pc = [t \in Threads |-> "idle"]
    /\ snapshot = [s \in Syncers |-> 0] /\ noted = [s \in Syncers |-> 0]
    /\ fd = [s \in Syncers |-> None]
    /\ phase = "up" /\ stops = 2
    /\ commits = MaxCommits /\ faults = MaxFaults /\ crashes = MaxCrashes

Goto(t, place) == pc' = [pc EXCEPT ![t] = place]
Free == Inodes \ ({disk, temp} \cup {fd[s] : s \in Syncers})
files == <<file, disk, temp, fd>>
bounds == <<serialize, commits, faults, crashes>>

-----------------------------------------------------------------------------
(* PyGuardConnection.commit, by threads that hold db_lock and by others *)

BeginCommit(w) ==
    /\ phase # "gone"
    /\ pc[w] = "idle"
    /\ commits > 0
    /\ commits' = commits - 1
    /\ IF w \in Careless
       THEN UNCHANGED dbLock
       ELSE dbLock = None /\ dbLock' = w
    /\ Goto(w, "commit")
    /\ UNCHANGED <<ram, generation, uncommitted, dirty, files, snapshot, noted, phase, stops, due,
                   serialize, faults, crashes>>

Commit(w) ==
    /\ phase # "gone"
    /\ pc[w] = "commit"
    /\ ram' = ram + 1
    /\ Goto(w, "bump")
    /\ uncommitted' = FALSE
    /\ UNCHANGED <<generation, dirty, dbLock, files, snapshot, noted, phase, stops, due, bounds>>

\* An exception before the commit, in db_writer_loop or a restore: nobody rolls back.
CommitFails(w) ==
    /\ phase # "gone"
    /\ pc[w] = "commit"
    /\ uncommitted' = TRUE
    /\ dbLock' = IF dbLock = w THEN None ELSE dbLock
    /\ Goto(w, "idle")
    /\ UNCHANGED <<ram, generation, dirty, files, snapshot, noted, phase, stops, due, bounds>>

Bump(w) ==
    /\ phase # "gone"
    /\ pc[w] = "bump"
    /\ generation' = generation + 1
    /\ dirty' = TRUE
    /\ dbLock' = IF dbLock = w THEN None ELSE dbLock
    /\ Goto(w, "idle")
    /\ UNCHANGED <<ram, uncommitted, files, snapshot, noted, phase, stops, due, bounds>>

-----------------------------------------------------------------------------
(* sync_memory_db_to_disk *)

\* memory_db_sync_loop
LoopBegins ==
    /\ phase = "up"
    /\ pc["loop"] = "idle"
    /\ dirty
    /\ Goto("loop", "lock")
    /\ UNCHANGED <<ram, generation, uncommitted, dirty, dbLock, files, snapshot, noted, phase, stops,
                   due, bounds>>

\* stop_memory_db_sync: it tells the loop to stop and does not wait for it.
Stop ==
    /\ phase # "gone"
    /\ pc["final"] = "idle"
    /\ stops > 0
    /\ stops' = stops - 1
    /\ phase' = "stopping"
    /\ due' = IF phase = "up" THEN generation ELSE due
    /\ Goto("final", IF dirty THEN "lock" ELSE "idle")
    /\ UNCHANGED <<ram, generation, uncommitted, dirty, dbLock, files, snapshot, noted, bounds>>

Exit ==
    /\ phase = "stopping"
    /\ stops = 0 /\ pc["final"] = "idle"
    /\ phase' = "gone"
    /\ UNCHANGED <<ram, generation, uncommitted, dirty, dbLock, files, pc, snapshot, noted, stops,
                   due, bounds>>

\* A bug: the last sync too gives up when the lock is taken.
LockGivesUp(s) ==
    /\ pc[s] = "lock"
    /\ IF dirty /\ dbLock = None
       THEN dbLock' = s /\ Goto(s, "note")
       ELSE UNCHANGED dbLock /\ Goto(s, "idle")
    /\ UNCHANGED <<ram, generation, uncommitted, dirty, files, snapshot, noted, phase, stops, due, bounds>>

\* The loop gives up when the lock is taken, the last sync waits for it.
Lock(s) ==
    /\ pc[s] = "lock"
    /\ dbLock = None
    /\ IF dirty
       THEN dbLock' = s /\ Goto(s, "note")
       ELSE UNCHANGED dbLock /\ Goto(s, "idle")
    /\ UNCHANGED <<ram, generation, uncommitted, dirty, files, snapshot, noted, phase, stops, due, bounds>>

LoopGivesUp ==
    /\ phase # "gone"
    /\ pc["loop"] = "lock"
    /\ dbLock # None
    /\ Goto("loop", "idle")
    /\ UNCHANGED <<ram, generation, uncommitted, dirty, dbLock, files, snapshot, noted, phase, stops,
                   due, bounds>>

\* A bug: the flag is cleared when the snapshot is taken.
NoteGenerationClears(s) ==
    /\ pc[s] = "note"
    /\ noted' = [noted EXCEPT ![s] = generation]
    /\ dirty' = FALSE
    /\ Goto(s, IF serialize THEN "snap" ELSE "open")
    /\ UNCHANGED <<ram, generation, uncommitted, dbLock, files, snapshot, phase, stops, due, bounds>>

NoteGeneration(s) ==
    /\ pc[s] = "note"
    /\ noted' = [noted EXCEPT ![s] = generation]
    /\ Goto(s, IF serialize THEN "snap" ELSE "open")
    /\ UNCHANGED <<ram, generation, uncommitted, dirty, dbLock, files, snapshot, phase, stops, due, bounds>>

\* db.serialize() copies the database and gives the lock back.
TakeSnapshot(s) ==
    /\ pc[s] = "snap"
    /\ snapshot' = [snapshot EXCEPT ![s] = ram]
    /\ dbLock' = None
    /\ Goto(s, "open")
    /\ UNCHANGED <<ram, generation, uncommitted, dirty, files, noted, phase, stops, due, bounds>>

\* The file is created, or the one another sync left or is writing is
\* overwritten from its start.
OpenTemp(s) ==
    /\ pc[s] = "open"
    /\ \E i \in IF temp = None THEN Free ELSE {temp} :
          /\ temp' = i
          /\ fd' = [fd EXCEPT ![s] = i]
          /\ file' = [file EXCEPT ![i] = [version |-> 0, state |-> "open"]]
    /\ Goto(s, "write")
    /\ UNCHANGED <<ram, generation, uncommitted, dirty, dbLock, disk, snapshot, noted, phase, stops,
                   due, bounds>>

CloseTemp(s) ==
    /\ fd' = [fd EXCEPT ![s] = None]
    /\ dbLock' = IF dbLock = s THEN None ELSE dbLock

\* db.backup() copies what is in memory when it ends, and still has the lock; it does not
\* end while a transaction is open.
Written(s) == IF serialize THEN snapshot[s] ELSE ram
Writable == serialize \/ ~uncommitted

\* Two snapshots of different length in one file may leave a mixture.
Write(s) ==
    /\ pc[s] = "write" /\ Writable
    /\ \E state \in IF file[fd[s]].state = "open" THEN {"whole"} ELSE {"whole", "mixed"} :
          file' = [file EXCEPT ![fd[s]] = [version |-> Written(s), state |-> state]]
    /\ CloseTemp(s)
    /\ Goto(s, "replace")
    /\ UNCHANGED <<ram, generation, uncommitted, dirty, disk, temp, snapshot, noted, phase, stops,
                   due, bounds>>

\* A bug: an error while writing is swallowed and the file is used.
WriteFailsGoesOn(s) ==
    /\ pc[s] = "write"
    /\ faults > 0 /\ faults' = faults - 1
    /\ CloseTemp(s)
    /\ Goto(s, "replace")
    /\ UNCHANGED <<ram, generation, uncommitted, dirty, file, disk, temp, snapshot, noted, phase,
                   stops, due, serialize, commits, crashes>>

\* The disk is full: the exception leaves the function, the file stays.
WriteFails(s) ==
    /\ pc[s] = "write"
    /\ faults > 0 /\ faults' = faults - 1
    /\ CloseTemp(s)
    /\ Goto(s, "idle")
    /\ UNCHANGED <<ram, generation, uncommitted, dirty, file, disk, temp, snapshot, noted, phase,
                   stops, due, serialize, commits, crashes>>

\* os.replace raises when another sync has moved the file away.
Replace(s) ==
    /\ pc[s] = "replace"
    /\ IF temp = None
       THEN /\ Goto(s, "idle")
            /\ UNCHANGED <<disk, temp>>
       ELSE /\ disk' = temp
            /\ temp' = None
            /\ Goto(s, "clear")
    /\ UNCHANGED <<ram, generation, uncommitted, dirty, dbLock, file, fd, snapshot, noted, phase,
                   stops, due, bounds>>

\* PermissionError: the temporary file is removed.
ReplaceDenied(s) ==
    /\ pc[s] = "replace"
    /\ faults > 0 /\ faults' = faults - 1
    /\ temp' = None
    /\ Goto(s, "idle")
    /\ UNCHANGED <<ram, generation, uncommitted, dirty, dbLock, file, disk, fd, snapshot, noted,
                   phase, stops, due, serialize, commits, crashes>>

\* A bug: the flag is cleared without a look at the generation.
ClearDirtyAlways(s) ==
    /\ pc[s] = "clear"
    /\ dirty' = FALSE
    /\ Goto(s, "idle")
    /\ UNCHANGED <<ram, generation, uncommitted, dbLock, files, snapshot, noted, phase, stops, due, bounds>>

ClearDirty(s) ==
    /\ pc[s] = "clear"
    /\ dirty' = (dirty /\ generation # noted[s])
    /\ Goto(s, "idle")
    /\ UNCHANGED <<ram, generation, uncommitted, dbLock, files, snapshot, noted, phase, stops, due, bounds>>

-----------------------------------------------------------------------------
(* The process crashes and is started again: connect_db loads the file. *)
Crash ==
    /\ phase = "up"
    /\ crashes > 0 /\ crashes' = crashes - 1
    /\ ram' = file[disk].version
    /\ generation' = 0
    /\ dirty' = FALSE
    /\ dbLock' = None
    /\ pc' = [t \in Threads |-> "idle"]
    /\ fd' = [s \in Syncers |-> None]
    /\ snapshot' = [s \in Syncers |-> 0] /\ noted' = [s \in Syncers |-> 0]
    /\ uncommitted' = FALSE
    /\ UNCHANGED <<file, disk, temp, phase, stops, due, serialize, commits,
                   faults>>

Sync(s) ==
    /\ phase # "gone"
    /\ \/ Lock(s) \/ NoteGeneration(s) \/ TakeSnapshot(s) \/ OpenTemp(s) \/ Write(s)
       \/ WriteFails(s) \/ Replace(s) \/ ReplaceDenied(s) \/ ClearDirty(s)

Next ==
    \/ \E w \in Writers : BeginCommit(w) \/ Commit(w) \/ CommitFails(w) \/ Bump(w)
    \/ LoopBegins \/ LoopGivesUp
    \/ \E s \in Syncers : Sync(s)
    \/ Stop \/ Exit \/ Crash

Spec == Init /\ [][Next]_vars

(* The loop wakes up every minute and gets the lock when it is free long
   enough; a thread that began a commit ends it, or fails.  Nobody has to
   commit, and the server need not stop. *)
Fairness ==
    /\ \A w \in Writers : WF_vars(Commit(w) \/ CommitFails(w)) /\ WF_vars(Bump(w))
    /\ WF_vars(LoopBegins) /\ WF_vars(LoopGivesUp) /\ WF_vars(Sync("loop"))

FairSpec == Spec /\ Fairness

-----------------------------------------------------------------------------
(* Properties *)

Between(place) == \E w \in Writers : pc[w] = place

\* A clean flag means that the file on disk has every commit that ended,
\* whatever was committed while a snapshot was written.
CleanIsSaved ==
    /\ TypeOK
    /\ phase = "up" /\ ~dirty /\ ~Between("bump") => file[disk] = Whole(ram)

\* As long as the server runs the file on disk is a whole database at every
\* moment, also if the process dies in that moment.
DiskWhole == phase = "up" => file[disk].state = "whole"

\* Every commit of a server that keeps running gets to the disk in the end.  Known
\* exception: with db.backup(), a transaction that was left open when the loop begins to
\* write keeps the loop there, and every thread that wants db_lock, until somebody
\* commits without it.
Stuck == ~serialize /\ uncommitted /\ pc["loop"] = "write" /\ dbLock = "loop"
CommitsReachDisk == [](phase = "up") => <>[](file[disk] = Whole(ram)) \/ <>[]Stuck

\* "synchronized back to localdnsguard.sqlite3 every 60 seconds and again
\* during normal shutdown": when the server is gone, the file has what was
\* committed before it began to stop, in whichever order the loop and the
\* last sync wrote and moved their files; a file the loop was still writing
\* when the process ended apart.
ShutdownSaves ==
    phase = "gone" /\ file[disk].state = "whole" => file[disk].version >= due

\* The same where the snapshot is written under db_lock, as with /dev/shm.
BackupShutdownSaves == ~serialize => ShutdownSaves
=============================================================================
