--------------------------- MODULE MCMemoryDb_proofs ---------------------------
(***************************************************************************)
(* Proofs about MemoryDb, for any number of threads, commits, failures and *)
(* crashes, and about the parts that MCMemoryDb puts beside the database:  *)
(* the connection that all threads share (SC), the settings and their      *)
(* copies (ST), and the sessions and their rows (SE), for any number of    *)
(* threads, keys, tokens, entries and faults.                              *)
(***************************************************************************)
EXTENDS MCMemoryDb, Sequences, SequenceTheorems, FiniteSetTheorems, TLAPS

-----------------------------------------------------------------------------
(* The database in memory and its copy on disk: the inductive invariants *)

Bumping == {w \in Writers : pc[w] = "bump"}

\* The places of the threads, and the files they have open.
Files ==
    /\ temp # disk
    /\ \A s \in Syncers : pc[s] = "write" <=> fd[s] # None
    /\ \A s \in Syncers : pc[s] \in Places \ {"commit", "bump"}
    /\ \A w \in Writers : pc[w] \in {"idle", "commit", "bump"}

\* What the loop wrote, or is to write, is what is in memory.
Captured ==
    /\ pc["loop"] \in {"open", "write"} /\ serialize => snapshot["loop"] = ram
    /\ pc["loop"] = "replace" => file[temp].version = ram
    /\ pc["loop"] = "clear" => file[disk].version = ram

\* While the server runs the loop is alone: the file it moves is whole, and
\* it has every commit unless the generation moved on, or is about to.
Up ==
    /\ pc["final"] = "idle" /\ fd["final"] = None
    /\ file[disk].state = "whole"
    /\ pc["loop"] = "write" => fd["loop"] = temp /\ file[temp].state = "open"
    /\ pc["loop"] = "replace" => temp # None /\ file[temp].state = "whole"
    /\ pc["loop"] \in {"note", "snap", "open", "write", "replace", "clear"} => dirty
    /\ pc["loop"] \in {"snap", "open", "write", "replace", "clear"} =>
          noted["loop"] <= generation
    /\ noted["loop"] = generation /\ Bumping = {} => Captured
    /\ ~dirty /\ Bumping = {} => file[disk].version = ram

IInv == TypeOK /\ Files /\ (phase = "up" => Up)

\* Every commit is in memory before it is counted.
Counted == ram >= generation + Cardinality(Bumping)

\* A file with all that was committed before the stop, or no whole file.
Good(i) == file[i].state = "whole" => file[i].version >= due
TempGood == temp = None \/ Good(temp)

\* No step that is left can put an old file in the place of the database.
Settled == Good(disk) /\ (pc["loop"] = "replace" => TempGood)

\* The last syncs that are running or still to come: the main thread's and
\* the one of atexit.
Attempts == stops + (IF pc["final"] = "idle" THEN 0 ELSE 1)

\* Where a file is written under db_lock: before the stop ...
BackupUp ==
    /\ pc["loop"] = "replace" => file[temp].version >= noted["loop"]
    /\ pc["loop"] = "clear" => file[disk].version >= noted["loop"]
    /\ ~dirty => file[disk].version >= generation
    /\ stops = 2

\* ... and after it: there are more attempts than faults until one succeeded.
BackupDown ==
    /\ due <= generation
    /\ \A s \in Syncers : pc[s] = "write" => TempGood
    /\ pc["final"] \in {"replace", "clear"} => TempGood
    /\ pc["final"] = "clear" => Good(disk)
    /\ pc["loop"] = "replace" /\ noted["loop"] >= due => TempGood
    /\ pc["loop"] = "clear" /\ noted["loop"] >= due => Good(disk)
    /\ ~dirty => Settled
    /\ ~Settled => Attempts > faults
    /\ pc["final"] \in {"write", "replace"} /\ temp = None /\ ~Settled => Attempts > faults + 1
    /\ phase = "gone" => stops = 0 /\ pc["final"] = "idle"

Backup ==
    /\ \A s \in Syncers : pc[s] # "snap"
    /\ \A s \in Syncers : pc[s] \in {"note", "open", "write"} => dbLock = s
    /\ phase = "up" => BackupUp
    /\ phase # "up" => BackupDown

BackupInv == ~serialize => Backup

-----------------------------------------------------------------------------
(* Type correctness *)

LEMMA InitTyped == Init => TypeOK
<1>1. SUFFICES ASSUME Init PROVE TypeOK
  OBVIOUS
<1>2. file \in [Inodes -> Content]
  BY <1>1 DEF Init, Content, Version, Whole
<1>3. pc \in [Threads -> Places]
  BY <1>1 DEF Init, Places
<1>4. commits \in 0..MaxCommits /\ faults \in 0..MaxFaults /\ crashes \in 0..MaxCrashes
  BY <1>1, BoundsAssumption DEF Init
<1>5. snapshot \in [Syncers -> Version] /\ noted \in [Syncers -> Version]
  BY <1>1 DEF Init, Version
<1>6. fd \in [Syncers -> Inodes \cup {None}]
  BY <1>1 DEF Init
<1>7. ram \in Version /\ generation \in Version /\ due \in Version
  BY <1>1 DEF Init, Version
<1>8. serialize \in Modes /\ dirty \in BOOLEAN
  BY <1>1 DEF Init
<1>9. phase \in {"up", "stopping", "gone"} /\ stops \in 0..2
  BY <1>1 DEF Init
<1>10. disk \in Inodes /\ temp \in Inodes \cup {None} /\ dbLock \in Threads \cup {None}
       /\ uncommitted \in BOOLEAN
  BY <1>1 DEF Init
<1>11. QED
  BY <1>2, <1>3, <1>4, <1>5, <1>6, <1>7, <1>8, <1>9, <1>10 DEF TypeOK

LEMMA StepTyped == TypeOK /\ [Next]_vars => TypeOK'
<1> SUFFICES ASSUME TypeOK, [Next]_vars PROVE TypeOK'
  OBVIOUS
<1> USE WritersAssumption, NoneAssumption, BoundsAssumption
<1> USE DEF TypeOK, Goto, files, bounds, Free, CloseTemp, Whole, Content, Version, Places,
            Threads, Syncers
<1>1. ASSUME NEW w \in Writers, BeginCommit(w) PROVE TypeOK'
  BY <1>1 DEF BeginCommit
<1>2. ASSUME NEW w \in Writers, Commit(w) PROVE TypeOK'
  <2>1. uncommitted' = FALSE /\ ram' = ram + 1 /\ pc' = [pc EXCEPT ![w] = "bump"]
    BY <1>2 DEF Commit
  <2>2. uncommitted' \in BOOLEAN
    BY <2>1
  <2>3. ram' \in Version /\ pc' \in [Threads -> Places]
    BY <2>1
  <2>4. QED
    BY <1>2, <2>2, <2>3 DEF Commit
<1>20. ASSUME NEW w \in Writers, CommitFails(w) PROVE TypeOK'
  BY <1>20 DEF CommitFails
<1>3. ASSUME NEW w \in Writers, Bump(w) PROVE TypeOK'
  BY <1>3 DEF Bump
<1>4. ASSUME NEW s \in Syncers, phase # "gone", Lock(s) PROVE TypeOK'
  BY <1>4 DEF Lock
<1>5. ASSUME NEW s \in Syncers, phase # "gone", NoteGeneration(s) PROVE TypeOK'
  BY <1>5 DEF NoteGeneration
<1>6. ASSUME NEW s \in Syncers, phase # "gone", TakeSnapshot(s) PROVE TypeOK'
  BY <1>6 DEF TakeSnapshot
<1>7. ASSUME NEW s \in Syncers, phase # "gone", OpenTemp(s) PROVE TypeOK'
  BY <1>7 DEF OpenTemp
<1>8. ASSUME NEW s \in Syncers, phase # "gone", Write(s) PROVE TypeOK'
  <2>1. PICK state \in {"whole", "mixed"} :
            file' = [file EXCEPT ![fd[s]] = [version |-> Written(s), state |-> state]]
    BY <1>8 DEF Write
  <2>2. [version |-> Written(s), state |-> state] \in Content
    BY DEF Written
  <2>3. file' \in [Inodes -> Content]
    BY <2>1, <2>2
  <2>4. QED
    BY <1>8, <2>3 DEF Write, CloseTemp, bounds
<1>9. ASSUME NEW s \in Syncers, phase # "gone", WriteFails(s) PROVE TypeOK'
  BY <1>9 DEF WriteFails
<1>10. ASSUME NEW s \in Syncers, phase # "gone", Replace(s) PROVE TypeOK'
  BY <1>10 DEF Replace
<1>11. ASSUME NEW s \in Syncers, phase # "gone", ReplaceDenied(s) PROVE TypeOK'
  BY <1>11 DEF ReplaceDenied
<1>12. ASSUME NEW s \in Syncers, phase # "gone", ClearDirty(s) PROVE TypeOK'
  BY <1>12 DEF ClearDirty
<1>13. CASE LoopBegins
  BY <1>13 DEF LoopBegins
<1>14. CASE LoopGivesUp
  BY <1>14 DEF LoopGivesUp
<1>15. CASE Stop
  BY <1>15 DEF Stop
<1>16. CASE Exit
  BY <1>16 DEF Exit
<1>17. CASE Crash
  <2>1. file[disk].version \in Version
    OBVIOUS
  <2>2. crashes' \in 0..MaxCrashes
    BY <1>17 DEF Crash
  <2>3. pc' \in [Threads -> Places]
    BY <1>17 DEF Crash
  <2>4. QED
    BY <1>17, <2>1, <2>2, <2>3 DEF Crash
<1>18. CASE UNCHANGED vars
  BY <1>18 DEF vars
<1>19. QED
  BY <1>1, <1>2, <1>3, <1>4, <1>5, <1>6, <1>7, <1>8, <1>9, <1>10, <1>11, <1>12, <1>13,
     <1>14, <1>15, <1>16, <1>17, <1>18, <1>20 DEF Next, Sync

\* Types of the database in memory, its files and the threads, whoever commits.
THEOREM TypeCorrect == Spec => []TypeOK
<1>1. Init => TypeOK
  BY InitTyped
<1>2. TypeOK /\ [Next]_vars => TypeOK'
  BY StepTyped
<1>3. QED
  BY <1>1, <1>2, PTL DEF Spec

-----------------------------------------------------------------------------
(* The file on disk while the server runs *)

LEMMA InitInv == Init => IInv
<1>1. SUFFICES ASSUME Init PROVE IInv
  OBVIOUS
<1>2. TypeOK
  BY <1>1, InitTyped
<1>3. Files /\ Up
  BY <1>1, <1>2, WritersAssumption, NoneAssumption
     DEF Init, Files, Up, Captured, Bumping, Threads, Syncers, Places, Whole
<1>4. QED
  BY <1>2, <1>3 DEF IInv

LEMMA StepInv == IInv /\ [Next]_vars => IInv'
<1> SUFFICES ASSUME IInv, [Next]_vars PROVE IInv'
  OBVIOUS
<1>a. TypeOK /\ TypeOK'
  BY StepTyped DEF IInv
<1> USE WritersAssumption, NoneAssumption, BoundsAssumption
<1> USE DEF TypeOK, Goto, files, bounds, Free, CloseTemp, Written, Whole, Content, Version,
            Places, Threads, Syncers, IInv, Files, Up, Captured, Bumping
<1>1. ASSUME NEW w \in Writers, BeginCommit(w) PROVE IInv'
  BY <1>a, <1>1 DEF BeginCommit
<1>2. ASSUME NEW w \in Writers, Commit(w) PROVE IInv'
  BY <1>a, <1>2 DEF Commit
<1>20. ASSUME NEW w \in Writers, CommitFails(w) PROVE IInv'
  BY <1>a, <1>20 DEF CommitFails
<1>3. ASSUME NEW w \in Writers, Bump(w) PROVE IInv'
  BY <1>a, <1>3 DEF Bump
<1>4. ASSUME NEW s \in Syncers, phase # "gone", Lock(s) PROVE IInv'
  BY <1>a, <1>4 DEF Lock
<1>5. ASSUME NEW s \in Syncers, phase # "gone", NoteGeneration(s) PROVE IInv'
  BY <1>a, <1>5 DEF NoteGeneration
<1>6. ASSUME NEW s \in Syncers, phase # "gone", TakeSnapshot(s) PROVE IInv'
  BY <1>a, <1>6 DEF TakeSnapshot
<1>7. ASSUME NEW s \in Syncers, phase # "gone", OpenTemp(s) PROVE IInv'
  BY <1>a, <1>7 DEF OpenTemp
<1>8. ASSUME NEW s \in Syncers, phase # "gone", Write(s) PROVE IInv'
  BY <1>a, <1>8 DEF Write
<1>9. ASSUME NEW s \in Syncers, phase # "gone", WriteFails(s) PROVE IInv'
  BY <1>a, <1>9 DEF WriteFails
<1>10. ASSUME NEW s \in Syncers, phase # "gone", Replace(s) PROVE IInv'
  BY <1>a, <1>10 DEF Replace
<1>11. ASSUME NEW s \in Syncers, phase # "gone", ReplaceDenied(s) PROVE IInv'
  BY <1>a, <1>11 DEF ReplaceDenied
<1>12. ASSUME NEW s \in Syncers, phase # "gone", ClearDirty(s) PROVE IInv'
  BY <1>a, <1>12 DEF ClearDirty
<1>13. CASE LoopBegins
  BY <1>a, <1>13 DEF LoopBegins
<1>14. CASE LoopGivesUp
  BY <1>a, <1>14 DEF LoopGivesUp
<1>15. CASE Stop
  BY <1>a, <1>15 DEF Stop
<1>16. CASE Exit
  BY <1>a, <1>16 DEF Exit
<1>17. CASE Crash
  BY <1>a, <1>17 DEF Crash
<1>18. CASE UNCHANGED vars
  BY <1>a, <1>18 DEF vars
<1>19. QED
  BY <1>1, <1>2, <1>3, <1>4, <1>5, <1>6, <1>7, <1>8, <1>9, <1>10, <1>11, <1>12, <1>13,
     <1>14, <1>15, <1>16, <1>17, <1>18, <1>20 DEF Next, Sync

LEMMA InvAlways == Spec => []IInv
<1>1. Init => IInv
  BY InitInv
<1>2. IInv /\ [Next]_vars => IInv'
  BY StepInv
<1>3. QED
  BY <1>1, <1>2, PTL DEF Spec

\* As long as the server runs, the file that a crash would leave behind is a
\* whole database: what was still being written is never moved.
THEOREM DiskIsWhole == Spec => []DiskWhole
<1>1. IInv => DiskWhole
  BY DEF IInv, Up, DiskWhole
<1>2. QED
  BY <1>1, InvAlways, PTL

\* A clean flag never hides a commit, though the loop clears it long after
\* it let go of the lock, and though some threads commit without the lock.
THEOREM CleanSaved == Spec => []CleanIsSaved
<1>1. IInv => CleanIsSaved
  <2>1. SUFFICES ASSUME IInv, phase = "up", ~dirty, ~Between("bump")
                 PROVE  file[disk] = Whole(ram)
    BY DEF IInv, CleanIsSaved
  <2>2. Bumping = {}
    BY <2>1 DEF Between, Bumping
  <2>3. file[disk].version = ram /\ file[disk].state = "whole"
    BY <2>1, <2>2 DEF IInv, Up
  <2>4. QED
    BY <2>1, <2>3 DEF IInv, TypeOK, Content, Whole
<1>2. QED
  BY <1>1, InvAlways, PTL

-----------------------------------------------------------------------------
(* The file on disk after the server stopped *)

LEMMA BumpingFinite == IsFiniteSet(Bumping) /\ Cardinality(Bumping) \in Nat
  BY WritersAssumption, FS_Subset, FS_CardinalityType DEF Bumping

LEMMA StepCounted == TypeOK /\ Counted /\ [Next]_vars => Counted'
<1> SUFFICES ASSUME TypeOK, Counted, [Next]_vars PROVE Counted'
  OBVIOUS
<1> USE WritersAssumption
<1>1. ASSUME NEW w \in Writers, Commit(w) PROVE Counted'
  <2>1. Bumping' = Bumping \cup {w} /\ w \notin Bumping
    BY <1>1 DEF Commit, Goto, Bumping, TypeOK, Threads
  <2>2. Cardinality(Bumping') = Cardinality(Bumping) + 1
    BY BumpingFinite, <2>1, FS_AddElement
  <2>3. QED
    BY BumpingFinite, <1>1, <2>2 DEF Commit, Counted, TypeOK, Version
<1>2. ASSUME NEW w \in Writers, Bump(w) PROVE Counted'
  <2>1. Bumping' = Bumping \ {w} /\ w \in Bumping
    BY <1>2 DEF Bump, Goto, Bumping, TypeOK, Threads
  <2>2. Cardinality(Bumping') = Cardinality(Bumping) - 1
    BY BumpingFinite, <2>1, FS_RemoveElement
  <2>3. QED
    BY BumpingFinite, <1>2, <2>2 DEF Bump, Counted, TypeOK, Version
<1>3. CASE Crash
  <2>1. Cardinality(Bumping') = 0
    BY <1>3, FS_EmptySet DEF Crash, Bumping, Threads
  <2>2. QED
    BY <1>3, <2>1 DEF Crash, Counted, TypeOK, Version, Content
<1>4. ASSUME UNCHANGED <<ram, generation>>, Bumping' = Bumping PROVE Counted'
  BY <1>4 DEF Counted
<1>11. ASSUME NEW w \in Writers, CommitFails(w) PROVE Counted'
  <2>1. Bumping' = Bumping
    BY <1>11 DEF CommitFails, Goto, Bumping, TypeOK, Threads
  <2>2. QED
    BY <1>4, <1>11, <2>1 DEF CommitFails
<1>5. ASSUME NEW w \in Writers, BeginCommit(w) PROVE Counted'
  <2>1. Bumping' = Bumping
    BY <1>5 DEF BeginCommit, Goto, Bumping, TypeOK, Threads
  <2>2. QED
    BY <1>4, <1>5, <2>1 DEF BeginCommit
<1>6. ASSUME NEW s \in Syncers, NEW place \in Places, Goto(s, place) PROVE Bumping' = Bumping
  BY <1>6 DEF Goto, Bumping, TypeOK, Threads, Syncers
<1>7. ASSUME NEW s \in Syncers, Sync(s) PROVE Counted'
  <2>1. \E place \in Places : Goto(s, place)
    BY <1>7 DEF Sync, Lock, NoteGeneration, TakeSnapshot, OpenTemp, Write, WriteFails,
                Replace, ReplaceDenied, ClearDirty, Places
  <2>2. UNCHANGED <<ram, generation>>
    BY <1>7 DEF Sync, Lock, NoteGeneration, TakeSnapshot, OpenTemp, Write, WriteFails,
                Replace, ReplaceDenied, ClearDirty
  <2>3. QED
    BY <1>4, <1>6, <2>1, <2>2
<1>8. CASE LoopBegins \/ LoopGivesUp \/ Stop
  <2>1. \E s \in Syncers, place \in Places : Goto(s, place)
    BY <1>8 DEF LoopBegins, LoopGivesUp, Stop, Syncers, Places
  <2>2. QED
    BY <1>4, <1>6, <1>8, <2>1 DEF LoopBegins, LoopGivesUp, Stop
<1>9. CASE Exit \/ UNCHANGED vars
  BY <1>4, <1>9 DEF Exit, vars, Bumping
<1>10. QED
  BY <1>1, <1>2, <1>3, <1>5, <1>7, <1>8, <1>9, <1>11 DEF Next

\* Two attempts outlast one fault.
LEMMA StepBackup ==
  ASSUME MaxFaults <= 1
  PROVE  IInv /\ Counted /\ BackupInv /\ [Next]_vars => BackupInv'
<1>s. [Next]_vars => serialize' = serialize
  BY DEF Next, vars, bounds, Sync, BeginCommit, Commit, CommitFails, Bump, LoopBegins, LoopGivesUp, Stop,
         Exit, Crash, Lock, NoteGeneration, TakeSnapshot, OpenTemp, Write, WriteFails, Replace,
         ReplaceDenied, ClearDirty
<1> SUFFICES ASSUME IInv, Counted, BackupInv, [Next]_vars, ~serialize
             PROVE  Backup'
  BY <1>s DEF BackupInv
<1>a. IInv' /\ Backup
  BY StepInv DEF BackupInv
<1>b. ram >= generation
  BY BumpingFinite DEF Counted, IInv, TypeOK, Version
<1> USE MaxFaults <= 1, WritersAssumption, NoneAssumption, BoundsAssumption
<1> USE DEF TypeOK, Goto, files, bounds, Free, CloseTemp, Written, Whole, Content, Version,
            Places, Threads, Syncers, IInv, Files, Up, Captured, Backup, Good, BackupUp,
            BackupDown, TempGood, Settled, Attempts
<1>1. ASSUME NEW w \in Writers, BeginCommit(w) PROVE Backup'
  BY <1>a, <1>b, <1>1 DEF BeginCommit
<1>2. ASSUME NEW w \in Writers, Commit(w) PROVE Backup'
  BY <1>a, <1>b, <1>2 DEF Commit
<1>20. ASSUME NEW w \in Writers, CommitFails(w) PROVE Backup'
  BY <1>a, <1>b, <1>20 DEF CommitFails
<1>3. ASSUME NEW w \in Writers, Bump(w) PROVE Backup'
  BY <1>a, <1>b, <1>3 DEF Bump
<1>4. ASSUME NEW s \in Syncers, phase # "gone", Lock(s) PROVE Backup'
  BY <1>a, <1>b, <1>4 DEF Lock
<1>5. ASSUME NEW s \in Syncers, phase # "gone", NoteGeneration(s) PROVE Backup'
  BY <1>a, <1>b, <1>5 DEF NoteGeneration
<1>6. ASSUME NEW s \in Syncers, phase # "gone", TakeSnapshot(s) PROVE Backup'
  BY <1>a, <1>b, <1>6 DEF TakeSnapshot
<1>7. ASSUME NEW s \in Syncers, phase # "gone", OpenTemp(s) PROVE Backup'
  BY <1>a, <1>b, <1>7 DEF OpenTemp
<1>8. ASSUME NEW s \in Syncers, phase # "gone", Write(s) PROVE Backup'
  BY <1>a, <1>b, <1>8 DEF Write
<1>9. ASSUME NEW s \in Syncers, phase # "gone", WriteFails(s) PROVE Backup'
  BY <1>a, <1>b, <1>9 DEF WriteFails
<1>10. ASSUME NEW s \in Syncers, phase # "gone", Replace(s) PROVE Backup'
  BY <1>a, <1>b, <1>10 DEF Replace
<1>11. ASSUME NEW s \in Syncers, phase # "gone", ReplaceDenied(s) PROVE Backup'
  BY <1>a, <1>b, <1>11 DEF ReplaceDenied
<1>12. ASSUME NEW s \in Syncers, phase # "gone", ClearDirty(s) PROVE Backup'
  BY <1>a, <1>b, <1>12 DEF ClearDirty
<1>13. CASE LoopBegins
  BY <1>a, <1>b, <1>13 DEF LoopBegins
<1>14. CASE LoopGivesUp
  BY <1>a, <1>b, <1>14 DEF LoopGivesUp
<1>15. CASE Stop
  BY <1>a, <1>b, <1>15 DEF Stop
<1>16. CASE Exit
  BY <1>a, <1>b, <1>16 DEF Exit
<1>17. CASE Crash
  BY <1>a, <1>b, <1>17 DEF Crash
<1>18. CASE UNCHANGED vars
  BY <1>a, <1>b, <1>18 DEF vars
<1>19. QED
  BY <1>1, <1>2, <1>3, <1>4, <1>5, <1>6, <1>7, <1>8, <1>9, <1>10, <1>11, <1>12, <1>13,
     <1>14, <1>15, <1>16, <1>17, <1>18, <1>20 DEF Next, Sync

\* Where the snapshot is written under db_lock, what was committed before the
\* stop is in the file when the server is gone, if at most one write or
\* replacement fails: the main thread's sync and the one of atexit do not
\* both fail, and the loop, which still runs, undoes neither.  With two
\* failures it is false.
THEOREM BackupSaves == ASSUME MaxFaults <= 1 PROVE Spec => []BackupShutdownSaves
<1>1. Init => Counted /\ BackupInv
  <2>1. SUFFICES ASSUME Init PROVE Counted /\ BackupInv
    OBVIOUS
  <2>2. Bumping = {}
    BY <2>1, WritersAssumption DEF Init, Bumping, Threads
  <2>3. Counted
    BY <2>1, <2>2, FS_EmptySet DEF Init, Counted
  <2>4. BackupInv
    BY <2>1 DEF Init, BackupInv, Backup, BackupUp, Threads, Syncers, Whole
  <2>5. QED
    BY <2>3, <2>4
<1>2. IInv /\ Counted /\ [Next]_vars => Counted'
  BY StepCounted DEF IInv
<1>3. IInv /\ Counted /\ BackupInv /\ [Next]_vars => BackupInv'
  BY StepBackup
<1>4. IInv /\ BackupInv => BackupShutdownSaves
  <2>1. SUFFICES ASSUME IInv, Backup, phase = "gone", file[disk].state = "whole"
                 PROVE  file[disk].version >= due
    BY DEF BackupInv, BackupShutdownSaves, ShutdownSaves
  <2>2. Attempts = 0
    BY <2>1 DEF Backup, BackupDown, Attempts
  <2>3. Settled
    BY <2>1, <2>2, BoundsAssumption DEF Backup, BackupDown, IInv, TypeOK
  <2>4. QED
    BY <2>1, <2>3 DEF Settled, Good
<1>5. QED
  BY <1>1, <1>2, <1>3, <1>4, InvAlways, PTL DEF Spec

-----------------------------------------------------------------------------
(* The query log: entries, as sets and as sequences *)

Increasing(s) == \A i, j \in DOMAIN s : i < j => s[i] < s[j]
Below(S, T) == \A m \in S, n \in T : m < n
Set(s) == SC!ToSet(s)
Entries == Set(log) \cup Set(batch) \cup Set(queue)
LogsTyped ==
    /\ queue \in Seq(Nat) /\ batch \in Seq(Nat) /\ log \in Seq(Nat)
    /\ saved.log \in Seq(Nat) /\ synced.log \in Seq(Nat)
    /\ produced \in 0..MaxEntries
    /\ Len(queue) <= QueueMax /\ Len(batch) <= BatchMax
Ordered ==
    /\ Increasing(log) /\ Increasing(batch) /\ Increasing(queue)
    /\ Increasing(saved.log) /\ Increasing(synced.log)
    /\ Below(Set(log), Set(batch)) /\ Below(Set(log), Set(queue)) /\ Below(Set(batch), Set(queue))
    /\ Set(saved.log) \subseteq Set(log)
Accounted ==
    /\ 1..produced = Entries \cup dropped \cup lost
    /\ Entries \cap dropped = {} /\ Entries \cap lost = {} /\ dropped \cap lost = {}
    /\ Set(synced.log) \subseteq (1..produced) \ dropped
EntriesInv == LogsTyped /\ Ordered /\ Accounted

\* What a sequence of entries holds, and what its concatenations and pieces hold.
LEMMA SetOf ==
  ASSUME NEW s \in Seq(Nat)
  PROVE  /\ Set(s) = {s[i] : i \in 1..Len(s)} /\ Set(s) \subseteq Nat
         /\ DOMAIN s = 1..Len(s) /\ Len(s) \in Nat
  BY DEF Set, SC!ToSet

LEMMA SetEmpty == Set(<<>>) = {} /\ <<>> \in Seq(Nat) /\ Len(<<>>) = 0 /\ Increasing(<<>>)
  BY DEF Set, SC!ToSet, Increasing

LEMMA SetConcat ==
  ASSUME NEW s \in Seq(Nat), NEW r \in Seq(Nat)
  PROVE  /\ s \o r \in Seq(Nat) /\ Len(s \o r) = Len(s) + Len(r)
         /\ Set(s \o r) = Set(s) \cup Set(r)
         /\ Increasing(s) /\ Increasing(r) /\ Below(Set(s), Set(r)) => Increasing(s \o r)
<1> DEFINE c == s \o r
<1>1. /\ c \in Seq(Nat) /\ Len(c) = Len(s) + Len(r)
      /\ \A i \in 1..Len(s) : c[i] = s[i]
      /\ \A i \in 1..Len(r) : c[Len(s) + i] = r[i]
  OBVIOUS
<1> HIDE DEF c
<1>2. /\ Set(c) = {c[i] : i \in 1..Len(c)} /\ DOMAIN c = 1..Len(c)
      /\ Set(s) = {s[i] : i \in 1..Len(s)} /\ DOMAIN s = 1..Len(s) /\ Len(s) \in Nat
      /\ Set(r) = {r[i] : i \in 1..Len(r)} /\ DOMAIN r = 1..Len(r) /\ Len(r) \in Nat
  BY <1>1, SetOf
<1>3. \A i \in 1..Len(c) : i \in 1..Len(s) \/ (i - Len(s) \in 1..Len(r) /\ c[i] = r[i - Len(s)])
  <2>1. SUFFICES ASSUME NEW i \in 1..Len(c), i \notin 1..Len(s)
                 PROVE  i - Len(s) \in 1..Len(r) /\ c[i] = r[i - Len(s)]
    OBVIOUS
  <2>2. i - Len(s) \in 1..Len(r)
    BY <1>1, <1>2, <2>1
  <2>3. Len(s) + (i - Len(s)) = i
    BY <1>2
  <2>4. QED
    BY <1>1, <2>2, <2>3
<1>4. Set(c) \subseteq Set(s) \cup Set(r)
  BY <1>1, <1>2, <1>3
<1>5. Set(s) \subseteq Set(c) /\ Set(r) \subseteq Set(c)
  <2>1. ASSUME NEW i \in 1..Len(s) PROVE s[i] \in Set(c)
    BY <1>1, <1>2
  <2>2. ASSUME NEW i \in 1..Len(r) PROVE r[i] \in Set(c)
    <3>1. Len(s) + i \in 1..Len(c) /\ c[Len(s) + i] = r[i]
      BY <1>1, <1>2
    <3>2. QED
      BY <1>2, <3>1
  <2>3. QED
    BY <1>2, <2>1, <2>2
<1>6. ASSUME Increasing(s), Increasing(r), Below(Set(s), Set(r)) PROVE Increasing(c)
  <2>1. SUFFICES ASSUME NEW i \in 1..Len(c), NEW j \in 1..Len(c), i < j PROVE c[i] < c[j]
    BY <1>2 DEF Increasing
  <2>2. CASE j \in 1..Len(s)
    <3>1. i \in 1..Len(s)
      BY <1>2, <2>1, <2>2
    <3>2. s[i] < s[j]
      BY <1>2, <1>6, <2>1, <2>2, <3>1 DEF Increasing
    <3>3. QED
      BY <1>1, <2>2, <3>1, <3>2
  <2>3. CASE i \notin 1..Len(s)
    <3>1. j \notin 1..Len(s)
      BY <1>2, <2>1, <2>3
    <3>2. /\ i - Len(s) \in 1..Len(r) /\ c[i] = r[i - Len(s)]
          /\ j - Len(s) \in 1..Len(r) /\ c[j] = r[j - Len(s)]
      BY <1>3, <2>3, <3>1
    <3>3. i - Len(s) < j - Len(s)
      BY <1>2, <2>1
    <3>4. QED
      BY <1>2, <1>6, <3>2, <3>3 DEF Increasing
  <2>4. CASE i \in 1..Len(s) /\ j \notin 1..Len(s)
    <3>1. c[i] = s[i] /\ s[i] \in Set(s)
      BY <1>1, <1>2, <2>4
    <3>2. j - Len(s) \in 1..Len(r) /\ c[j] = r[j - Len(s)]
      BY <1>3, <2>4
    <3>3. r[j - Len(s)] \in Set(r)
      BY <1>2, <3>2
    <3>4. QED
      BY <1>6, <3>1, <3>2, <3>3 DEF Below
  <2>5. QED
    BY <2>2, <2>3, <2>4
<1>7. QED
  BY <1>1, <1>4, <1>5, <1>6 DEF c

LEMMA SetAppend ==
  ASSUME NEW s \in Seq(Nat), NEW n \in Nat
  PROVE  /\ Append(s, n) \in Seq(Nat) /\ Len(Append(s, n)) = Len(s) + 1
         /\ Set(Append(s, n)) = Set(s) \cup {n}
         /\ Increasing(s) /\ Below(Set(s), {n}) => Increasing(Append(s, n))
<1>1. <<n>> \in Seq(Nat) /\ Len(<<n>>) = 1 /\ <<n>>[1] = n
  OBVIOUS
<1>2. Set(<<n>>) = {n} /\ Increasing(<<n>>)
  <2>1. DOMAIN <<n>> = 1..1
    OBVIOUS
  <2>2. QED
    BY <1>1, <2>1 DEF Increasing, Set, SC!ToSet
<1>3. Append(s, n) = s \o <<n>>
  BY AppendIsConcat
<1>4. QED
  BY <1>1, <1>2, <1>3, SetConcat

LEMMA SetSplit ==
  ASSUME NEW s \in Seq(Nat), NEW n \in 0..Len(s)
  PROVE  /\ SubSeq(s, 1, n) \in Seq(Nat) /\ SubSeq(s, n + 1, Len(s)) \in Seq(Nat)
         /\ Len(SubSeq(s, 1, n)) = n /\ Len(SubSeq(s, n + 1, Len(s))) = Len(s) - n
         /\ Set(s) = Set(SubSeq(s, 1, n)) \cup Set(SubSeq(s, n + 1, Len(s)))
         /\ Increasing(s) => /\ Increasing(SubSeq(s, 1, n)) /\ Increasing(SubSeq(s, n + 1, Len(s)))
                             /\ Below(Set(SubSeq(s, 1, n)), Set(SubSeq(s, n + 1, Len(s))))
<1> DEFINE a == SubSeq(s, 1, n)
           b == SubSeq(s, n + 1, Len(s))
<1>1. /\ Set(s) = {s[i] : i \in 1..Len(s)} /\ DOMAIN s = 1..Len(s) /\ Len(s) \in Nat
  BY SetOf
<1>2. /\ a \in Seq(Nat) /\ Len(a) = n
      /\ \A i \in 1..n : a[i] = s[i]
  BY <1>1
<1>3. /\ b \in Seq(Nat) /\ Len(b) = Len(s) - n
      /\ \A i \in 1..Len(s) - n : b[i] = s[n + i]
  <2>1. \A i \in (n + 1)..Len(s) : s[i] \in Nat
    BY <1>1
  <2>2. /\ b \in Seq(Nat) /\ Len(b) = IF n + 1 <= Len(s) THEN Len(s) - (n + 1) + 1 ELSE 0
        /\ \A i \in 1..(Len(s) - (n + 1) + 1) : b[i] = s[(n + 1) + i - 1]
    BY <1>1, <2>1, SubSeqProperties
  <2>3. ASSUME NEW i \in 1..Len(s) - n PROVE b[i] = s[n + i]
    <3>1. i \in 1..(Len(s) - (n + 1) + 1) /\ (n + 1) + i - 1 = n + i
      BY <1>1
    <3>2. b[i] = s[(n + 1) + i - 1]
      BY <2>2, <3>1
    <3>3. QED
      BY <3>1, <3>2
  <2>4. Len(b) = Len(s) - n
    <3>1. CASE n + 1 <= Len(s)
      BY <1>1, <2>2, <3>1
    <3>2. CASE n = Len(s)
      BY <1>1, <2>2, <3>2
    <3>3. Len(s) \in Nat
      BY <1>1
    <3>4. n + 1 <= Len(s) \/ n = Len(s)
      BY <3>3
    <3>5. QED
      BY <3>1, <3>2, <3>4
  <2>5. QED
    BY <2>2, <2>3, <2>4
<1> HIDE DEF a, b
<1>4. /\ Set(a) = {a[i] : i \in 1..n} /\ DOMAIN a = 1..n
      /\ Set(b) = {b[i] : i \in 1..Len(s) - n} /\ DOMAIN b = 1..Len(s) - n
  BY <1>2, <1>3, SetOf
<1>5. \A i \in 1..Len(s) - n : n + i \in 1..Len(s) /\ n + i > n
  BY <1>1
<1>6. \A i \in 1..Len(s) : i \in 1..n \/ (i - n \in 1..Len(s) - n /\ n + (i - n) = i)
  BY <1>1
<1>7. Set(s) = Set(a) \cup Set(b)
  <2>1. ASSUME NEW i \in 1..Len(s) PROVE s[i] \in Set(a) \cup Set(b)
    <3>1. CASE i \in 1..n
      BY <1>2, <1>4, <3>1
    <3>2. CASE i - n \in 1..Len(s) - n /\ n + (i - n) = i
      <4>1. b[i - n] = s[i]
        BY <1>3, <3>2
      <4>2. QED
        BY <1>4, <3>2, <4>1
    <3>3. QED
      BY <1>6, <3>1, <3>2
  <2>2. ASSUME NEW i \in 1..n PROVE a[i] \in Set(s)
    <3>1. i \in 1..Len(s) /\ a[i] = s[i]
      BY <1>1, <1>2
    <3>2. QED
      BY <1>1, <3>1
  <2>3. ASSUME NEW i \in 1..Len(s) - n PROVE b[i] \in Set(s)
    BY <1>1, <1>3, <1>5
  <2>4. QED
    BY <1>1, <1>4, <2>1, <2>2, <2>3
<1>8. ASSUME Increasing(s) PROVE Increasing(a) /\ Increasing(b) /\ Below(Set(a), Set(b))
  <2>1. Increasing(a)
    <3>1. SUFFICES ASSUME NEW i \in 1..n, NEW j \in 1..n, i < j PROVE a[i] < a[j]
      BY <1>4 DEF Increasing
    <3>2. i \in 1..Len(s) /\ j \in 1..Len(s)
      BY <1>1
    <3>3. QED
      BY <1>1, <1>2, <1>8, <3>1, <3>2 DEF Increasing
  <2>2. Increasing(b)
    <3>1. SUFFICES ASSUME NEW i \in 1..Len(s) - n, NEW j \in 1..Len(s) - n, i < j
           PROVE b[i] < b[j]
      BY <1>4 DEF Increasing
    <3>2. n + i \in 1..Len(s) /\ n + j \in 1..Len(s) /\ n + i < n + j
      BY <1>5, <3>1
    <3>3. s[n + i] < s[n + j]
      BY <1>1, <1>8, <3>2 DEF Increasing
    <3>4. QED
      BY <1>3, <3>3
  <2>3. Below(Set(a), Set(b))
    <3>1. ASSUME NEW i \in 1..n, NEW j \in 1..Len(s) - n PROVE a[i] < b[j]
      <4>1. i \in 1..Len(s) /\ n + j \in 1..Len(s) /\ i < n + j
        BY <1>1, <1>5
      <4>2. s[i] < s[n + j]
        BY <1>1, <1>8, <4>1 DEF Increasing
      <4>3. QED
        BY <1>2, <1>3, <4>2
    <3>2. QED
      BY <1>4, <3>1 DEF Below
  <2>4. QED
    BY <2>1, <2>2, <2>3
<1>9. QED
  BY <1>2, <1>3, <1>7, <1>8 DEF a, b

\* Increasing: no two entries are the same, so there are as many as places.
LEMMA SetCardinality ==
  ASSUME NEW s \in Seq(Nat), Increasing(s)
  PROVE  IsFiniteSet(Set(s)) /\ Cardinality(Set(s)) = Len(s)
<1>1. s \in [1..Len(s) -> Set(s)] /\ Len(s) \in Nat
  BY SetOf
<1>2. \A i, j \in 1..Len(s) : i # j => s[i] # s[j]
  BY SetOf DEF Increasing
<1>3. s \in Bijection(1..Len(s), Set(s))
  BY <1>1, <1>2, SetOf DEF Bijection, Injection, Surjection, IsInjective
<1>4. ExistsBijection(1..Len(s), Set(s))
  BY <1>3 DEF ExistsBijection
<1>5. QED
  BY <1>1, <1>4, FS_CountingElements, FS_NatBijection

\* Every step keeps the entries in order and accounted for.
LEMMA EntriesStep == EntriesInv /\ [SC!Next]_connectionVars => EntriesInv'
<1> SUFFICES ASSUME EntriesInv, [SC!Next]_connectionVars PROVE EntriesInv'
  OBVIOUS
<1>a. /\ Set(log) \subseteq 1..produced /\ Set(batch) \subseteq 1..produced
      /\ Set(queue) \subseteq 1..produced
  BY DEF EntriesInv, Accounted, Entries
<1>b. produced \in Nat
  BY ConnectionAssumption DEF EntriesInv, LogsTyped
<1>c. Len(queue) \in Nat /\ Len(batch) \in Nat
  BY DEF EntriesInv, LogsTyped
<1> USE DEF EntriesInv, LogsTyped, Ordered, Accounted, Entries, SC!Commit, SC!tables, SC!entries,
       SC!Write, SC!Abort, SC!Fault, SC!disk, SC!keeping
<1>1. CASE SC!LogQuery
  <2>1. CASE Len(queue) < QueueMax
    <3>1. /\ queue' = Append(queue, produced + 1) /\ produced' = produced + 1
          /\ UNCHANGED <<dropped, log, batch, lost, saved, synced>>
      BY <1>1, <2>1 DEF SC!LogQuery, SC!disk
    <3>2. Below(Set(queue), {produced + 1})
      BY <1>a, <1>b DEF Below
    <3>3. /\ queue' \in Seq(Nat) /\ Set(queue') = Set(queue) \cup {produced + 1}
          /\ Increasing(queue') /\ Len(queue') = Len(queue) + 1
      <4>1. queue \in Seq(Nat) /\ Increasing(queue) /\ produced + 1 \in Nat
        BY <1>b
      <4>2. QED
        BY ONLY <4>1, <3>1, <3>2, SetAppend
    <3>4. 1..produced + 1 = (1..produced) \cup {produced + 1} /\ produced + 1 \notin 1..produced
      BY <1>b
    <3>9. produced + 1 \in 0..MaxEntries /\ Len(queue) + 1 <= QueueMax
      BY <1>b, <1>1, <2>1, <1>c, ConnectionAssumption DEF SC!LogQuery
    <3>5. LogsTyped'
      BY <3>1, <3>3, <3>9
    <3>6. Ordered'
      BY <1>a, <1>b, <3>1, <3>3 DEF Below
    <3>7. Accounted'
      BY <1>a, <3>1, <3>3, <3>4
    <3>8. QED
      BY <3>5, <3>6, <3>7
  <2>2. CASE ~(Len(queue) < QueueMax)
    <3>1. /\ dropped' = dropped \cup {produced + 1} /\ produced' = produced + 1
          /\ UNCHANGED <<queue, log, batch, lost, saved, synced>>
      BY <1>1, <2>2 DEF SC!LogQuery, SC!disk
    <3>4. 1..produced + 1 = (1..produced) \cup {produced + 1} /\ produced + 1 \notin 1..produced
      BY <1>b
    <3>5. produced' \in 0..MaxEntries
      BY <1>b, <1>1, <3>1, ConnectionAssumption DEF SC!LogQuery
    <3>6. QED
      BY <1>a, <3>1, <3>4, <3>5
  <2>3. QED
    BY <2>1, <2>2
<1>2. CASE SC!TakeBatch
  <2>1. /\ batch = <<>> /\ queue # <<>> /\ batch' = SubSeq(queue, 1, SC!Size)
        /\ queue' = SubSeq(queue, SC!Size + 1, Len(queue))
        /\ UNCHANGED <<produced, dropped, lost, log, saved, synced>>
    BY <1>2 DEF SC!TakeBatch
  <2>2. SC!Size \in 0..Len(queue) /\ SC!Size <= BatchMax
    BY <1>c, ConnectionAssumption DEF SC!Size, SC!Smaller
  <2>3. /\ batch' \in Seq(Nat) /\ queue' \in Seq(Nat)
        /\ Len(batch') = SC!Size /\ Len(queue') = Len(queue) - SC!Size
        /\ Set(queue) = Set(batch') \cup Set(queue')
        /\ Increasing(batch') /\ Increasing(queue') /\ Below(Set(batch'), Set(queue'))
    BY <2>1, <2>2, SetSplit
  <2>4. LogsTyped'
    <3>1. Len(queue) - SC!Size <= Len(queue)
      BY <1>c, <2>2
    <3>2. QED
      BY <1>c, <2>1, <2>2, <2>3, <3>1, ConnectionAssumption
  <2>5. Ordered'
    BY <2>1, <2>3 DEF Below
  <2>6. Accounted'
    BY <2>1, <2>3, SetEmpty
  <2>7. QED
    BY <2>4, <2>5, <2>6
<1>3. CASE SC!Insert
  <2>1. log' = log \o batch /\ saved'.log = log' /\ batch' = <<>> /\ UNCHANGED <<produced, queue,
         dropped, lost>> /\ (synced' = synced \/ synced' = saved')
    BY <1>3 DEF SC!Insert
  <2>2. log' \in Seq(Nat) /\ Set(log') = Set(log) \cup Set(batch) /\ Increasing(log')
    BY <2>1, SetConcat
  <2>3. LogsTyped'
    <3>1. saved'.log \in Seq(Nat) /\ Set(saved'.log) \subseteq 1..produced'
      BY <1>a, <2>1, <2>2
    <3>2. synced'.log \in Seq(Nat) /\ Set(synced'.log) \subseteq 1..produced'
      BY <2>1, <3>1
    <3>3. QED
      BY <2>1, <2>2, <3>1, <3>2, SetEmpty, ConnectionAssumption
  <2>4. Ordered'
    BY <2>1, <2>2, SetEmpty DEF Below
  <2>5. Accounted'
    BY <2>1, <2>2, SetEmpty
  <2>6. QED
    BY <2>3, <2>4, <2>5
<1>4. CASE SC!InsertFails
  <2>1. PICK n \in 0..Len(batch) :
            /\ log' = log \o SubSeq(batch, 1, n)
            /\ lost' = lost \cup Set(SubSeq(batch, n + 1, Len(batch)))
    BY <1>4 DEF SC!InsertFails, Set
  <2>2. batch' = <<>> /\ UNCHANGED <<produced, queue, dropped, saved, synced>>
    BY <1>4 DEF SC!InsertFails
  <2> DEFINE a == SubSeq(batch, 1, n)
             b == SubSeq(batch, n + 1, Len(batch))
  <2>4. /\ a \in Seq(Nat) /\ b \in Seq(Nat) /\ Set(batch) = Set(a) \cup Set(b)
        /\ Increasing(a) /\ Increasing(b) /\ Below(Set(a), Set(b))
    BY <2>1, SetSplit
  <2>5. log' = log \o a /\ lost' = lost \cup Set(b)
    BY <2>1
  <2> HIDE DEF a, b
  <2>6. Below(Set(log), Set(a))
    BY <2>4 DEF Below
  <2>7. log' \in Seq(Nat) /\ Set(log') = Set(log) \cup Set(a) /\ Increasing(log')
    BY <2>4, <2>5, <2>6, SetConcat
  <2>8. LogsTyped'
    BY <2>2, <2>7, SetEmpty, ConnectionAssumption
  <2>9. Ordered'
    BY <2>2, <2>4, <2>7, SetEmpty DEF Below
  <2>10. Set(log) \cap Set(b) = {} /\ Set(a) \cap Set(b) = {} /\ Set(queue) \cap Set(b) = {}
    <3>1. /\ Set(log) \subseteq Nat /\ Set(queue) \subseteq Nat
          /\ Set(b) \subseteq Nat /\ Set(a) \subseteq Nat
      BY <2>4, SetOf
    <3>2. QED
      BY <2>4, <3>1 DEF Below
  <2>11. Accounted'
    BY <2>2, <2>4, <2>5, <2>7, <2>10, SetEmpty
  <2>12. QED
    BY <2>8, <2>9, <2>11
<1>5. CASE SC!ClearLog
  <2>1. log' = <<>> /\ saved'.log = <<>> /\ lost' = lost \cup Set(log) /\ UNCHANGED <<produced,
         queue, batch, dropped>> /\ (synced' = synced \/ synced' = saved')
    BY <1>5 DEF SC!ClearLog, Set
  <2>2. Set(log) \cap Set(batch) = {} /\ Set(log) \cap Set(queue) = {}
    <3>1. Set(log) \subseteq Nat /\ Set(queue) \subseteq Nat /\ Set(batch) \subseteq Nat
      BY SetOf
    <3>2. QED
      BY <3>1 DEF Below
  <2>3. LogsTyped'
    BY <2>1, SetEmpty, ConnectionAssumption
  <2>4. Ordered'
    BY <2>1, SetEmpty DEF Below
  <2>5. Accounted'
    BY <2>1, <2>2, SetEmpty
  <2>6. QED
    BY <2>3, <2>4, <2>5
<1>6. CASE SC!SetSetting
  BY <1>6 DEF SC!SetSetting
<1>7. CASE SC!Audit
  BY <1>7 DEF SC!Audit
<1>8. CASE SC!BeginRestore
  BY <1>8 DEF SC!BeginRestore
<1>9. CASE SC!RestoreTable
  BY <1>9 DEF SC!RestoreTable
<1>10. CASE SC!RestoreUpstreams
  BY <1>10 DEF SC!RestoreUpstreams
<1>11. CASE SC!RestoreFails
  BY <1>11 DEF SC!RestoreFails
<1>12. CASE SC!SecondPass
  BY <1>12 DEF SC!SecondPass
<1>13. CASE SC!CommitRestore
  BY <1>13 DEF SC!CommitRestore
<1>14. CASE SC!ReloadAll
  BY <1>14 DEF SC!ReloadAll
<1>15. CASE SC!Stop
  <2>1. /\ lost' = (lost \cup Set(queue \o batch) \cup Set(log)) \ Set(synced.log)
        /\ queue' = <<>> /\ batch' = <<>> /\ log' = synced.log /\ saved' = synced
        /\ UNCHANGED <<produced, dropped, synced>>
    BY <1>15 DEF SC!Stop, Set
  <2>2. Set(queue \o batch) = Set(queue) \cup Set(batch)
    BY SetConcat
  <2>4. LogsTyped'
    BY <2>1, SetEmpty, ConnectionAssumption
  <2>5. Ordered'
    BY <2>1, SetEmpty DEF Below
  <2>6. Accounted'
    <3>1. Entries' = Set(synced.log)
      BY <2>1, SetEmpty
    <3>2. QED
      BY <2>1, <2>2, <3>1
  <2>7. QED
    BY <2>4, <2>5, <2>6
<1>18. CASE SC!Sync
  <2>1. synced'.log = log /\ UNCHANGED <<produced, queue, dropped, batch, lost, log, saved>>
    BY <1>18 DEF SC!Sync
  <2>2. QED
    BY <2>1
<1>19. CASE SC!BeginBackup
  BY <1>19 DEF SC!BeginBackup
<1>20. CASE SC!EndBackup
  <2>1. synced'.log = log /\ UNCHANGED <<produced, queue, dropped, batch, lost, log, saved>>
    BY <1>20 DEF SC!EndBackup
  <2>2. QED
    BY <2>1
<1>16. CASE UNCHANGED connectionVars
  BY <1>16 DEF connectionVars
<1>17. QED
  BY <1>1, <1>2, <1>3, <1>4, <1>5, <1>6, <1>7, <1>8, <1>9, <1>10, <1>11, <1>12, <1>13, <1>14,
       <1>15, <1>16, <1>18, <1>19, <1>20 DEF SC!Next

-----------------------------------------------------------------------------
(* The tables, and the restore that replaces them *)

TableNames == {"settings", "rules", "blocklists", "clients"}
Restored == TableNames \ {"settings"}

RestoreTyped ==
    /\ data \in SC!Data /\ saved.data \in SC!Data /\ synced.data \in SC!Data /\ served \in SC!Data
    /\ step \in 0..8 /\ outcome \in {"none", "ok", "failed", "cut"}
    /\ upstreams \in {"old", "none", "backup"}
    /\ pending \in BOOLEAN /\ torn \in BOOLEAN /\ open \in BOOLEAN /\ syncing \in BOOLEAN
RestoreProgress ==
    /\ step \in 2..7 => data["settings"] = "backup"
    /\ step \in 3..8 => data["rules"] = "backup"
    /\ step \in 4..8 => data["blocklists"] = "backup"
    /\ step \in 6..8 => data["clients"] = "backup"
    /\ step \in 5..8 => upstreams = "backup"
    /\ step # 0 => outcome = "none"
    /\ step = 8 => \A t \in Restored : saved.data[t] = "backup"
WholeIn(tables) ==
    (\E t \in TableNames : tables[t] = "backup") =>
        (\A t \in Restored : tables[t] = "backup") /\ tables["settings"] # "old"
WholeInv == ~torn => WholeIn(saved.data) /\ WholeIn(synced.data)
ServedInv ==
    outcome = "ok" /\ ~reverted =>
        /\ upstreams = "backup"
        /\ \A t \in Restored : data[t] = "backup" /\ saved.data[t] = "backup" /\ served[t] = "backup"
CommittedInv ==
    /\ saved = [log |-> saved.log, data |-> saved.data]
    /\ synced = [log |-> synced.log, data |-> synced.data]
    /\ ~pending => saved.log = log
    /\ ~pending /\ ~SC!Restoring => saved.data = data
    /\ pending => open
    /\ syncing => ~SC!Restoring
RestoreInv == RestoreTyped /\ RestoreProgress /\ CommittedInv /\ WholeInv /\ ServedInv

ConnectionInv == EntriesInv /\ RestoreInv

LEMMA RestoreTableIs ==
  ASSUME SC!RestoreTable
  PROVE  \/ step = 1 /\ data' = [data EXCEPT !["settings"] = "backup"]
         \/ step = 2 /\ data' = [data EXCEPT !["rules"] = "backup"]
         \/ step = 3 /\ data' = [data EXCEPT !["blocklists"] = "backup"]
         \/ step = 5 /\ data' = [data EXCEPT !["clients"] = "backup"]
<1>1. step \in {1, 2, 3,
       5} /\ data' = [data EXCEPT ![SC!Tables[IF step = 5 THEN 4 ELSE step]] = "backup"]
  BY DEF SC!RestoreTable
<1>2. /\ SC!Tables[1] = "settings" /\ SC!Tables[2] = "rules"
      /\ SC!Tables[3] = "blocklists" /\ SC!Tables[4] = "clients"
  BY DEF SC!Tables
<1>3. QED
  BY <1>1, <1>2

LEMMA TablesAre == SC!ToSet(SC!Tables) = TableNames
  BY DEF SC!ToSet, SC!Tables, TableNames

\* A commit, and what gives up a restore.
LEMMA CommitIs ==
  ASSUME RestoreTyped, NEW newLog, NEW newData \in SC!Data, SC!Commit(newLog, newData)
  PROVE  /\ log' = newLog /\ data' = newData
         /\ saved' = [log |-> newLog, data |-> newData]
         /\ synced' = synced \/ synced' = saved'
         /\ data' \in SC!Data /\ saved'.data \in SC!Data /\ synced'.data \in SC!Data
         /\ torn' \in BOOLEAN /\ pending' \in BOOLEAN /\ open' \in BOOLEAN
         /\ ~torn' => ~torn /\ ~pending /\ (SC!Restoring => data = saved.data \/ step = 7)
<1>1. /\ log' = newLog /\ data' = newData /\ saved' = [log |-> newLog, data |-> newData]
      /\ synced' = synced \/ synced' = saved'
  BY DEF SC!Commit
<1>2. data' \in SC!Data /\ saved'.data \in SC!Data
  BY <1>1
<1>3. synced'.data \in SC!Data
  BY <1>1, <1>2 DEF RestoreTyped
<1>4. open' = FALSE /\ pending' = FALSE
  BY DEF SC!Commit
<1>5. torn' = (torn \/ pending \/ (SC!Restoring /\ data # saved.data /\ step # 7))
  BY DEF SC!Commit
<1>6. open' \in BOOLEAN /\ pending' \in BOOLEAN
  BY <1>4
<1>7. torn' \in BOOLEAN
  BY <1>5
<1>8. ~torn' => ~torn /\ ~pending /\ (SC!Restoring => data = saved.data \/ step = 7)
  BY <1>5
<1>9. QED
  BY <1>1, <1>2, <1>3, <1>6, <1>7, <1>8

LEMMA AbortIs ==
  ASSUME SC!Abort
  PROVE  /\ step' = 0 /\ open' = TRUE /\ UNCHANGED <<log, data, saved, synced, syncing>>
         /\ pending' => pending \/ data # saved.data
         /\ ~pending' => ~pending /\ data = saved.data
<1>1. pending' = (pending \/ data # saved.data)
  BY DEF SC!Abort
<1>2. step' = 0 /\ open' = TRUE /\ UNCHANGED <<log, data, saved, synced, syncing>>
  BY DEF SC!Abort, SC!disk, SC!keeping
<1>3. QED
  BY <1>1, <1>2

\* The restore and what is served: types, progress, commits, wholeness, service.
LEMMA TypedStep == RestoreTyped /\ [SC!Next]_connectionVars => RestoreTyped'
<1> SUFFICES ASSUME RestoreTyped, [SC!Next]_connectionVars PROVE RestoreTyped'
  OBVIOUS
<1> USE TablesAre DEF RestoreTyped, SC!Data, SC!Commit, SC!Fault, SC!tables, SC!entries,
       SC!Write, SC!Abort, SC!LockFree, SC!Restoring, SC!disk, SC!keeping, TableNames
<1>1. CASE SC!LogQuery
  BY <1>1 DEF SC!LogQuery
<1>2. CASE SC!TakeBatch
  BY <1>2 DEF SC!TakeBatch
<1>3. CASE SC!Insert
  <2>1. SC!Commit(log \o batch, data) /\ data \in SC!Data
    BY <1>3 DEF SC!Insert
  <2>2. UNCHANGED <<step, outcome, upstreams, served, syncing>>
    BY <1>3 DEF SC!Insert
  <2>3. RestoreTyped
    OBVIOUS
  <2>4. QED
    BY ONLY <2>1, <2>2, <2>3, CommitIs DEF RestoreTyped
<1>4. CASE SC!InsertFails
  BY <1>4 DEF SC!InsertFails
<1>5. CASE SC!ClearLog
  <2>1. SC!Commit(<<>>, data) /\ data \in SC!Data
    BY <1>5 DEF SC!ClearLog
  <2>2. UNCHANGED <<step, outcome, upstreams, served, syncing>>
    BY <1>5 DEF SC!ClearLog
  <2>3. RestoreTyped
    OBVIOUS
  <2>4. QED
    BY ONLY <2>1, <2>2, <2>3, CommitIs DEF RestoreTyped
<1>6. CASE SC!SetSetting
  <2>1. SC!Commit(log, [data EXCEPT !["settings"] = "edited"]) /\ [data EXCEPT !["settings"] = "edited"] \in SC!Data
    BY <1>6 DEF SC!SetSetting
  <2>2. UNCHANGED <<step, outcome, upstreams, served, syncing>>
    BY <1>6 DEF SC!SetSetting
  <2>3. RestoreTyped
    OBVIOUS
  <2>4. QED
    BY ONLY <2>1, <2>2, <2>3, CommitIs DEF RestoreTyped
<1>7. CASE SC!Audit
  <2>1. SC!Commit(log, data) /\ data \in SC!Data
    BY <1>7 DEF SC!Audit
  <2>2. UNCHANGED <<step, outcome, upstreams, served, syncing>>
    BY <1>7 DEF SC!Audit
  <2>3. RestoreTyped
    OBVIOUS
  <2>4. QED
    BY ONLY <2>1, <2>2, <2>3, CommitIs DEF RestoreTyped
<1>8. CASE SC!BeginRestore
  BY <1>8 DEF SC!BeginRestore
<1>9. CASE SC!RestoreTable
  <2>1. data' \in SC!Data
    BY <1>9, RestoreTableIs
  <2>2. step' \in 0..8
    BY <1>9 DEF SC!RestoreTable
  <2>3. QED
    BY <1>9, <2>1, <2>2 DEF SC!RestoreTable
<1>10. CASE SC!RestoreUpstreams
  BY <1>10 DEF SC!RestoreUpstreams
<1>11. CASE SC!RestoreFails
  BY <1>11 DEF SC!RestoreFails
<1>12. CASE SC!SecondPass
  <2>1. CASE lists
    BY <1>12, <2>1 DEF SC!SecondPass
  <2>2. CASE ~lists
    BY <1>12, <2>2 DEF SC!SecondPass
  <2>3. QED
    BY <2>1, <2>2
<1>13. CASE SC!CommitRestore
  <2>1. SC!Commit(log, data) /\ data \in SC!Data
    BY <1>13 DEF SC!CommitRestore
  <2>2. step' = 8 /\ UNCHANGED <<outcome, upstreams, served, syncing>>
    BY <1>13 DEF SC!CommitRestore
  <2>3. RestoreTyped
    OBVIOUS
  <2>4. step' \in 0..8
    BY <2>2
  <2>5. QED
    BY ONLY <2>1, <2>2, <2>3, <2>4, CommitIs DEF RestoreTyped
<1>14. CASE SC!ReloadAll
  BY <1>14 DEF SC!ReloadAll
<1>15. CASE SC!Stop
  <2>1. outcome' \in {"none", "ok", "failed", "cut"}
    BY <1>15 DEF SC!Stop
  <2>2. /\ data' \in SC!Data /\ saved'.data \in SC!Data /\ synced'.data \in SC!Data
        /\ served' \in SC!Data /\ open' = FALSE /\ syncing' = FALSE
    BY <1>15 DEF SC!Stop
  <2>3. pending' = FALSE /\ step' = 0 /\ UNCHANGED <<upstreams, torn>>
    BY <1>15 DEF SC!Stop
  <2>4. torn' \in BOOLEAN /\ pending' \in BOOLEAN /\ open' \in BOOLEAN /\ syncing' \in BOOLEAN
    BY ONLY <2>2, <2>3, RestoreTyped DEF RestoreTyped
  <2>5. step' \in 0..8 /\ upstreams' \in {"old", "none", "backup"}
    BY ONLY <2>3, RestoreTyped DEF RestoreTyped
  <2>6. QED
    BY ONLY <2>1, <2>2, <2>4, <2>5 DEF RestoreTyped
<1>18. CASE SC!Sync
  BY <1>18 DEF SC!Sync
<1>19. CASE SC!BeginBackup
  BY <1>19 DEF SC!BeginBackup
<1>20. CASE SC!EndBackup
  BY <1>20 DEF SC!EndBackup
<1>16. CASE UNCHANGED connectionVars
  BY <1>16 DEF connectionVars
<1>17. QED
  BY <1>1, <1>2, <1>3, <1>4, <1>5, <1>6, <1>7, <1>8, <1>9, <1>10, <1>11, <1>12, <1>13, <1>14,
       <1>15, <1>16, <1>18, <1>19, <1>20 DEF SC!Next

LEMMA ProgressStep == RestoreTyped /\ RestoreProgress /\ [SC!Next]_connectionVars =>
     RestoreProgress'
<1> SUFFICES ASSUME RestoreTyped, RestoreProgress, [SC!Next]_connectionVars PROVE RestoreProgress'
  OBVIOUS
<1> USE TablesAre DEF RestoreTyped, RestoreProgress, Restored, SC!Data, SC!Commit, SC!Fault,
       SC!tables, SC!entries, SC!Write, SC!Abort, SC!LockFree, SC!Restoring, SC!disk, SC!keeping, TableNames
<1>1. CASE SC!LogQuery
  BY <1>1 DEF SC!LogQuery
<1>2. CASE SC!TakeBatch
  BY <1>2 DEF SC!TakeBatch
<1>3. CASE SC!Insert
  BY <1>3 DEF SC!Insert
<1>4. CASE SC!InsertFails
  BY <1>4 DEF SC!InsertFails
<1>5. CASE SC!ClearLog
  BY <1>5 DEF SC!ClearLog
<1>6. CASE SC!SetSetting
  BY <1>6 DEF SC!SetSetting
<1>7. CASE SC!Audit
  BY <1>7 DEF SC!Audit
<1>8. CASE SC!BeginRestore
  BY <1>8 DEF SC!BeginRestore
<1>9. CASE SC!RestoreTable
  BY <1>9, RestoreTableIs DEF SC!RestoreTable
<1>10. CASE SC!RestoreUpstreams
  BY <1>10 DEF SC!RestoreUpstreams
<1>11. CASE SC!RestoreFails
  BY <1>11 DEF SC!RestoreFails
<1>12. CASE SC!SecondPass
  BY <1>12 DEF SC!SecondPass
<1>13. CASE SC!CommitRestore
  BY <1>13 DEF SC!CommitRestore
<1>14. CASE SC!ReloadAll
  BY <1>14 DEF SC!ReloadAll
<1>15. CASE SC!Stop
  BY <1>15 DEF SC!Stop
<1>18. CASE SC!Sync
  BY <1>18 DEF SC!Sync
<1>19. CASE SC!BeginBackup
  BY <1>19 DEF SC!BeginBackup
<1>20. CASE SC!EndBackup
  BY <1>20 DEF SC!EndBackup
<1>16. CASE UNCHANGED connectionVars
  BY <1>16 DEF connectionVars
<1>17. QED
  BY <1>1, <1>2, <1>3, <1>4, <1>5, <1>6, <1>7, <1>8, <1>9, <1>10, <1>11, <1>12, <1>13, <1>14,
       <1>15, <1>16, <1>18, <1>19, <1>20 DEF SC!Next

LEMMA ChangesStep ==
  RestoreTyped /\ log \in Seq(Nat) /\ batch \in Seq(Nat) /\ CommittedInv /\ [SC!Next]_connectionVars
    => CommittedInv'
<1> SUFFICES ASSUME RestoreTyped, log \in Seq(Nat), batch \in Seq(Nat), CommittedInv,
       [SC!Next]_connectionVars PROVE CommittedInv'
  OBVIOUS
<1> USE DEF RestoreTyped, CommittedInv, SC!Commit, SC!Fault, SC!tables, SC!entries, SC!Write,
       SC!Abort, SC!LockFree, SC!Restoring, SC!disk, SC!keeping
<1>1. CASE SC!LogQuery
  BY <1>1 DEF SC!LogQuery
<1>2. CASE SC!TakeBatch
  BY <1>2 DEF SC!TakeBatch
<1>3. CASE SC!Insert
  BY <1>3 DEF SC!Insert
<1>4. CASE SC!InsertFails
  <2>1. PICK n \in 0..Len(batch) :
            /\ log' = log \o SubSeq(batch, 1, n)
            /\ pending' = (pending \/ n > 0)
    BY <1>4 DEF SC!InsertFails
  <2>2. n = 0 => log' = log
    BY <2>1
  <2>3. ASSUME ~pending' PROVE ~pending /\ n = 0
    <3>1. pending' = FALSE \/ ~pending'
      BY <2>3
    <3>2. ~(pending \/ n > 0)
      BY ONLY <2>1, <2>3
    <3>3. n \in Nat
      BY <2>1
    <3>4. QED
      BY <3>2, <3>3
  <2>4. QED
    BY <1>4, <2>2, <2>3 DEF SC!InsertFails
<1>5. CASE SC!ClearLog
  BY <1>5 DEF SC!ClearLog
<1>6. CASE SC!SetSetting
  BY <1>6 DEF SC!SetSetting
<1>7. CASE SC!Audit
  BY <1>7 DEF SC!Audit
<1>8. CASE SC!BeginRestore
  BY <1>8 DEF SC!BeginRestore
<1>9. CASE SC!RestoreTable
  BY <1>9, RestoreTableIs DEF SC!RestoreTable
<1>10. CASE SC!RestoreUpstreams
  BY <1>10 DEF SC!RestoreUpstreams
<1>11. CASE SC!RestoreFails
  <2>1. SC!Abort /\ CommittedInv
    BY <1>11 DEF SC!RestoreFails
  <2>2. QED
    BY ONLY <2>1, AbortIs DEF CommittedInv, SC!Restoring
<1>12. CASE SC!SecondPass
  <2>1. CASE lists
    <3>1. SC!Abort /\ CommittedInv
      BY <1>12, <2>1 DEF SC!SecondPass
    <3>2. QED
      BY ONLY <3>1, AbortIs DEF CommittedInv, SC!Restoring
  <2>2. CASE ~lists
    BY <1>12, <2>2 DEF SC!SecondPass
  <2>3. QED
    BY <2>1, <2>2
<1>13. CASE SC!CommitRestore
  BY <1>13 DEF SC!CommitRestore
<1>14. CASE SC!ReloadAll
  BY <1>14 DEF SC!ReloadAll
<1>15. CASE SC!Stop
  BY <1>15 DEF SC!Stop
<1>18. CASE SC!Sync
  BY <1>18 DEF SC!Sync
<1>19. CASE SC!BeginBackup
  BY <1>19 DEF SC!BeginBackup
<1>20. CASE SC!EndBackup
  BY <1>20 DEF SC!EndBackup
<1>16. CASE UNCHANGED connectionVars
  BY <1>16 DEF connectionVars
<1>17. QED
  BY <1>1, <1>2, <1>3, <1>4, <1>5, <1>6, <1>7, <1>8, <1>9, <1>10, <1>11, <1>12, <1>13, <1>14,
       <1>15, <1>16, <1>18, <1>19, <1>20 DEF SC!Next

LEMMA WholeStep ==
  RestoreTyped /\ RestoreProgress /\ CommittedInv /\ WholeInv /\ [SC!Next]_connectionVars
    => WholeInv'
<1> SUFFICES ASSUME RestoreTyped, RestoreProgress, CommittedInv, WholeInv,
       [SC!Next]_connectionVars PROVE WholeInv'
  OBVIOUS
<1> USE TablesAre DEF RestoreTyped, RestoreProgress, CommittedInv, WholeInv, WholeIn, Restored,
       TableNames, SC!Data, SC!Commit, SC!Fault, SC!tables, SC!entries, SC!Write, SC!Abort,
            SC!LockFree, SC!Restoring, SC!disk, SC!keeping
<1>1. CASE SC!LogQuery
  BY <1>1 DEF SC!LogQuery
<1>2. CASE SC!TakeBatch
  BY <1>2 DEF SC!TakeBatch
<1>3. CASE SC!Insert
  BY <1>3 DEF SC!Insert
<1>4. CASE SC!InsertFails
  BY <1>4 DEF SC!InsertFails
<1>5. CASE SC!ClearLog
  BY <1>5 DEF SC!ClearLog
<1>6. CASE SC!SetSetting
  BY <1>6 DEF SC!SetSetting
<1>7. CASE SC!Audit
  <2>1. SC!Commit(log, data) /\ data \in SC!Data
    BY <1>7 DEF SC!Audit
  <2>2. /\ saved'.data = data /\ (synced' = synced \/ synced' = saved')
        /\ (~torn' => ~torn /\ ~pending /\ (SC!Restoring => data = saved.data \/ step = 7))
    BY <2>1, CommitIs
  <2>3. ASSUME ~torn' PROVE WholeIn(saved.data) /\ WholeIn(synced.data) /\ WholeIn(data)
    <3>1. CASE step = 7
      BY <2>2, <2>3, <3>1
    <3>2. CASE step # 7
      <4>1. data = saved.data
        BY <2>2, <2>3, <3>2
      <4>2. QED
        BY <2>2, <2>3, <4>1
    <3>3. QED
      BY <3>1, <3>2
  <2>4. ASSUME ~torn' PROVE WholeIn(saved'.data) /\ WholeIn(synced'.data)
    <3>1. saved'.data = data /\ (synced'.data = synced.data \/ synced'.data = data)
      BY <2>2
    <3>2. QED
      BY <3>1, <2>3, <2>4
  <2>5. QED
    BY <2>4
<1>8. CASE SC!BeginRestore
  BY <1>8 DEF SC!BeginRestore
<1>9. CASE SC!RestoreTable
  BY <1>9, RestoreTableIs DEF SC!RestoreTable
<1>10. CASE SC!RestoreUpstreams
  BY <1>10 DEF SC!RestoreUpstreams
<1>11. CASE SC!RestoreFails
  BY <1>11 DEF SC!RestoreFails
<1>12. CASE SC!SecondPass
  BY <1>12 DEF SC!SecondPass
<1>13. CASE SC!CommitRestore
  BY <1>13 DEF SC!CommitRestore
<1>14. CASE SC!ReloadAll
  BY <1>14 DEF SC!ReloadAll
<1>15. CASE SC!Stop
  BY <1>15 DEF SC!Stop
<1>18. CASE SC!Sync
  BY <1>18 DEF SC!Sync
<1>19. CASE SC!BeginBackup
  BY <1>19 DEF SC!BeginBackup
<1>20. CASE SC!EndBackup
  BY <1>20 DEF SC!EndBackup
<1>16. CASE UNCHANGED connectionVars
  BY <1>16 DEF connectionVars
<1>17. QED
  BY <1>1, <1>2, <1>3, <1>4, <1>5, <1>6, <1>7, <1>8, <1>9, <1>10, <1>11, <1>12, <1>13, <1>14,
       <1>15, <1>16, <1>18, <1>19, <1>20 DEF SC!Next

LEMMA ServedStep == RestoreTyped /\ RestoreProgress /\ ServedInv /\ [SC!Next]_connectionVars =>
     ServedInv'
<1> SUFFICES ASSUME RestoreTyped, RestoreProgress, ServedInv, [SC!Next]_connectionVars
       PROVE ServedInv'
  OBVIOUS
<1> USE TablesAre DEF RestoreTyped, RestoreProgress, ServedInv, Restored, TableNames, SC!Data,
       SC!Commit, SC!Fault, SC!tables, SC!entries, SC!Write, SC!Abort, SC!LockFree, SC!Restoring, SC!disk, SC!keeping
<1>1. CASE SC!LogQuery
  BY <1>1 DEF SC!LogQuery
<1>2. CASE SC!TakeBatch
  BY <1>2 DEF SC!TakeBatch
<1>3. CASE SC!Insert
  BY <1>3 DEF SC!Insert
<1>4. CASE SC!InsertFails
  BY <1>4 DEF SC!InsertFails
<1>5. CASE SC!ClearLog
  BY <1>5 DEF SC!ClearLog
<1>6. CASE SC!SetSetting
  BY <1>6 DEF SC!SetSetting
<1>7. CASE SC!Audit
  BY <1>7 DEF SC!Audit
<1>8. CASE SC!BeginRestore
  BY <1>8 DEF SC!BeginRestore
<1>9. CASE SC!RestoreTable
  BY <1>9, RestoreTableIs DEF SC!RestoreTable
<1>10. CASE SC!RestoreUpstreams
  BY <1>10 DEF SC!RestoreUpstreams
<1>11. CASE SC!RestoreFails
  BY <1>11 DEF SC!RestoreFails
<1>12. CASE SC!SecondPass
  BY <1>12 DEF SC!SecondPass
<1>13. CASE SC!CommitRestore
  BY <1>13 DEF SC!CommitRestore
<1>14. CASE SC!ReloadAll
  BY <1>14 DEF SC!ReloadAll
<1>15. CASE SC!Stop
  BY <1>15 DEF SC!Stop
<1>18. CASE SC!Sync
  BY <1>18 DEF SC!Sync
<1>19. CASE SC!BeginBackup
  BY <1>19 DEF SC!BeginBackup
<1>20. CASE SC!EndBackup
  BY <1>20 DEF SC!EndBackup
<1>16. CASE UNCHANGED connectionVars
  BY <1>16 DEF connectionVars
<1>17. QED
  BY <1>1, <1>2, <1>3, <1>4, <1>5, <1>6, <1>7, <1>8, <1>9, <1>10, <1>11, <1>12, <1>13, <1>14,
       <1>15, <1>16, <1>18, <1>19, <1>20 DEF SC!Next

LEMMA ConnectionInit == SC!Init => ConnectionInv
<1>1. SUFFICES ASSUME SC!Init PROVE ConnectionInv
  OBVIOUS
<1>2. /\ log = <<>> /\ batch = <<>> /\ queue = <<>> /\ saved.log = <<>> /\ synced.log = <<>>
      /\ produced = 0 /\ dropped = {} /\ lost = {}
  BY <1>1 DEF SC!Init
<1>3. EntriesInv
  BY <1>2, SetEmpty, ConnectionAssumption
     DEF EntriesInv, LogsTyped, Ordered, Accounted, Entries, Below
<1>4. data = [t \in TableNames |-> "old"] /\ saved = [log |-> log, data |-> data] /\ served = data
      /\ synced = saved
  BY <1>1, TablesAre DEF SC!Init
<1>5. RestoreTyped
  <2>1. data \in SC!Data /\ saved.data \in SC!Data /\ synced.data \in SC!Data /\ served \in SC!Data
    <3>1. data \in SC!Data /\ saved.data = data /\ synced.data = data /\ served = data
      BY <1>4, TablesAre DEF SC!Data
    <3>2. QED
      BY <3>1
  <2>2. step = 0 /\ outcome = "none" /\ upstreams = "old" /\ pending = FALSE /\ torn = FALSE
        /\ open = FALSE /\ syncing = FALSE
    BY <1>1 DEF SC!Init
  <2>3. torn \in BOOLEAN /\ pending \in BOOLEAN /\ open \in BOOLEAN /\ syncing \in BOOLEAN
    BY ONLY <2>2
  <2>4. step \in 0..8 /\ outcome \in {"none", "ok", "failed", "cut"}
        /\ upstreams \in {"old", "none", "backup"}
    BY ONLY <2>2, SMT
  <2>5. QED
    BY ONLY <2>1, <2>3, <2>4 DEF RestoreTyped
<1>6. RestoreProgress /\ CommittedInv /\ WholeInv /\ ServedInv
  BY <1>1, <1>4 DEF SC!Init, RestoreProgress, CommittedInv, WholeInv, WholeIn, ServedInv, TableNames
<1>7. QED
  BY <1>3, <1>5, <1>6 DEF ConnectionInv, RestoreInv

LEMMA ConnectionStep == ConnectionInv /\ [SC!Next]_connectionVars => ConnectionInv'
  BY EntriesStep, TypedStep, ProgressStep, ChangesStep, WholeStep, ServedStep
     DEF ConnectionInv, RestoreInv, EntriesInv, LogsTyped

\* Ordered and accounted for is: every entry is in one place, once.
LEMMA DisjointUnion ==
  ASSUME NEW S, IsFiniteSet(S), NEW T, IsFiniteSet(T), S \cap T = {}
  PROVE  IsFiniteSet(S \cup T) /\ Cardinality(S \cup T) = Cardinality(S) + Cardinality(T)
<1>1. Cardinality(S) \in Nat /\ Cardinality(T) \in Nat /\ Cardinality(S \cap T) = 0
  BY FS_CardinalityType, FS_EmptySet
<1>2. IsFiniteSet(S \cup T)
      /\ Cardinality(S \cup T) = Cardinality(S) + Cardinality(T) - Cardinality(S \cap T)
  BY FS_Union
<1>3. QED
  BY <1>1, <1>2

LEMMA EntriesAreOnce == EntriesInv => SC!EntriesOnce
<1>1. SUFFICES ASSUME EntriesInv PROVE SC!EntriesOnce
  OBVIOUS
<1> DEFINE written == log \o batch
           all == written \o queue
<1>2. /\ written \in Seq(Nat) /\ Set(written) = Set(log) \cup Set(batch) /\ Increasing(written)
  BY <1>1, SetConcat DEF EntriesInv, LogsTyped, Ordered
<1>3. Below(Set(written), Set(queue))
  BY <1>1, <1>2 DEF EntriesInv, Ordered, Below
<1>4. all \in Seq(Nat) /\ Set(all) = Entries /\ Increasing(all)
  <2>1. queue \in Seq(Nat) /\ Increasing(queue)
    BY <1>1 DEF EntriesInv, LogsTyped, Ordered
  <2> HIDE DEF written
  <2>2. all \in Seq(Nat) /\ Set(all) = Set(written) \cup Set(queue) /\ Increasing(all)
    BY ONLY <1>2, <1>3, <2>1, SetConcat
  <2>3. QED
    BY ONLY <1>2, <2>2 DEF Entries
<1> HIDE DEF written
<1>5. IsFiniteSet(Entries) /\ Cardinality(Entries) = Len(all)
  BY <1>4, SetCardinality
<1>6. produced \in Nat /\ IsFiniteSet(1..produced) /\ Cardinality(1..produced) = produced
  BY <1>1, FS_Interval, ConnectionAssumption DEF EntriesInv, LogsTyped
<1>7. /\ IsFiniteSet(dropped) /\ IsFiniteSet(lost)
      /\ Cardinality(dropped) \in Nat /\ Cardinality(lost) \in Nat /\ Cardinality(Entries) \in Nat
  BY <1>1, <1>5, <1>6, FS_Subset, FS_CardinalityType DEF EntriesInv, Accounted
<1>8. Entries \cap dropped = {} /\ (Entries \cup dropped) \cap lost = {}
  BY <1>1 DEF EntriesInv, Accounted
<1>9. /\ IsFiniteSet(Entries \cup dropped)
      /\ Cardinality(Entries \cup dropped) = Cardinality(Entries) + Cardinality(dropped)
  BY <1>5, <1>7, <1>8, DisjointUnion
<1>10. Cardinality(Entries \cup dropped \cup lost)
           = Cardinality(Entries) + Cardinality(dropped) + Cardinality(lost)
  BY <1>7, <1>8, <1>9, DisjointUnion
<1>11. Cardinality(dropped) + Cardinality(lost) + Len(all) = produced
  <2>1. 1..produced = Entries \cup dropped \cup lost
    BY <1>1 DEF EntriesInv, Accounted
  <2>2. produced = Cardinality(Entries) + Cardinality(dropped) + Cardinality(lost)
    BY <1>6, <1>10, <2>1
  <2>3. Len(all) = Cardinality(Entries)
    BY <1>5
  <2> HIDE DEF all
  <2>4. QED
    BY <1>7, <2>2, <2>3
<1>12. 1..produced = SC!ToSet(all) \cup dropped \cup lost
  BY <1>1, <1>4 DEF EntriesInv, Accounted, Set
<1>13. \A i, j \in DOMAIN all : i < j => all[i] < all[j]
  BY <1>4 DEF Increasing
<1> HIDE DEF all
<1>14. all = log \o batch \o queue
  BY DEF all, written
<1>15. \A i, j \in DOMAIN (log \o batch \o queue) :
          i < j => (log \o batch \o queue)[i] < (log \o batch \o queue)[j]
  BY ONLY <1>13, <1>14, Zenon
<1>c. \A S : SC!Cardinality(S) = Cardinality(S)
  BY DEF SC!Cardinality, Cardinality, SC!IsFiniteSet, IsFiniteSet
<1>16. SC!Cardinality(dropped) + SC!Cardinality(lost) + Len(log \o batch \o queue) = produced
  BY ONLY <1>11, <1>14, <1>c
<1>17. 1..produced = SC!ToSet(log \o batch \o queue) \cup dropped \cup lost
  BY ONLY <1>12, <1>14, Zenon
<1>18. QED
  BY ONLY <1>15, <1>16, <1>17 DEF SC!EntriesOnce

LEMMA ConnectionIsSharedIs == ConnectionInv => SC!ConnectionIsShared
<1>1. SUFFICES ASSUME ConnectionInv PROVE SC!ConnectionIsShared
  OBVIOUS
<1>2. SC!EntriesOnce
  BY <1>1, EntriesAreOnce DEF ConnectionInv
<1>3. SC!TypeOK
  <2>1. /\ SC!ToSet(queue) \subseteq 1..produced /\ SC!ToSet(batch) \subseteq 1..produced
        /\ SC!ToSet(log) \subseteq 1..produced /\ SC!ToSet(saved.log) \subseteq 1..produced
        /\ SC!ToSet(synced.log) \subseteq 1..produced
        /\ dropped \subseteq 1..produced /\ lost \subseteq 1..produced
    BY <1>1 DEF ConnectionInv, EntriesInv, Accounted, Ordered, Entries, Set
  <2>2. LogsTyped /\ RestoreTyped
    BY <1>1 DEF ConnectionInv, EntriesInv, RestoreInv
  <2>3. QED
    BY <2>1, <2>2 DEF SC!TypeOK, LogsTyped, RestoreTyped
<1>4. SC!ChangesAreCommitted
  BY <1>1 DEF ConnectionInv, RestoreInv, RestoreTyped, CommittedInv, SC!ChangesAreCommitted,
              SC!LockFree
<1>5. SC!RestoreIsWhole
  <2>1. RestoreTyped /\ WholeInv
    BY <1>1 DEF ConnectionInv, RestoreInv
  <2>2. /\ saved.data \in [TableNames -> {"old", "edited", "backup"}]
        /\ synced.data \in [TableNames -> {"old", "edited", "backup"}]
    BY <2>1, TablesAre DEF RestoreTyped, SC!Data
  <2>3. QED
    BY <2>1, <2>2, TablesAre DEF WholeInv, WholeIn, Restored, TableNames, SC!RestoreIsWhole, SC!Part, SC!RestoredIn
<1>6. SC!RestoreIsServed
  BY <1>1, TablesAre DEF ConnectionInv, RestoreInv, ServedInv, Restored, SC!RestoreIsServed
<1>7. QED
  BY <1>2, <1>3, <1>4, <1>5, <1>6 DEF SC!ConnectionIsShared

\* No entry of the query log is written twice, out of order or lost without a
\* cause, and no thread gives up db_lock with a change that nobody will commit,
\* whichever threads commit the transaction of which others, and wherever the
\* process stops; a restore that reports success is whole, on disk and served.
THEOREM ConnectionShared == PartsSpec => []ConnectionIsShared
<1> DEFINE Inv == part = "connection" => ConnectionInv
<1>1. PartsInit => Inv
  BY ConnectionInit DEF PartsInit
<1>2. Inv /\ [PartsNext]_<<part, vars, connectionVars, settingsVars, sessionsVars>> => Inv'
  <2>1. ConnectionInv /\ UNCHANGED connectionVars => ConnectionInv'
    BY ConnectionStep
  <2>2. part' = part /\ part = "connection" /\ PartsNext => SC!Next
    BY DEF PartsNext
  <2>3. [PartsNext]_<<part, vars, connectionVars, settingsVars, sessionsVars>> => part' = part
    BY DEF PartsNext
  <2>4. QED
    BY <2>1, <2>2, <2>3, ConnectionStep
<1>3. Inv => ConnectionIsShared
  BY ConnectionIsSharedIs DEF ConnectionIsShared
<1>4. QED
  BY <1>1, <1>2, <1>3, PTL DEF PartsSpec

-----------------------------------------------------------------------------
(* The settings and their copies *)

\* Thread t is at one of the places with key k.
At(t, k, places) == at[t].key = k /\ at[t].pc \in places
\* A change of k that has not reached the hot copy.
Changing(k) == \E o \in Users : At(o, k, {"cached", "put"})

\* Whoever fills a hot copy has the lock, and there is none as long as it has.
SettingsTyped ==
    /\ ST!TypeOK
    /\ \A t \in Users :
        /\ at[t].pc # "idle" => at[t].key \in Keys
        /\ at[t].pc \in {"hot", "keep", "put"} => at[t].key \in Hot
        /\ at[t].pc = "look" => at[t].hot
        /\ at[t].hot => at[t].key \in Hot /\ at[t].pc \in {"look", "row", "fill", "keep"}
        /\ at[t].pc = "clear" => at[t].key \in restored
        /\ at[t].hot => hotLock = t /\ hot[at[t].key] = None

\* There is a latest change.
IsLatest(n) == n \in ST!Values /\ (\E k \in Keys : value[k] = n) /\ \A k \in Keys : value[k] <= n

\* Without overlaps what is on its way to a copy is what the table has; a copy
\* is old only until the change that is under way arrives there.
Plain(k) ==
    /\ \A t \in Users : At(t, k, {"fill", "cached", "put"}) => at[t].got = value[k]
    /\ cache[k] \in {None, value[k]} \/ \E o \in Users : At(o, k, {"cached", "clear"})

HotPlain(k) ==
    /\ hot[k] \in {None, value[k]} \/ Changing(k)
    /\ \A t \in Users : At(t, k, {"keep"}) /\ at[t].hot => at[t].got = value[k] \/ Changing(k)

\* After one change an old value may stay in the cache, but then the hot copy
\* has the new one and is not filled from the cache again.
Once(k) ==
    /\ hot[k] \in {None, value[k]} \/ Changing(k)
    /\ \A t \in Users : At(t, k, {"cached", "put"}) => at[t].got = value[k]
    /\ \A t \in Users : At(t, k, {"fill", "keep"}) /\ at[t].hot =>
         at[t].got = value[k] \/ Changing(k)
    /\ \/ /\ cache[k] \in {None, value[k]}
          /\ \A t \in Users : At(t, k, {"fill"}) => at[t].got = value[k]
       \/ Changing(k)
       \/ hot[k] = value[k]

HasLatest ==
    /\ Keys # {} => \E n \in ST!Values : IsLatest(n)
    /\ \A t \in Users : at[t].pc \in {"cached", "put"} => 1 <= value[at[t].key]
PlainInv == \A k \in Keys \ overtaken : Plain(k)
HotPlainInv == \A k \in Hot \ (overtaken \cup restored) : HotPlain(k)
OnceInv == (\A k \in Keys : value[k] <= 1) => \A k \in Hot \ restored : Once(k)
SettingsInv == SettingsTyped /\ HasLatest /\ PlainInv /\ HotPlainInv /\ OnceInv

Doing == [pc : {"idle", "hot", "look", "row", "fill", "keep", "cached", "put", "clear"},
          key : Keys \cup {None}, got : ST!Values, hot : BOOLEAN]

\* What taking the lock of the hot copies does to the threads.
LEMMA LockHotStep ==
  ASSUME SettingsTyped, NEW t \in Users, ST!LockHot(t)
  PROVE  /\ \A o \in Users \ {t} : at'[o] = at[o]
         /\ at'[t].key = at[t].key
         /\ (at'[t].pc = "keep" /\ at'[t].hot = FALSE) \/ at'[t].pc = "look"
         /\ at[t].pc = "hot"
<1>1. at \in [Users -> Doing]
  BY DEF SettingsTyped, ST!TypeOK, Doing
<1>2. /\ at[t].key \in Hot /\ at[t].hot = FALSE /\ at[t].pc = "hot"
      /\ hot \in [Hot -> ST!Values \cup {None}]
  BY DEF SettingsTyped, ST!LockHot, ST!TypeOK
<1>3. CASE hot[at[t].key] # None
  <2> DEFINE r == [at[t] EXCEPT !.pc = "keep", !.got = hot[at[t].key]]
  <2>1. hot[at[t].key] \in ST!Values
    BY <1>2, <1>3
  <2>2. r.pc = "keep" /\ r.key = at[t].key /\ r.hot = FALSE
    BY <1>1, <1>2, <2>1 DEF Doing
  <2>3. at' = [at EXCEPT ![t] = r]
    BY <1>3 DEF ST!LockHot, ST!Goto
  <2> HIDE DEF r
  <2>4. QED
    BY <1>1, <1>2, <2>2, <2>3
<1>4. CASE hot[at[t].key] = None
  <2> DEFINE r == [at[t] EXCEPT !.pc = "look", !.hot = TRUE]
  <2>1. r.pc = "look" /\ r.key = at[t].key
    BY <1>1 DEF Doing
  <2>2. at' = [at EXCEPT ![t] = r]
    BY <1>4 DEF ST!LockHot, ST!Goto
  <2> HIDE DEF r
  <2>3. QED
    BY <1>1, <1>2, <2>1, <2>2
<1>5. QED
  BY <1>3, <1>4

\* What reading the row of the table does to the threads.
LEMMA ReadRowStep ==
  ASSUME SettingsTyped, NEW t \in Users, ST!ReadRow(t)
  PROVE  /\ \A o \in Users \ {t} : at'[o] = at[o]
         /\ at[t].pc = "row" /\ at'[t].pc = "fill" /\ at'[t].key = at[t].key
         /\ at'[t].got = value[at[t].key] /\ at'[t].hot = at[t].hot
         /\ UNCHANGED <<value, cache, hot, latch, hotLock, left, overtaken, restored>>
<1>1. at \in [Users -> Doing] /\ value[at[t].key] \in ST!Values /\ at[t].pc = "row"
  BY DEF SettingsTyped, ST!TypeOK, Doing, ST!ReadRow
<1> DEFINE r == [at[t] EXCEPT !.pc = "fill", !.got = value[at[t].key]]
<1>2. r.pc = "fill" /\ r.key = at[t].key /\ r.got = value[at[t].key] /\ r.hot = at[t].hot
  BY ONLY <1>1, t \in Users DEF Doing
<1>3. /\ at' = [at EXCEPT ![t] = r]
      /\ UNCHANGED <<value, cache, hot, latch, hotLock, left, overtaken, restored>>
  BY DEF ST!ReadRow, ST!Goto
<1> HIDE DEF r
<1>4. QED
  BY ONLY <1>1, <1>2, <1>3, t \in Users

LEMMA LatestIs == ASSUME NEW n, IsLatest(n) PROVE ST!Latest = n
  BY SettingsAssumption DEF IsLatest, ST!Latest, ST!Values

\* One lemma for each part of SettingsInv.
LEMMA SettingsTypedStep == SettingsInv /\ [ST!Next]_settingsVars => SettingsTyped'
<1> SUFFICES ASSUME SettingsInv, [ST!Next]_settingsVars PROVE SettingsTyped'
  OBVIOUS
<1>a. Keys # {} => IsLatest(ST!Latest)
  BY LatestIs DEF SettingsInv, HasLatest
<1>b. at \in [Users -> Doing]
  BY DEF SettingsInv, SettingsTyped, ST!TypeOK, Doing
<1> USE SettingsAssumption
       DEF SettingsInv, HasLatest, SettingsTyped, ST!TypeOK, ST!Goto, ST!Idle, ST!Write,
            ST!Overtakes, ST!Busy, IsLatest, ST!Values
<1>1. ASSUME NEW t \in Users, NEW k \in Keys, ST!Get(t, k) PROVE SettingsTyped'
  <2> DEFINE r == [ST!Idle EXCEPT !.pc = "row", !.key = k]
  <2>1. r \in Doing /\ r.pc = "row" /\ r.key = k /\ r.got = 0 /\ r.hot = FALSE
    <3>1. ST!Idle \in Doing /\ ST!Idle.got = 0 /\ ST!Idle.hot = FALSE
      BY DEF Doing
    <3> HIDE DEF ST!Idle
    <3>2. QED
      BY ONLY <3>1, k \in Keys DEF Doing
  <2>2. /\ at' = [at EXCEPT ![t] = r] /\ ("row" = "hot" => k \in Hot)
        /\ UNCHANGED <<value, cache, hot, latch, hotLock, overtaken, restored>>
    BY <1>1 DEF ST!Get
  <2> HIDE DEF r
  <2>3. at' \in [Users -> Doing] /\ at'[t] = r /\ \A o \in Users \ {t} : at'[o] = at[o]
    BY ONLY <1>b, <2>1, <2>2, t \in Users
  <2>4. ST!TypeOK'
    BY <2>2, <2>3 DEF Doing
  <2>5. QED
    BY ONLY SettingsTyped, <2>1, <2>2, <2>3, <2>4, k \in Keys DEF SettingsTyped
<1>2. ASSUME NEW t \in Users, NEW k \in Keys, ST!HotGet(t, k) PROVE SettingsTyped'
  <2> DEFINE r == [ST!Idle EXCEPT !.pc = "hot", !.key = k]
  <2>1. r \in Doing /\ r.pc = "hot" /\ r.key = k /\ r.got = 0 /\ r.hot = FALSE
    <3>1. ST!Idle \in Doing /\ ST!Idle.got = 0 /\ ST!Idle.hot = FALSE
      BY DEF Doing
    <3> HIDE DEF ST!Idle
    <3>2. QED
      BY ONLY <3>1, k \in Keys DEF Doing
  <2>2. /\ at' = [at EXCEPT ![t] = r] /\ ("hot" = "hot" => k \in Hot)
        /\ UNCHANGED <<value, cache, hot, latch, hotLock, overtaken, restored>>
    BY <1>2 DEF ST!HotGet
  <2> HIDE DEF r
  <2>3. at' \in [Users -> Doing] /\ at'[t] = r /\ \A o \in Users \ {t} : at'[o] = at[o]
    BY ONLY <1>b, <2>1, <2>2, t \in Users
  <2>4. ST!TypeOK'
    BY <2>2, <2>3 DEF Doing
  <2>5. QED
    BY ONLY SettingsTyped, <2>1, <2>2, <2>3, <2>4, k \in Keys DEF SettingsTyped
<1>3. ASSUME NEW t \in Users, NEW k \in Keys, ST!SetSetting(t, k) PROVE SettingsTyped'
  BY <1>a, <1>3 DEF ST!SetSetting
<1>4. ASSUME NEW t \in Users, NEW k \in Keys, ST!RestoreRow(t, k) PROVE SettingsTyped'
  BY <1>a, <1>4 DEF ST!RestoreRow
<1>5. ASSUME NEW t \in Users, ST!LockHot(t) PROVE SettingsTyped'
  <2>1. at[t].key \in Hot /\ at[t].key \in Keys
    BY <1>5 DEF ST!LockHot
  <2>2. CASE hot[at[t].key] # None
    <3> DEFINE r == [at[t] EXCEPT !.pc = "keep", !.got = hot[at[t].key]]
    <3>0. hot[at[t].key] \in ST!Values
      BY <2>1, <2>2
    <3>1. /\ r \in Doing /\ r.pc = "keep" /\ r.key = at[t].key /\ r.hot = at[t].hot
          /\ r.got = hot[at[t].key]
      BY ONLY <1>b, <3>0, t \in Users DEF Doing
    <3>2. at' = [at EXCEPT ![t] = r] /\ UNCHANGED hotLock
      BY <1>5, <2>2 DEF ST!LockHot
    <3> HIDE DEF r
    <3>4. QED
      BY <1>5, <2>1, <2>2, <3>1, <3>2 DEF ST!LockHot, Doing
  <2>3. CASE hot[at[t].key] = None
    <3> DEFINE r == [at[t] EXCEPT !.pc = "look", !.hot = TRUE]
    <3>1. /\ r \in Doing /\ r.pc = "look" /\ r.key = at[t].key /\ r.hot
          /\ r.got = at[t].got
      BY DEF Doing
    <3>2. at' = [at EXCEPT ![t] = r] /\ hotLock' = t
      BY <1>5, <2>3 DEF ST!LockHot
    <3> HIDE DEF r
    <3>4. QED
      BY <1>5, <2>1, <2>3, <3>1, <3>2 DEF ST!LockHot, Doing
  <2>4. QED
    BY <2>2, <2>3
<1>6. ASSUME NEW t \in Users, ST!Look(t) PROVE SettingsTyped'
  <2>1. at[t].key \in Keys /\ at[t].hot
    BY <1>6 DEF ST!Look
  <2>2. CASE cache[at[t].key] # None
    <3> DEFINE r == [at[t] EXCEPT !.pc = "keep", !.got = cache[at[t].key]]
    <3>1. cache[at[t].key] \in ST!Values
      BY <2>1, <2>2
    <3>2. /\ r \in Doing /\ r.pc = "keep" /\ r.key = at[t].key /\ r.hot = at[t].hot
          /\ r.got = cache[at[t].key]
      BY ONLY <1>b, <3>1, t \in Users DEF Doing
    <3>3. at' = [at EXCEPT ![t] = r]
      BY <1>6, <2>2 DEF ST!Look
    <3> HIDE DEF r
    <3>4. QED
      BY <1>6, <2>1, <2>2, <3>2, <3>3 DEF ST!Look, Doing
  <2>3. CASE cache[at[t].key] = None
    BY <1>6, <2>1, <2>3 DEF ST!Look
  <2>4. QED
    BY <2>2, <2>3
<1>7. ASSUME NEW t \in Users, ST!ReadRow(t) PROVE SettingsTyped'
  <2>1. at[t].key \in Keys /\ value[at[t].key] \in ST!Values
    BY <1>7 DEF ST!ReadRow
  <2> DEFINE r == [at[t] EXCEPT !.pc = "fill", !.got = value[at[t].key]]
  <2>2. /\ r \in Doing /\ r.pc = "fill" /\ r.key = at[t].key
        /\ r.got = value[at[t].key] /\ r.hot = at[t].hot
    BY ONLY <1>b, <2>1, t \in Users DEF Doing
  <2>3. at' = [at EXCEPT ![t] = r]
    BY <1>7 DEF ST!ReadRow
  <2> HIDE DEF r
  <2>4. QED
    BY <1>7, <2>1, <2>2, <2>3 DEF ST!ReadRow, Doing
<1>8. ASSUME NEW t \in Users, ST!Fill(t) PROVE SettingsTyped'
  BY <1>a, <1>8 DEF ST!Fill
<1>9. ASSUME NEW t \in Users, ST!Keep(t) PROVE SettingsTyped'
  BY <1>a, <1>9 DEF ST!Keep
<1>10. ASSUME NEW t \in Users, ST!SetCache(t) PROVE SettingsTyped'
  BY <1>a, <1>10 DEF ST!SetCache
<1>11. ASSUME NEW t \in Users, ST!SetHot(t) PROVE SettingsTyped'
  BY <1>a, <1>11 DEF ST!SetHot
<1>12. ASSUME NEW t \in Users, ST!ClearCache(t) PROVE SettingsTyped'
  BY <1>a, <1>12 DEF ST!ClearCache
<1>13. CASE UNCHANGED settingsVars
  BY <1>a, <1>13 DEF settingsVars
<1>14. QED
  BY <1>1, <1>2, <1>3, <1>4, <1>5, <1>6, <1>7, <1>8, <1>9, <1>10, <1>11, <1>12, <1>13 DEF ST!Next

LEMMA LatestStep == SettingsInv /\ SettingsTyped' /\ [ST!Next]_settingsVars => HasLatest'
<1> SUFFICES ASSUME SettingsInv, SettingsTyped', [ST!Next]_settingsVars PROVE HasLatest'
  OBVIOUS
<1>a. Keys # {} => IsLatest(ST!Latest)
  BY LatestIs DEF SettingsInv, HasLatest
<1> USE SettingsAssumption
       DEF SettingsInv, HasLatest, SettingsTyped, ST!TypeOK, ST!Goto, ST!Idle, ST!Write,
            ST!Overtakes, ST!Busy, IsLatest, ST!Values, At, Changing, HasLatest
<1>1. ASSUME NEW t \in Users, NEW k \in Keys, ST!Get(t, k) PROVE HasLatest'
  BY <1>a, <1>1 DEF ST!Get
<1>2. ASSUME NEW t \in Users, NEW k \in Keys, ST!HotGet(t, k) PROVE HasLatest'
  BY <1>a, <1>2 DEF ST!HotGet
<1>3. ASSUME NEW t \in Users, NEW k \in Keys, ST!SetSetting(t, k) PROVE HasLatest'
  <2>1. value' = [value EXCEPT ![k] = ST!Latest + 1] /\ ST!Latest + 1 \in ST!Values
    BY <1>a, <1>3 DEF ST!SetSetting
  <2>2. \E n \in ST!Values : IsLatest(n)'
    <3>1. PICK n \in ST!Values : n = ST!Latest + 1
      BY <2>1
    <3>2. IsLatest(n)'
      BY <1>a, <2>1, <3>1
    <3>3. QED
      BY <3>2
  <2>3. value'[k] = ST!Latest + 1 /\ 1 <= ST!Latest + 1
        /\ \A l \in Keys : 1 <= value[l] => 1 <= value'[l]
    BY <1>a, <2>1
  <2>4. at'[t].key = k /\ \A o \in Users \ {t} : at'[o] = at[o]
    BY <1>3 DEF ST!SetSetting
  <2>5. ASSUME NEW o \in Users, at'[o].pc \in {"cached", "put"} PROVE 1 <= value'[at'[o].key]
    <3>1. CASE o = t
      BY ONLY <2>3, <2>4, <3>1
    <3>2. CASE o # t
      <4>1. at'[o] = at[o] /\ at[o].pc \in {"cached", "put"}
        BY ONLY <2>4, <2>5, <3>2, o \in Users
      <4>2. at[o].key \in Keys /\ 1 <= value[at[o].key]
        BY <4>1
      <4>3. QED
        BY ONLY <2>3, <4>1, <4>2
    <3>3. QED
      BY <3>1, <3>2
  <2>6. QED
    BY <2>2, <2>5
<1>4. ASSUME NEW t \in Users, NEW k \in Keys, ST!RestoreRow(t, k) PROVE HasLatest'
  <2>1. value' = [value EXCEPT ![k] = ST!Latest + 1] /\ ST!Latest + 1 \in ST!Values
    BY <1>a, <1>4 DEF ST!RestoreRow
  <2>2. \E n \in ST!Values : IsLatest(n)'
    <3>1. PICK n \in ST!Values : n = ST!Latest + 1
      BY <2>1
    <3>2. IsLatest(n)'
      BY <1>a, <2>1, <3>1
    <3>3. QED
      BY <3>2
  <2>3. ASSUME NEW o \in Users, at'[o].pc \in {"cached", "put"} PROVE 1 <= value'[at'[o].key]
    <3>1. o # t /\ at'[o] = at[o]
      BY <1>4, <2>3 DEF ST!RestoreRow
    <3>2. QED
      BY <1>a, <2>1, <2>3, <3>1
  <2>4. QED
    BY <2>1, <2>2, <2>3
<1>5. ASSUME NEW t \in Users, ST!LockHot(t) PROVE HasLatest'
  <2>1. /\ \A o \in Users \ {t} : at'[o] = at[o]
        /\ at'[t].key = at[t].key
        /\ (at'[t].pc = "keep" /\ at'[t].hot = FALSE) \/ at'[t].pc = "look"
        /\ at[t].pc = "hot"
    BY <1>5, LockHotStep
  <2>2. UNCHANGED <<value, cache, hot, latch, left, overtaken, restored>>
    BY <1>5 DEF ST!LockHot
  <2>3. QED
    BY <2>1, <2>2
<1>6. ASSUME NEW t \in Users, ST!Look(t) PROVE HasLatest'
  BY <1>a, <1>6 DEF ST!Look
<1>7. ASSUME NEW t \in Users, ST!ReadRow(t) PROVE HasLatest'
  <2>1. /\ \A o \in Users \ {t} : at'[o] = at[o]
        /\ at'[t].pc = "fill" /\ UNCHANGED value
    BY <1>7, ReadRowStep
  <2>2. QED
    BY ONLY HasLatest, <2>1 DEF HasLatest, IsLatest, ST!Values
<1>8. ASSUME NEW t \in Users, ST!Fill(t) PROVE HasLatest'
  BY <1>a, <1>8 DEF ST!Fill
<1>9. ASSUME NEW t \in Users, ST!Keep(t) PROVE HasLatest'
  BY <1>a, <1>9 DEF ST!Keep
<1>10. ASSUME NEW t \in Users, ST!SetCache(t) PROVE HasLatest'
  BY <1>a, <1>10 DEF ST!SetCache
<1>11. ASSUME NEW t \in Users, ST!SetHot(t) PROVE HasLatest'
  BY <1>a, <1>11 DEF ST!SetHot
<1>12. ASSUME NEW t \in Users, ST!ClearCache(t) PROVE HasLatest'
  BY <1>a, <1>12 DEF ST!ClearCache
<1>13. CASE UNCHANGED settingsVars
  BY <1>a, <1>13 DEF settingsVars
<1>14. QED
  BY <1>1, <1>2, <1>3, <1>4, <1>5, <1>6, <1>7, <1>8, <1>9, <1>10, <1>11, <1>12, <1>13 DEF ST!Next

LEMMA PlainStep == SettingsInv /\ SettingsTyped' /\ [ST!Next]_settingsVars => PlainInv'
<1> SUFFICES ASSUME SettingsInv, SettingsTyped', [ST!Next]_settingsVars PROVE PlainInv'
  OBVIOUS
<1>a. Keys # {} => IsLatest(ST!Latest)
  BY LatestIs DEF SettingsInv, HasLatest
<1> USE SettingsAssumption
       DEF SettingsInv, HasLatest, SettingsTyped, ST!TypeOK, ST!Goto, ST!Idle, ST!Write,
            ST!Overtakes, ST!Busy, IsLatest, ST!Values, At, Changing, PlainInv, Plain
<1>1. ASSUME NEW t \in Users, NEW k \in Keys, ST!Get(t, k) PROVE PlainInv'
  BY <1>a, <1>1 DEF ST!Get
<1>2. ASSUME NEW t \in Users, NEW k \in Keys, ST!HotGet(t, k) PROVE PlainInv'
  BY <1>a, <1>2 DEF ST!HotGet
<1>3. ASSUME NEW t \in Users, NEW k \in Keys, ST!SetSetting(t, k) PROVE PlainInv'
  BY <1>a, <1>3 DEF ST!SetSetting
<1>4. ASSUME NEW t \in Users, NEW k \in Keys, ST!RestoreRow(t, k) PROVE PlainInv'
  BY <1>a, <1>4 DEF ST!RestoreRow
<1>5. ASSUME NEW t \in Users, ST!LockHot(t) PROVE PlainInv'
  <2>1. /\ \A o \in Users \ {t} : at'[o] = at[o]
        /\ at'[t].key = at[t].key
        /\ (at'[t].pc = "keep" /\ at'[t].hot = FALSE) \/ at'[t].pc = "look"
        /\ at[t].pc = "hot"
    BY <1>5, LockHotStep
  <2>2. UNCHANGED <<value, cache, hot, latch, left, overtaken, restored>>
    BY <1>5 DEF ST!LockHot
  <2>3. QED
    BY <2>1, <2>2
<1>6. ASSUME NEW t \in Users, ST!Look(t) PROVE PlainInv'
  BY <1>a, <1>6 DEF ST!Look
<1>7. ASSUME NEW t \in Users, ST!ReadRow(t) PROVE PlainInv'
  <2>1. /\ \A o \in Users \ {t} : at'[o] = at[o]
        /\ at[t].pc = "row" /\ at'[t].pc = "fill" /\ at'[t].key = at[t].key
        /\ at'[t].got = value[at[t].key] /\ at'[t].hot = at[t].hot
        /\ UNCHANGED <<value, cache, hot, latch, hotLock, left, overtaken, restored>>
    BY <1>7, ReadRowStep
  <2>2. ASSUME NEW k \in Keys \ overtaken PROVE Plain(k)'
    <3>1. Plain(k)
      BY <2>2
    <3>2. \A o \in Users : At(o, k, {"cached", "clear"})' <=> At(o, k, {"cached", "clear"})
      BY ONLY <2>1, t \in Users DEF At
    <3>3. QED
      BY ONLY <2>1, <3>1, <3>2, t \in Users DEF Plain, At
  <2>3. QED
    BY <2>1, <2>2
<1>8. ASSUME NEW t \in Users, ST!Fill(t) PROVE PlainInv'
  BY <1>a, <1>8 DEF ST!Fill
<1>9. ASSUME NEW t \in Users, ST!Keep(t) PROVE PlainInv'
  BY <1>a, <1>9 DEF ST!Keep
<1>10. ASSUME NEW t \in Users, ST!SetCache(t) PROVE PlainInv'
  BY <1>a, <1>10 DEF ST!SetCache
<1>11. ASSUME NEW t \in Users, ST!SetHot(t) PROVE PlainInv'
  BY <1>a, <1>11 DEF ST!SetHot
<1>12. ASSUME NEW t \in Users, ST!ClearCache(t) PROVE PlainInv'
  BY <1>a, <1>12 DEF ST!ClearCache
<1>13. CASE UNCHANGED settingsVars
  BY <1>a, <1>13 DEF settingsVars
<1>14. QED
  BY <1>1, <1>2, <1>3, <1>4, <1>5, <1>6, <1>7, <1>8, <1>9, <1>10, <1>11, <1>12, <1>13 DEF ST!Next

LEMMA HotPlainStep == SettingsInv /\ SettingsTyped' /\ [ST!Next]_settingsVars => HotPlainInv'
<1> SUFFICES ASSUME SettingsInv, SettingsTyped', [ST!Next]_settingsVars PROVE HotPlainInv'
  OBVIOUS
<1>a. Keys # {} => IsLatest(ST!Latest)
  BY LatestIs DEF SettingsInv, HasLatest
<1> USE SettingsAssumption
       DEF SettingsInv, HasLatest, SettingsTyped, ST!TypeOK, ST!Goto, ST!Idle, ST!Write,
            ST!Overtakes, ST!Busy, IsLatest, ST!Values, At, Changing, PlainInv, Plain,
                 HotPlainInv, HotPlain
<1>1. ASSUME NEW t \in Users, NEW k \in Keys, ST!Get(t, k) PROVE HotPlainInv'
  BY <1>a, <1>1 DEF ST!Get
<1>2. ASSUME NEW t \in Users, NEW k \in Keys, ST!HotGet(t, k) PROVE HotPlainInv'
  BY <1>a, <1>2 DEF ST!HotGet
<1>3. ASSUME NEW t \in Users, NEW k \in Keys, ST!SetSetting(t, k) PROVE HotPlainInv'
  BY <1>a, <1>3 DEF ST!SetSetting
<1>4. ASSUME NEW t \in Users, NEW k \in Keys, ST!RestoreRow(t, k) PROVE HotPlainInv'
  BY <1>a, <1>4 DEF ST!RestoreRow
<1>5. ASSUME NEW t \in Users, ST!LockHot(t) PROVE HotPlainInv'
  <2>1. /\ \A o \in Users \ {t} : at'[o] = at[o]
        /\ at'[t].key = at[t].key
        /\ (at'[t].pc = "keep" /\ at'[t].hot = FALSE) \/ at'[t].pc = "look"
        /\ at[t].pc = "hot"
    BY <1>5, LockHotStep
  <2>2. UNCHANGED <<value, cache, hot, latch, left, overtaken, restored>>
    BY <1>5 DEF ST!LockHot
  <2>3. ASSUME NEW k \in Hot \ (overtaken \cup restored) PROVE HotPlain(k)'
    <3>1. HotPlain(k)
      BY <2>3
    <3>2. Changing(k)' <=> Changing(k)
      BY ONLY <2>1, t \in Users DEF Changing, At
    <3>3. \A o \in Users : \/ at'[o] = at[o] \/ at'[o].pc = "look"
                          \/ (at'[o].pc = "keep" /\ at'[o].hot = FALSE)
      BY ONLY <2>1, t \in Users
    <3>4. QED
      BY ONLY <2>2, <3>1, <3>2, <3>3 DEF HotPlain, At
  <2>4. QED
    BY <2>2, <2>3
<1>6. ASSUME NEW t \in Users, ST!Look(t) PROVE HotPlainInv'
  BY <1>a, <1>6 DEF ST!Look
<1>7. ASSUME NEW t \in Users, ST!ReadRow(t) PROVE HotPlainInv'
  <2>1. /\ \A o \in Users \ {t} : at'[o] = at[o]
        /\ at[t].pc = "row" /\ at'[t].pc = "fill" /\ at'[t].key = at[t].key
        /\ at'[t].got = value[at[t].key] /\ at'[t].hot = at[t].hot
        /\ UNCHANGED <<value, cache, hot, latch, hotLock, left, overtaken, restored>>
    BY <1>7, ReadRowStep
  <2>2. ASSUME NEW k \in Hot \ (overtaken \cup restored) PROVE HotPlain(k)'
    <3>1. HotPlain(k)
      BY <2>2
    <3>2. Changing(k)' <=> Changing(k)
      BY ONLY <2>1, t \in Users DEF Changing, At
    <3>3. QED
      BY ONLY <2>1, <3>1, <3>2, t \in Users DEF HotPlain, At
  <2>3. QED
    BY <2>1, <2>2
<1>8. ASSUME NEW t \in Users, ST!Fill(t) PROVE HotPlainInv'
  BY <1>a, <1>8 DEF ST!Fill
<1>9. ASSUME NEW t \in Users, ST!Keep(t) PROVE HotPlainInv'
  BY <1>a, <1>9 DEF ST!Keep
<1>10. ASSUME NEW t \in Users, ST!SetCache(t) PROVE HotPlainInv'
  BY <1>a, <1>10 DEF ST!SetCache
<1>11. ASSUME NEW t \in Users, ST!SetHot(t) PROVE HotPlainInv'
  BY <1>a, <1>11 DEF ST!SetHot
<1>12. ASSUME NEW t \in Users, ST!ClearCache(t) PROVE HotPlainInv'
  BY <1>a, <1>12 DEF ST!ClearCache
<1>13. CASE UNCHANGED settingsVars
  BY <1>a, <1>13 DEF settingsVars
<1>14. QED
  BY <1>1, <1>2, <1>3, <1>4, <1>5, <1>6, <1>7, <1>8, <1>9, <1>10, <1>11, <1>12, <1>13 DEF ST!Next

LEMMA OnceStep == SettingsInv /\ SettingsTyped' /\ [ST!Next]_settingsVars => OnceInv'
<1> SUFFICES ASSUME SettingsInv, SettingsTyped', [ST!Next]_settingsVars PROVE OnceInv'
  OBVIOUS
<1>a. Keys # {} => IsLatest(ST!Latest)
  BY LatestIs DEF SettingsInv, HasLatest
<1> USE SettingsAssumption
       DEF SettingsInv, HasLatest, SettingsTyped, ST!TypeOK, ST!Goto, ST!Idle, ST!Write,
            ST!Overtakes, ST!Busy, IsLatest, ST!Values, At, Changing, OnceInv, Once
<1>1. ASSUME NEW t \in Users, NEW k \in Keys, ST!Get(t, k) PROVE OnceInv'
  BY <1>a, <1>1 DEF ST!Get
<1>2. ASSUME NEW t \in Users, NEW k \in Keys, ST!HotGet(t, k) PROVE OnceInv'
  BY <1>a, <1>2 DEF ST!HotGet
<1>3. ASSUME NEW t \in Users, NEW k \in Keys, ST!SetSetting(t, k) PROVE OnceInv'
  BY <1>a, <1>3 DEF ST!SetSetting
<1>4. ASSUME NEW t \in Users, NEW k \in Keys, ST!RestoreRow(t, k) PROVE OnceInv'
  BY <1>a, <1>4 DEF ST!RestoreRow
<1>5. ASSUME NEW t \in Users, ST!LockHot(t) PROVE OnceInv'
  <2>1. /\ \A o \in Users \ {t} : at'[o] = at[o]
        /\ at'[t].key = at[t].key
        /\ (at'[t].pc = "keep" /\ at'[t].hot = FALSE) \/ at'[t].pc = "look"
        /\ at[t].pc = "hot"
    BY <1>5, LockHotStep
  <2>2. UNCHANGED <<value, cache, hot, latch, left, overtaken, restored>>
    BY <1>5 DEF ST!LockHot
  <2>3. ASSUME NEW k \in Hot \ restored, \A l \in Keys : value[l] <= 1 PROVE Once(k)'
    <3>1. Once(k)
      BY <2>3
    <3>2. Changing(k)' <=> Changing(k)
      BY ONLY <2>1, t \in Users DEF Changing, At
    <3>3. \A o \in Users : \/ at'[o] = at[o] \/ at'[o].pc = "look"
                          \/ (at'[o].pc = "keep" /\ at'[o].hot = FALSE)
      BY ONLY <2>1, t \in Users
    <3>4. QED
      BY ONLY <2>2, <3>1, <3>2, <3>3 DEF Once, At
  <2>4. QED
    BY <2>2, <2>3
<1>6. ASSUME NEW t \in Users, ST!Look(t) PROVE OnceInv'
  BY <1>a, <1>6 DEF ST!Look
<1>7. ASSUME NEW t \in Users, ST!ReadRow(t) PROVE OnceInv'
  <2>1. /\ \A o \in Users \ {t} : at'[o] = at[o]
        /\ at[t].pc = "row" /\ at'[t].pc = "fill" /\ at'[t].key = at[t].key
        /\ at'[t].got = value[at[t].key] /\ at'[t].hot = at[t].hot
        /\ UNCHANGED <<value, cache, hot, latch, hotLock, left, overtaken, restored>>
    BY <1>7, ReadRowStep
  <2>2. ASSUME NEW k \in Hot \ restored, \A l \in Keys : value[l] <= 1 PROVE Once(k)'
    <3>1. Once(k)
      BY <2>2
    <3>2. Changing(k)' <=> Changing(k)
      BY ONLY <2>1, t \in Users DEF Changing, At
    <3>3. QED
      BY ONLY <2>1, <3>1, <3>2, t \in Users DEF Once, At
  <2>3. QED
    BY <2>1, <2>2
<1>8. ASSUME NEW t \in Users, ST!Fill(t) PROVE OnceInv'
  BY <1>a, <1>8 DEF ST!Fill
<1>9. ASSUME NEW t \in Users, ST!Keep(t) PROVE OnceInv'
  BY <1>a, <1>9 DEF ST!Keep
<1>10. ASSUME NEW t \in Users, ST!SetCache(t) PROVE OnceInv'
  BY <1>a, <1>10 DEF ST!SetCache
<1>11. ASSUME NEW t \in Users, ST!SetHot(t) PROVE OnceInv'
  BY <1>a, <1>11 DEF ST!SetHot
<1>12. ASSUME NEW t \in Users, ST!ClearCache(t) PROVE OnceInv'
  BY <1>a, <1>12 DEF ST!ClearCache
<1>13. CASE UNCHANGED settingsVars
  BY <1>a, <1>13 DEF settingsVars
<1> HIDE DEF OnceInv, Once, SettingsInv, SettingsTyped, HasLatest, ST!TypeOK, ST!Write
<1>14. QED
  BY ONLY [ST!Next]_settingsVars, <1>1, <1>2, <1>3, <1>4, <1>5, <1>6, <1>7, <1>8, <1>9, <1>10, <1>11, <1>12, <1>13 DEF ST!Next

LEMMA SettingsInit == ST!Init => SettingsInv
<1>1. SUFFICES ASSUME ST!Init PROVE SettingsInv
  OBVIOUS
<1> USE SettingsAssumption DEF ST!Init, ST!Idle, ST!Values
<1>2. SettingsTyped
  BY <1>1 DEF SettingsTyped, ST!TypeOK
<1>3. Keys # {} => IsLatest(0)
  BY <1>1 DEF IsLatest
<1>4. HasLatest
  BY <1>1, <1>3 DEF HasLatest
<1>5. PlainInv /\ HotPlainInv /\ OnceInv
  BY <1>1 DEF PlainInv, Plain, HotPlainInv, HotPlain, OnceInv, Once, At
<1>6. QED
  BY <1>2, <1>4, <1>5 DEF SettingsInv

LEMMA SettingsStep == SettingsInv /\ [ST!Next]_settingsVars => SettingsInv'
  BY SettingsTypedStep, LatestStep, PlainStep, HotPlainStep, OnceStep DEF SettingsInv

LEMMA SettingsAreCurrentIs == SettingsInv => ST!SettingsAreCurrent
<1>1. SUFFICES ASSUME SettingsInv PROVE ST!SettingsAreCurrent
  OBVIOUS
<1>2. ST!TypeOK
  BY <1>1 DEF SettingsInv, SettingsTyped
<1>3. ST!CopiesAreCurrent
  BY <1>1, SettingsAssumption
     DEF SettingsInv, PlainInv, Plain, HotPlainInv, HotPlain, At, Changing, ST!CopiesAreCurrent
<1>4. ST!HotOutlivesFills
  <2>1. SUFFICES ASSUME NEW k \in Hot \ restored, ST!Latest <= 1,
                        \A t \in Users : at[t].key # k
                 PROVE  hot[k] \in {None, value[k]}
    BY DEF ST!HotOutlivesFills
  <2>2. IsLatest(ST!Latest)
    BY <1>1, SettingsAssumption, LatestIs DEF SettingsInv, HasLatest
  <2>3. \A l \in Keys : value[l] <= 1
    BY <1>2, <2>1, <2>2, SettingsAssumption DEF IsLatest, ST!TypeOK, ST!Values
  <2>4. Once(k)
    BY <1>1, <2>3 DEF SettingsInv, OnceInv
  <2>5. QED
    BY <2>1, <2>4 DEF Once, At, Changing
<1>5. QED
  BY <1>2, <1>3, <1>4 DEF ST!SettingsAreCurrent

-----------------------------------------------------------------------------
(* The sessions and their rows *)

\* A session that comes back in the middle of a log-out is known as revived.
SessionsInv ==
    /\ SE!SessionsAreCurrent
    /\ \A t \in leaving : t \notin memory \ revived

LEMMA SessionsStep == SessionsInv /\ [SE!Next]_sessionsVars => SessionsInv'
<1> SUFFICES ASSUME SessionsInv, [SE!Next]_sessionsVars PROVE SessionsInv'
  OBVIOUS
<1> USE DEF SessionsInv, SE!SessionsAreCurrent, SE!TypeOK
<1>1. ASSUME NEW t \in Tokens, SE!Login(t) PROVE SessionsInv'
  BY <1>1 DEF SE!Login
<1>2. ASSUME NEW t \in Tokens, SE!Expire(t) PROVE SessionsInv'
  BY <1>2 DEF SE!Expire
<1>3. ASSUME NEW t \in Tokens, SE!Pop(t) PROVE SessionsInv'
  BY <1>3 DEF SE!Pop
<1>4. ASSUME NEW t \in Tokens, SE!DeleteRow(t) PROVE SessionsInv'
  BY <1>4 DEF SE!DeleteRow
<1>5. ASSUME NEW t \in Tokens, NEW r \in Readers, SE!Miss(r, t) PROVE SessionsInv'
  BY <1>5 DEF SE!Miss
<1>6. ASSUME NEW r \in Readers, SE!ReadRow(r) PROVE SessionsInv'
  BY <1>6 DEF SE!ReadRow
<1>7. CASE SE!Sync
  BY <1>7 DEF SE!Sync
<1>8. CASE SE!Crash
  BY <1>8 DEF SE!Crash
<1>9. CASE UNCHANGED sessionsVars
  BY <1>9 DEF sessionsVars
<1>10. QED
  BY <1>1, <1>2, <1>3, <1>4, <1>5, <1>6, <1>7, <1>8, <1>9 DEF SE!Next

LEMMA SessionsInit == SE!Init => SessionsInv
  BY DEF SE!Init, SessionsInv, SE!SessionsAreCurrent, SE!TypeOK

\* A setting that nobody is changing or reading has one value, in the table and
\* in each copy, whichever threads changed and read it before, unless changes
\* overlapped or a restore wrote it; and a session that was logged out is over.
THEOREM CopiesCurrent == PartsSpec => []CopiesAreCurrent
<1> DEFINE Inv == /\ part = "settings" => SettingsInv
                  /\ part = "sessions" => SessionsInv
<1>1. PartsInit => Inv
  BY SettingsInit, SessionsInit DEF PartsInit
<1>2. Inv /\ [PartsNext]_<<part, vars, connectionVars, settingsVars, sessionsVars>> => Inv'
  <2>1. SettingsInv /\ UNCHANGED settingsVars => SettingsInv'
    BY SettingsStep
  <2>2. SessionsInv /\ UNCHANGED sessionsVars => SessionsInv'
    BY SessionsStep
  <2>3. PartsNext => (part = "settings" => ST!Next) /\ (part = "sessions" => SE!Next)
    BY DEF PartsNext
  <2>4. [PartsNext]_<<part, vars, connectionVars, settingsVars, sessionsVars>> => part' = part
    BY DEF PartsNext
  <2>5. QED
    BY <2>1, <2>2, <2>3, <2>4, SettingsStep, SessionsStep
<1>3. Inv => CopiesAreCurrent
  BY SettingsAreCurrentIs DEF CopiesAreCurrent, SessionsInv
<1>4. QED
  BY <1>1, <1>2, <1>3, PTL DEF PartsSpec
=============================================================================
