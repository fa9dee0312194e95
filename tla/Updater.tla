-------------------------------- MODULE Updater --------------------------------
(***************************************************************************)
(* The update from the repository on GitHub (app.py): the check for new    *)
(* commits, and perform_update, which copies the files of a ZIP over its   *)
(* own and saves the commit in .last_commit at the end.                    *)
(*                                                                         *)
(* A version is a number; 0 is a file or a directory that is not all there:*)
(* a file is emptied before it is written, a directory removed before it   *)
(* is copied.  The hash and the ZIP come from two downloads.               *)
(***************************************************************************)
EXTENDS Naturals, FiniteSets

CONSTANTS
    Items,        \* files and directories of the project
    Updaters,     \* threads that check and update: web, console, hourly check
    MaxVersion,   \* bound: commits
    MaxFaults     \* bound: downloads and copies that fail, crashes

VARIABLES
    remote,       \* the newest commit
    files,        \* what is installed
    saved,        \* .last_commit, 0 if there is none
    result,       \* _update_check_cache: nothing to do up to this version, or 0
    up,           \* the program runs
    pc, hash, zip, left,    \* of each updater
    guessed,      \* .last_commit was written by a check
    overlap,      \* an update began before another one ended or restarted the program
    faults

vars == <<remote, files, saved, result, up, pc, hash, zip, left, guessed, overlap, faults>>
local == <<pc, hash, zip, left>>

TypeOK ==
    /\ remote \in 1..MaxVersion /\ files \in [Items -> 0..MaxVersion]
    /\ {saved, result} \subseteq 0..MaxVersion
    /\ pc \in [Updaters -> {"idle", "decide", "zip", "copy", "restart"}]
    /\ \A u \in Updaters : hash[u] <= remote /\ zip[u] <= remote /\ left[u] \subseteq Items

\* Unpacked from a ZIP, without .last_commit, or updated before.
Init ==
    /\ remote = 1 /\ files = [i \in Items |-> 1] /\ saved \in {0, 1} /\ result = 0 /\ up = TRUE
    /\ pc = [u \in Updaters |-> "idle"]
    /\ hash = [u \in Updaters |-> 0] /\ zip = hash /\ left = [u \in Updaters |-> {}]
    /\ guessed = FALSE /\ overlap = FALSE /\ faults = MaxFaults

Goto(u, place) == pc' = [pc EXCEPT ![u] = place]
Updating(u) == pc[u] \in {"zip", "copy"}

Push ==
    /\ remote < MaxVersion /\ remote' = remote + 1
    /\ UNCHANGED <<files, saved, result, up, local, guessed, overlap, faults>>

\* check_for_updates: the commits, then the local hash.
FetchForCheck(u) ==
    /\ up /\ pc[u] = "idle" /\ Goto(u, "decide")
    /\ hash' = [hash EXCEPT ![u] = remote]
    /\ UNCHANGED <<remote, files, saved, result, up, zip, left, guessed, overlap, faults>>
Decide(u) ==
    /\ pc[u] = "decide" /\ Goto(u, "idle")
    /\ result' = IF saved \in {0, hash[u]} THEN hash[u] ELSE 0
    /\ saved' = IF saved = 0 THEN hash[u] ELSE saved
    /\ guessed' = (guessed \/ saved = 0)
    /\ UNCHANGED <<remote, files, up, hash, zip, left, overlap, faults>>

\* perform_update
Begin(u) ==
    /\ up /\ pc[u] = "idle" /\ Goto(u, "zip")
    /\ hash' = [hash EXCEPT ![u] = remote]
    /\ overlap' = (overlap \/ \E o \in Updaters : Updating(o) \/ pc[o] = "restart")
    /\ UNCHANGED <<remote, files, saved, result, up, zip, left, guessed, faults>>
Download(u) ==
    /\ pc[u] = "zip" /\ Goto(u, "copy")
    /\ zip' = [zip EXCEPT ![u] = remote] /\ left' = [left EXCEPT ![u] = Items]
    /\ UNCHANGED <<remote, files, saved, result, up, hash, guessed, overlap, faults>>
Clear(u) ==
    /\ pc[u] = "copy"
    /\ \E i \in left[u] : files[i] # 0 /\ files' = [files EXCEPT ![i] = 0]
    /\ UNCHANGED <<remote, saved, result, up, local, guessed, overlap, faults>>
Copy(u) ==
    /\ pc[u] = "copy"
    /\ \E i \in left[u] :
        /\ files[i] = 0
        /\ files' = [files EXCEPT ![i] = zip[u]] /\ left' = [left EXCEPT ![u] = @ \ {i}]
    /\ UNCHANGED <<remote, saved, result, up, pc, hash, zip, guessed, overlap, faults>>
\* _save_local_commit_hash, and the result of the check.
Save(u) ==
    /\ pc[u] = "copy" /\ left[u] = {} /\ Goto(u, "restart")
    /\ saved' = hash[u] /\ result' = hash[u]
    /\ UNCHANGED <<remote, files, up, hash, zip, left, guessed, overlap, faults>>
\* An exception anywhere: what was copied stays.
Fail(u) ==
    /\ Updating(u) /\ faults > 0 /\ faults' = faults - 1 /\ Goto(u, "idle")
    /\ UNCHANGED <<remote, files, saved, result, up, hash, zip, left, guessed, overlap>>

\* A new process has what is installed; with a part of it missing it may not start.
NewProcess ==
    /\ up' \in {TRUE, \A i \in Items : files[i] # 0}
    /\ result' = 0 /\ pc' = [u \in Updaters |-> "idle"]
    /\ UNCHANGED <<remote, files, saved, hash, zip, left, guessed, overlap>>
Restart(u) == pc[u] = "restart" /\ NewProcess /\ UNCHANGED faults
Crash == up /\ faults > 0 /\ faults' = faults - 1 /\ NewProcess

Next ==
    \/ Push \/ Crash
    \/ \E u \in Updaters :
        \/ FetchForCheck(u) \/ Decide(u) \/ Begin(u) \/ Download(u) \/ Clear(u) \/ Copy(u)
        \/ Save(u) \/ Fail(u) \/ Restart(u)
Spec == Init /\ [][Next]_vars

-----------------------------------------------------------------------------
\* While nothing is being copied, every file is at least as new as .last_commit and the
\* answer "no updates" say, also after an update that failed halfway, so that the next
\* one is offered; an item at which an update broke off is not all there.  Known
\* exceptions: updates that overlap, and the first check without .last_commit, which
\* takes the newest commit for the installed one.
UpdatesAreHonest ==
    /\ TypeOK
    /\ ~overlap /\ ~guessed /\ (\A u \in Updaters : ~Updating(u)) =>
            \A i \in Items : files[i] # 0 => files[i] >= saved /\ files[i] >= result
\* After an update that succeeded the program comes back.
    /\ ~overlap /\ (\E u \in Updaters : pc[u] = "restart") => \A i \in Items : files[i] # 0
=============================================================================
