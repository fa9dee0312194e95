------------------------------- MODULE Blocklists -------------------------------
(***************************************************************************)
(* The blocklists (blocklist_manager.py, BlocklistManager): a row in the   *)
(* database and files with the converted rules for each, and the filter    *)
(* engine that is built from both.                                         *)
(*                                                                         *)
(* Every access to the database is under _update_lock; between two of them *)
(* other threads run: updates of one list or of all, additions, deletions, *)
(* switches and edits.  Downloads and files may fail at any of their       *)
(* steps.  The database is in memory: a crash takes the rows back to what  *)
(* the last synchronisation wrote, and leaves the files as they are.       *)
(*                                                                         *)
(* A list's content is a version, whose number is its ETag and             *)
(* Last-Modified.  Its rules are counted twice: what is checked and put    *)
(* into the row is what parse_filter_list finds, what is stored is what    *)
(* convert_blocklist_text makes of the text, which leaves out lines that   *)
(* were counted (those for browsers) and counts others twice.  Both depend *)
(* on the type, too: an edit of it is one of the known exceptions.         *)
(***************************************************************************)
EXTENDS Naturals, Sequences

CONSTANTS
    Lists,      \* ids of lists, numbers from 1
    Counted,    \* rules that parse_filter_list finds in each version, a sequence
    Stored,     \* rules that convert_blocklist_text makes of each
    Large,      \* ten thousand
    Jobs,       \* threads
    Scenes,     \* bound: [lists, ops, budget]
    None

Versions == DOMAIN Counted
Types == {"block", "allow"}
Row == [etag : Versions \cup {0}, count : Nat, type : Types, enabled : BOOLEAN, error : BOOLEAN]
Content == [version : Versions, type : Types]

VARIABLES
    ops,        \* what this behaviour may do
    server,     \* the version each URL serves
    rows,       \* table blocklists
    last,       \* the last id given (AUTOINCREMENT)
    disk,       \* the rows and the last id as they were last written to the disk
    cache,      \* data/blocklists/cache
    job,        \* what each thread is doing
    engine,     \* what the filter engine holds of each list
    loading,    \* the engine being built: the lists to do, and what is done
    notified,   \* a reload is due
    blamed,     \* lists something went wrong with that the code does not cover
    losses,     \* updates that replaced rules by none, or many by fewer than half
    budget      \* what the bounds leave: [asks, news, faults]

vars == <<ops, server, rows, disk, last, cache, job, engine, loading, notified, blamed, losses,
          budget>>

Free == [pc |-> "idle", todo |-> {}, list |-> None, item |-> None, got |-> 0]
Places == {"idle", "next", "get", "ensure", "fetch", "save", "rest", "fail", "remove"}
Load == [todo : SUBSET Lists, built : [Lists -> Content \cup {None}]]
TypeOK ==
    /\ server \in [Lists -> Versions] /\ last \in Lists \cup {0}
    /\ rows \in [Lists -> Row \cup {None}]
    /\ disk \in [rows : [Lists -> Row \cup {None}], last : Lists \cup {0}]
    /\ cache \in [Lists -> Content \cup {None}] /\ engine \in [Lists -> Content \cup {None}]
    /\ job \in [Jobs -> [pc : Places, todo : SUBSET Lists, list : Lists \cup {None},
                         item : Row \cup {None}, got : Versions \cup {0}]]
    /\ loading \in Load \cup {None}
    /\ notified \in BOOLEAN /\ blamed \subseteq Lists
    /\ losses \subseteq [list : Lists, from : Versions, to : Versions]

NewRow(l) == [etag |-> server[l], count |-> Counted[server[l]], type |-> "block", enabled |-> TRUE,
              error |-> FALSE]
Init ==
    /\ server = [l \in Lists |-> 1]
    /\ \E s \in Scenes :
        /\ ops = s.ops /\ budget = s.budget /\ last = s.lists
        /\ rows = [l \in Lists |-> IF l <= last THEN NewRow(l) ELSE None]
        /\ cache = [l \in Lists |-> IF l <= last THEN [version |-> 1, type |-> "block"] ELSE None]
    /\ disk = [rows |-> rows, last |-> last] /\ engine = cache
    /\ job = [j \in Jobs |-> Free]
    /\ loading = None /\ notified = FALSE /\ blamed = {} /\ losses = {}

Set(j, r) == job' = [job EXCEPT ![j] = r]
At(j, place) == job[j].pc = place
Goto(j, place) == Set(j, [job[j] EXCEPT !.pc = place])
\* What follows when the job with one list is over.
Done(j) == Set(j, IF job[j].todo = {} THEN Free ELSE [Free EXCEPT !.pc = "next", !.todo = job[j].todo])
\* Lists are done in the order of their ids.
First(lists) == CHOOSE l \in lists : \A m \in lists : l <= m
Busy(l) == \E j \in Jobs : job[j].list = l
\* Two jobs with one list at once are not kept apart.
BlameIfBusy(l) == blamed' = IF Busy(l) THEN blamed \cup {l} ELSE blamed
May(op) == op \in ops /\ budget.asks > 0 /\ budget' = [budget EXCEPT !.asks = @ - 1]
Fault == budget.faults > 0 /\ budget' = [budget EXCEPT !.faults = @ - 1]
Known == {l \in Lists : rows[l] # None}

-----------------------------------------------------------------------------
(* update and update_all *)

\* One list, named by the user, who saw its row.
AskUpdate(j, l) ==
    /\ May("update") /\ At(j, "idle") /\ rows[l] # None
    /\ Set(j, [Free EXCEPT !.pc = "get", !.list = l]) /\ BlameIfBusy(l)
    /\ UNCHANGED <<ops, server, rows, disk, last, cache, engine, loading, notified, losses>>
\* The row _ensure_db_entry makes from a file.
Made(l) == [etag |-> 0, count |-> IF cache[l] = None THEN 0 ELSE Stored[cache[l].version],
            type |-> "block", enabled |-> TRUE, error |-> FALSE]
\* All of them, with those that are only files: the crash of a synchronisation may
\* have lost their rows, a deletion may not have come to the file.  Whether another
\* such job runs is asked, but nothing keeps two that ask at once apart: the flag is
\* set by the job.
AskAll(j) ==
    /\ May("all") /\ At(j, "idle")
    /\ LET found == {l \in Lists : rows[l] = None /\ cache[l] # None}
           all == Known \cup found
       IN /\ all # {}
          /\ rows' = [l \in Lists |-> IF l \in found THEN Made(l) ELSE rows[l]]
          /\ blamed' = blamed \cup found
          /\ Set(j, [Free EXCEPT !.pc = "next", !.todo = all])
    /\ UNCHANGED <<ops, server, disk, last, cache, engine, loading, notified, losses>>
NextList(j) ==
    /\ At(j, "next")
    /\ LET l == First(job[j].todo) IN
        /\ Set(j, [Free EXCEPT !.pc = "get", !.list = l, !.todo = job[j].todo \ {l}])
        /\ BlameIfBusy(l)
    /\ UNCHANGED <<ops, server, rows, disk, last, cache, engine, loading, notified, losses, budget>>

\* The row as it is now; else one made from the file; else "not found".
Get(j) ==
    /\ At(j, "get")
    /\ LET l == job[j].list IN
        IF rows[l] # None THEN Set(j, [job[j] EXCEPT !.pc = "fetch", !.item = rows[l]])
        ELSE IF cache[l] # None THEN Goto(j, "ensure")
        ELSE Done(j)
    /\ UNCHANGED <<ops, server, rows, disk, last, cache, engine, loading, notified, blamed, losses,
                   budget>>
\* _ensure_db_entry, and the row is read again.  The engine is not told.
Ensure(j) ==
    /\ At(j, "ensure")
    /\ LET l == job[j].list
           row == IF rows[l] = None THEN Made(l) ELSE rows[l]
       IN /\ rows' = [rows EXCEPT ![l] = row]
          /\ Set(j, [job[j] EXCEPT !.pc = "fetch", !.item = row])
          /\ blamed' = IF rows[l] = None THEN blamed \cup {l} ELSE blamed
    /\ UNCHANGED <<ops, server, disk, last, cache, engine, loading, notified, losses, budget>>

Changed(j) == job[j].item.etag # server[job[j].list]
\* "304": nothing but the error is cleared.
NotModified(j) ==
    /\ At(j, "fetch") /\ ~Changed(j)
    /\ rows' = [rows EXCEPT ![job[j].list] = IF @ = None THEN None ELSE [@ EXCEPT !.error = FALSE]]
    /\ Done(j)
    /\ UNCHANGED <<ops, server, disk, last, cache, engine, loading, notified, blamed, losses, budget>>

\* The rules in the file of a list are gone, or a large list is cut to less than half.
Loses(old, new) ==
    \/ Stored[old] > 0 /\ Stored[new] = 0
    \/ Stored[old] > Large /\ 2 * Stored[new] < Stored[old]
\* A bug: a large list may become any smaller one.
AcceptsAll(n, count) == n > 0
Accepts(n, count) == n > 0 /\ ~(count > Large /\ 2 * n < count)
\* A list that is accepted goes into the row first, by id: if the list was deleted
\* meanwhile, nowhere.
Fetch(j) ==
    /\ At(j, "fetch") /\ Changed(j)
    /\ LET l == job[j].list
           n == Counted[server[l]]
       IN IF Accepts(n, job[j].item.count)
          THEN /\ rows' = [rows EXCEPT ![l] = IF @ = None THEN None
                            ELSE [@ EXCEPT !.etag = server[l], !.count = n, !.error = FALSE]]
               /\ Set(j, [job[j] EXCEPT !.pc = "save", !.got = server[l]])
          ELSE Goto(j, "fail") /\ UNCHANGED rows
    /\ UNCHANGED <<ops, server, disk, last, cache, engine, loading, notified, blamed, losses, budget>>
FetchFails(j) ==
    /\ At(j, "fetch") /\ Fault
    /\ Goto(j, "fail")
    /\ UNCHANGED <<ops, server, rows, disk, last, cache, engine, loading, notified, blamed, losses>>

\* Is the job an addition?  An update saves what differs from the row it read.
Adds(j) == job[j].item.etag = job[j].got
\* save_blocklist_cache: a new file takes the place of the old one.  The type is the
\* one of the row that was read before the download.
Save(j) ==
    /\ At(j, "save")
    /\ LET l == job[j].list
           new == [version |-> job[j].got, type |-> job[j].item.type]
       IN /\ cache' = [cache EXCEPT ![l] = new]
          /\ losses' = IF ~Adds(j) /\ cache[l] # None /\ Loses(cache[l].version, new.version)
                       THEN losses \cup {[list |-> l, from |-> cache[l].version, to |-> new.version]}
                       ELSE losses
    /\ Goto(j, "rest")
    /\ UNCHANGED <<ops, server, rows, disk, last, engine, loading, notified, blamed, budget>>
\* An update writes the error into the row; an addition ends with it, and does not
\* tell the engine of the list it replaced.
SaveFails(j) ==
    /\ job[j].pc \in {"save", "rest"} /\ Fault
    /\ IF Adds(j) THEN Done(j) ELSE Goto(j, "fail")
    /\ blamed' = blamed \cup {job[j].list} \cup (IF Adds(j) THEN Lists \ Known ELSE {})
    /\ UNCHANGED <<ops, server, rows, disk, last, cache, engine, loading, notified, losses>>
\* The other files, and _notify_reload.
Rest(j) ==
    /\ At(j, "rest")
    /\ notified' = TRUE /\ Done(j)
    /\ UNCHANGED <<ops, server, rows, disk, last, cache, engine, loading, blamed, losses, budget>>
Failed(j) ==
    /\ At(j, "fail")
    /\ rows' = [rows EXCEPT ![job[j].list] = IF @ = None THEN None ELSE [@ EXCEPT !.error = TRUE]]
    /\ Done(j)
    /\ UNCHANGED <<ops, server, disk, last, cache, engine, loading, notified, blamed, losses, budget>>

-----------------------------------------------------------------------------
(* add_from_text, delete, set_enabled, update_metadata *)

\* A list of the same name is deleted first, its row and its files, under the lock; a text
\* without rules is not added.
Add(j) ==
    /\ May("add") /\ At(j, "idle") /\ last + 1 \in Lists
    /\ LET new == last + 1 IN \E old \in Known \cup {None} :
        /\ Counted[server[new]] > 0
        /\ rows' = [l \in Lists |-> IF l = new THEN NewRow(l) ELSE IF l = old THEN None ELSE rows[l]]
        /\ cache' = [l \in Lists |-> IF l = old THEN None ELSE cache[l]]
        /\ blamed' = IF old # None /\ Busy(old) THEN blamed \cup {old} ELSE blamed
        /\ last' = new
        /\ Set(j, [Free EXCEPT !.pc = "save", !.list = new, !.item = NewRow(new), !.got = server[new]])
    /\ UNCHANGED <<ops, server, disk, engine, loading, notified, losses>>

DeleteRow(j, l) ==
    /\ May("delete") /\ At(j, "idle") /\ rows[l] # None
    /\ rows' = [rows EXCEPT ![l] = None] /\ BlameIfBusy(l)
    /\ Set(j, [Free EXCEPT !.pc = "remove", !.list = l])
    /\ UNCHANGED <<ops, server, disk, last, cache, engine, loading, notified, losses>>
\* A file that cannot be removed stays, and nobody is told.
RemoveFiles(j) ==
    /\ At(j, "remove")
    /\ \/ cache' = [cache EXCEPT ![job[j].list] = None] /\ UNCHANGED budget
       \/ Fault /\ UNCHANGED cache
    /\ notified' = TRUE /\ Done(j)
    /\ UNCHANGED <<ops, server, rows, disk, last, engine, loading, blamed, losses>>

Toggle(l) ==
    /\ May("toggle") /\ rows[l] # None
    /\ rows' = [rows EXCEPT ![l].enabled = ~@] /\ notified' = TRUE
    /\ UNCHANGED <<ops, server, disk, last, cache, job, engine, loading, blamed, losses>>
\* The ETag stays: the next update gets "304" and does not convert the list anew.
Edit(l) ==
    /\ May("edit") /\ rows[l] # None
    /\ rows' = [rows EXCEPT ![l].type = IF @ = "block" THEN "allow" ELSE "block"]
    /\ blamed' = blamed \cup {l}
    /\ UNCHANGED <<ops, server, disk, last, cache, job, engine, loading, notified, losses>>

-----------------------------------------------------------------------------
(* The engine: load_into_engine reads the rows once and the files one by one. *)

LoadRows ==
    /\ notified /\ loading = None
    /\ notified' = FALSE
    /\ loading' = [todo |-> {l \in Known : rows[l].enabled}, built |-> [l \in Lists |-> None]]
    /\ UNCHANGED <<ops, server, rows, disk, last, cache, job, engine, blamed, losses, budget>>
LoadList ==
    /\ loading # None /\ loading.todo # {}
    /\ LET l == First(loading.todo) IN
        loading' = [todo |-> loading.todo \ {l}, built |-> [loading.built EXCEPT ![l] = cache[l]]]
    /\ UNCHANGED <<ops, server, rows, disk, last, cache, job, engine, notified, blamed, losses, budget>>
Swap ==
    /\ loading # None /\ loading.todo = {}
    /\ engine' = loading.built /\ loading' = None
    /\ UNCHANGED <<ops, server, rows, disk, last, cache, job, notified, blamed, losses, budget>>

(* The world *)

NewVersion(l) ==
    /\ budget.news > 0
    /\ \E v \in Versions : v > server[l] /\ server' = [server EXCEPT ![l] = v]
    /\ budget' = [budget EXCEPT !.news = @ - 1]
    /\ UNCHANGED <<ops, rows, disk, last, cache, job, engine, loading, notified, blamed, losses>>
Sync ==
    /\ "crash" \in ops /\ disk.rows # rows
    /\ disk' = [rows |-> rows, last |-> last]
    /\ UNCHANGED <<ops, server, rows, last, cache, job, engine, loading, notified, blamed, losses, budget>>
Crash ==
    /\ May("crash")
    /\ rows' = disk.rows /\ last' = disk.last
    /\ blamed' = blamed \cup {l \in Lists : rows[l] # disk.rows[l] \/ Busy(l)}
    /\ job' = [j \in Jobs |-> Free]
    /\ engine' = [l \in Lists |-> None] /\ notified' = TRUE /\ loading' = None
    /\ UNCHANGED <<ops, server, disk, cache, losses>>

Next ==
    \/ \E j \in Jobs :
        \/ \E l \in Lists : AskUpdate(j, l) \/ DeleteRow(j, l)
        \/ AskAll(j) \/ NextList(j) \/ Get(j) \/ Ensure(j) \/ NotModified(j) \/ Fetch(j)
        \/ FetchFails(j) \/ Save(j) \/ SaveFails(j) \/ Rest(j) \/ Failed(j) \/ Add(j) \/ RemoveFiles(j)
    \/ \E l \in Lists : Toggle(l) \/ Edit(l) \/ NewVersion(l)
    \/ LoadRows \/ LoadList \/ Swap \/ Sync \/ Crash

Spec == Init /\ [][Next]_vars

-----------------------------------------------------------------------------
\* When nobody works on a list, its file is the version its ETag names: else "304"
\* would keep the wrong rules for good.  Known exceptions: a file that was not
\* saved, two jobs at once, a crash, an edit, a row that was made from a file.
EtagIsHonest ==
    \A l \in Known \ blamed : ~Busy(l) /\ rows[l].etag # 0 =>
        cache[l] = [version |-> rows[l].etag, type |-> rows[l].type]

\* README.md:371: updates "keep the last working rules if the new download is bad", which
\* has no valid rules, or is a large list that "shrinks suspiciously", also over several
\* updates.  Known exception: of the new list fewer rules are stored than were counted, or
\* of the old one more.
Miscounted(old, new) == Counted[new] > Stored[new] \/ Counted[old] < Stored[old]
LastRulesKept == \A loss \in losses : loss.list \in blamed \/ Miscounted(loss.from, loss.to)

\* When the last reload is over, the engine holds exactly the enabled lists.
EngineFollows ==
    ~notified /\ loading = None /\ (\A j \in Jobs : At(j, "idle")) =>
        \A l \in Lists \ blamed :
            engine[l] = IF l \in Known /\ rows[l].enabled THEN cache[l] ELSE None

BlocklistsAreKept == TypeOK /\ EtagIsHonest /\ LastRulesKept /\ EngineFollows
=============================================================================
