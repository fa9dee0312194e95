------------------------------ MODULE TrustAnchors ------------------------------
(***************************************************************************)
(* The root trust anchors of the DNSSEC validator and the file that keeps  *)
(* their RFC 5011 states (dnssec_validator.py, get_dnssec_validator and    *)
(* process_dnssec_trust_anchor_startup of app.py).                         *)
(*                                                                         *)
(* Every handler thread that validates an answer makes sure the file       *)
(* trust_anchors.json exists, compares the keys of the root zone with the  *)
(* anchors in memory, and then updates the file from these keys:           *)
(* update_rfc5011_trust_anchors reads it, writes <file>.tmp and moves that *)
(* over the file, and reloads the anchors.  No lock is held meanwhile, and *)
(* all threads use the same temporary file.                                *)
(*                                                                         *)
(* A file is an inode with a content: a writer that has it open keeps      *)
(* writing to it after it was moved.                                       *)
(*                                                                         *)
(* Abstractions: time is counted in days, and a validation (its budget is  *)
(* three seconds) ends on the day it began.  An anchor is known by its key *)
(* and by whether it was published as revoked: the REVOKE flag is a part   *)
(* of the key tag, so the revoked key has an entry of its own.             *)
(* root-anchors.xml and root.key stay as they were installed.              *)
(***************************************************************************)
EXTENDS Integers, FiniteSets

CONSTANTS
    Keys,       \* key-signing keys of the root zone
    Builtin,    \* those in root-anchors.xml and root.key
    Scenes,     \* bound: which handler threads are at work and how often the
                \* server restarts
    Inodes,     \* names for files
    None,
    Hold,       \* RFC5011_ADD_HOLD_DOWN_DAYS
    Remove,     \* RFC5011_REMOVE_HOLD_DOWN_DAYS
    Retention,  \* RETIRED_KEY_RETENTION_DAYS
    MaxDay      \* bound: days

Threads == UNION {s.threads : s \in Scenes}

VARIABLES
    cast,       \* the threads at work
    zone,       \* the keys the root zone publishes
    published,  \* the day each of them was first published
    day,        \* the clock
    file,       \* the content of every inode
    json, tmp,  \* the inodes of trust_anchors.json and of its temporary file
    fd,         \* the file each thread has open
    anchors,    \* _trust_anchor_dnskey_set and _trust_anchor_ds_set
    pc, after,  \* where each thread is; where it goes once it has saved
    payload,    \* the state each thread has read and changed
    outcome,    \* what the caller made of the thread's last validation
    checked,    \* did a validation end today?
    torn,       \* was a state file given up because it was not whole?
    restarts    \* what the bound leaves

files == <<file, json, tmp, fd>>
world == <<cast, zone, published, day, restarts>>
vars == <<world, files, anchors, pc, after, payload, outcome, checked, torn>>

Days == 0..MaxDay
\* A key and whether it carries the REVOKE flag.
Idents == Keys \X BOOLEAN
Plain(keys) == {<<k, FALSE>> : k \in keys}

\* "first": first_seen; "until": hold_down_until, remove_hold_down_until or
\* retired_at, whichever the state has.
Absent == [state |-> "absent", first |-> 0, until |-> 0]
Anchor == [state : {"absent", "active", "pending", "revoked", "retired"},
           first : Days, until : 0..(MaxDay + Hold + Remove)]
Nothing == [i \in Idents |-> Absent]
\* A file that was opened for writing and is not written yet cannot be parsed.
Content == [whole : BOOLEAN, anchors : [Idents -> Anchor]]
Unwritten == [whole |-> FALSE, anchors |-> Nothing]
Written(p) == [whole |-> TRUE, anchors |-> p]

\* _write_trust_anchor_json: what is built in is active.
Initial == [i \in Idents |-> IF i \in Plain(Builtin) THEN [Absent EXCEPT !.state = "active"]
                             ELSE Absent]

\* The first half of update_rfc5011_trust_anchors: what the zone publishes and
\* the file does not have yet.
NewAnchor(i, today) ==
    IF i[2] THEN [state |-> "revoked", first |-> today, until |-> today + Remove]
    ELSE [state |-> "pending", first |-> today, until |-> today + Hold]

\* A bug: a key that is still pending starts its hold-down again.
RecordedAnew(p, root, today) ==
    [i \in Idents |-> IF i \in root /\ p[i].state \in {"absent", "pending"}
                      THEN NewAnchor(i, today) ELSE p[i]]
Recorded(p, root, today) ==
    [i \in Idents |-> IF i \in root /\ p[i] = Absent THEN NewAnchor(i, today) ELSE p[i]]

Promote(a) == [a EXCEPT !.state = "active", !.until = 0]
Retire(a, today) == [a EXCEPT !.state = "retired", !.until = today]

\* A bug: the hold-down of a key that is published is not waited for.
UpdatedAtOnce(p, root, today) ==
    LET q == Recorded(p, root, today)
    IN [i \in Idents |->
          CASE q[i].state = "pending" /\ i \in root -> Promote(q[i])
            [] q[i].state = "revoked" /\ today >= q[i].until -> Retire(q[i], today)
            [] OTHER -> q[i]]

\* All of it: a pending key is promoted if it is still published.
Updated(p, root, today) ==
    LET q == Recorded(p, root, today)
    IN [i \in Idents |->
          CASE q[i].state = "pending" /\ today >= q[i].until /\ i \in root -> Promote(q[i])
            [] q[i].state = "revoked" /\ today >= q[i].until -> Retire(q[i], today)
            [] OTHER -> q[i]]

\* process_rfc5011_state: a pending key is promoted whether it is published or
\* not, and what was retired long ago is dropped.
Processed(p, today) ==
    [i \in Idents |->
       CASE p[i].state = "revoked" /\ today >= p[i].until -> Retire(p[i], today)
         [] p[i].state = "pending" /\ (today >= p[i].until \/ today >= p[i].first + Hold) ->
              Promote(p[i])
         [] p[i].state = "retired" /\ today >= p[i].until + Retention -> Absent
         [] OTHER -> p[i]]

\* What _load_json_state takes from the file; load falls back to what is built in.
Loadable(p) == {i \in Idents : p[i].state \in {"active", "revoked"}}
Sets(content) ==
    IF content.whole /\ Loadable(content.anchors) # {} THEN Loadable(content.anchors)
    ELSE Plain(Builtin)

-----------------------------------------------------------------------------
TypeOK ==
    /\ cast \subseteq Threads /\ restarts \in Nat
    /\ zone \subseteq Idents /\ published \in [Idents -> Days \cup {None}]
    /\ day \in Days
    /\ file \in [Inodes -> Content]
    /\ json \in Inodes \cup {None} /\ tmp \in Inodes \cup {None}
    /\ fd \in [Threads -> Inodes \cup {None}]
    /\ anchors \subseteq Idents
    /\ pc \in [Threads -> {"idle", "fill", "match", "update", "open", "write", "replace",
                           "reload", "process", "check", "last"}]
    /\ after \in [Threads -> {"reload", "check", "last"}]
    /\ payload \in [Threads -> [Idents -> Anchor]]
    /\ outcome \in [Threads -> {"none", "keys", "bogus", "failed"}]
    /\ checked \in BOOLEAN /\ torn \in BOOLEAN

\* The server was installed and started.
Init ==
    /\ \E s \in Scenes : cast = s.threads /\ restarts = s.restarts
    /\ zone = Plain(Builtin)
    /\ published = [i \in Idents |-> IF i \in Plain(Builtin) THEN 0 ELSE None]
    /\ day = 0
    /\ json \in Inodes /\ tmp = None
    /\ json = CHOOSE i \in Inodes : TRUE
    /\ file = [i \in Inodes |-> IF i = json THEN Written(Initial) ELSE Unwritten]
    /\ fd = [t \in Threads |-> None]
    /\ anchors = Plain(Builtin)
    /\ pc = [t \in Threads |-> "idle"] /\ after = [t \in Threads |-> "reload"]
    /\ payload = [t \in Threads |-> Nothing]
    /\ outcome = [t \in Threads |-> "none"]
    /\ checked = FALSE /\ torn = FALSE

Goto(t, place) == pc' = [pc EXCEPT ![t] = place]
Free(j, m, f) == Inodes \ ({j, m} \cup {f[t] : t \in Threads})
AnyFree(j, m, f) == CHOOSE i \in Free(j, m, f) : TRUE
\* Files that have no name and that nobody has open are gone.
Drop(content, j, m, f) == [i \in Inodes |-> IF i \in Free(j, m, f) THEN Unwritten ELSE content[i]]
\* The thread is through with its validation.
Finish(t, result) ==
    /\ pc' = [pc EXCEPT ![t] = "idle"]
    /\ after' = [after EXCEPT ![t] = "reload"]
    /\ payload' = [payload EXCEPT ![t] = Nothing]
    /\ outcome' = [outcome EXCEPT ![t] = result]
    /\ checked' = TRUE
Content0 == IF json = None THEN Unwritten ELSE file[json]
\* _backup_broken_file: the file loses its name.
Backup == /\ json' = None /\ file' = Drop(file, None, tmp, fd) /\ torn' = TRUE
          /\ UNCHANGED <<tmp, fd>>

-----------------------------------------------------------------------------
(* A handler thread validates an answer *)

\* Bound: a thread validates one answer a day.
Begins(t) == t \in cast /\ pc[t] = "idle" /\ outcome[t] = "none"

\* get_dnssec_validator calls ensure_root_trust_anchor: the file is there.
Ensure(t) ==
    /\ Begins(t)
    /\ Content0.whole
    /\ Goto(t, "match")
    /\ UNCHANGED <<world, files, anchors, after, payload, outcome, checked, torn>>

\* It is missing, or cannot be parsed and is moved away: it is opened anew.
Recreate(t) ==
    /\ Begins(t)
    /\ ~Content0.whole
    /\ LET i == AnyFree(None, tmp, fd)
           f == [fd EXCEPT ![t] = i]
       IN json' = i /\ fd' = f /\ file' = Drop(file, i, tmp, f)
    /\ torn' = TRUE
    /\ Goto(t, "fill")
    /\ UNCHANGED <<world, tmp, anchors, after, payload, outcome, checked>>

\* ... and written from root-anchors.xml.
Fill(t) ==
    /\ pc[t] = "fill"
    /\ fd' = [fd EXCEPT ![t] = None]
    /\ file' = Drop([file EXCEPT ![fd[t]] = Written(Initial)], json, tmp, fd')
    /\ Goto(t, "match")
    /\ UNCHANGED <<world, json, tmp, anchors, after, payload, outcome, checked, torn>>

\* _validated_zone_keys: one of the keys of the root zone is an anchor ...
Matches(t) ==
    /\ pc[t] = "match"
    /\ anchors \cap zone # {}
    /\ Goto(t, "update")
    /\ UNCHANGED <<world, files, anchors, after, payload, outcome, checked, torn>>

\* ... or none is, and the answer is bogus.
NoMatch(t) ==
    /\ pc[t] = "match"
    /\ anchors \cap zone = {}
    /\ Finish(t, "bogus")
    /\ UNCHANGED <<world, files, anchors, torn>>

\* update_rfc5011_trust_anchors reads the file and works out the new state.  It
\* is saved in any case; the anchors are reloaded if it changed, as it does
\* when the second of last_seen is another one.
Update(t) ==
    /\ pc[t] = "update"
    /\ Content0.whole
    /\ payload' = [payload EXCEPT ![t] = Updated(Content0.anchors, zone, day)]
    /\ \E sameSecond \in BOOLEAN :
         after' = [after EXCEPT ![t] = IF sameSecond /\ payload'[t] = Content0.anchors
                                       THEN "check" ELSE "reload"]
    /\ Goto(t, "open")
    /\ UNCHANGED <<world, files, anchors, outcome, checked, torn>>

\* It cannot be read: it is moved away, and nothing is updated.
UpdateSkipped(t) ==
    /\ pc[t] = "update"
    /\ ~Content0.whole
    /\ Backup
    /\ Finish(t, "keys")
    /\ UNCHANGED <<world, anchors>>

-----------------------------------------------------------------------------
(* _save_anchor_state_payload *)

\* open(tmp, "w") empties a file of that name, or makes one.
OpenTmp(t) ==
    /\ pc[t] = "open"
    /\ LET i == IF tmp = None THEN AnyFree(json, None, fd) ELSE tmp
       IN /\ tmp' = i
          /\ fd' = [fd EXCEPT ![t] = i]
          /\ file' = [file EXCEPT ![i] = Unwritten]
    /\ Goto(t, "write")
    /\ UNCHANGED <<world, json, anchors, after, payload, outcome, checked, torn>>

WriteTmp(t) ==
    /\ pc[t] = "write"
    /\ fd' = [fd EXCEPT ![t] = None]
    /\ file' = Drop([file EXCEPT ![fd[t]] = Written(payload[t])], json, tmp, fd')
    /\ Goto(t, "replace")
    /\ UNCHANGED <<world, json, tmp, anchors, after, payload, outcome, checked, torn>>

Replace(t) ==
    /\ pc[t] = "replace"
    /\ tmp # None
    /\ json' = tmp /\ tmp' = None
    /\ file' = Drop(file, tmp, None, fd)
    /\ Goto(t, after[t])
    /\ payload' = [payload EXCEPT ![t] = Nothing]
    /\ UNCHANGED <<world, fd, anchors, after, outcome, checked, torn>>

\* Another thread has moved the file: os.replace raises, and the loop over the
\* signers takes that for an answer that does not validate.
ReplaceFails(t) ==
    /\ pc[t] = "replace"
    /\ tmp = None
    /\ Finish(t, "failed")
    /\ UNCHANGED <<world, files, anchors, torn>>

-----------------------------------------------------------------------------
(* reload_trust_anchor and process_rfc5011_state *)

\* load, under _trust_anchor_lock: at the beginning and at the end of a reload.
Load(t) ==
    /\ pc[t] \in {"reload", "last"}
    /\ anchors' = Sets(Content0)
    /\ IF json # None /\ ~Content0.whole THEN Backup ELSE UNCHANGED <<files, torn>>
    /\ IF pc[t] = "last" THEN Finish(t, "keys")
       ELSE Goto(t, "process") /\ UNCHANGED <<after, payload, outcome, checked>>
    /\ UNCHANGED world

\* The reload ends with a load ("process"); after a save that changed nothing
\* the whole reload follows ("check").
Process(t) ==
    /\ pc[t] \in {"process", "check"}
    /\ Content0.whole
    /\ Processed(Content0.anchors, day) # Content0.anchors
    /\ payload' = [payload EXCEPT ![t] = Processed(Content0.anchors, day)]
    /\ after' = [after EXCEPT ![t] = IF pc[t] = "process" THEN "last" ELSE "reload"]
    /\ Goto(t, "open")
    /\ UNCHANGED <<world, files, anchors, outcome, checked, torn>>

NothingToProcess(t) ==
    /\ pc[t] \in {"process", "check"}
    /\ Content0.whole => Processed(Content0.anchors, day) = Content0.anchors
    /\ Finish(t, "keys")
    /\ UNCHANGED <<world, files, anchors, torn>>

Validate(t) ==
    \/ Ensure(t) \/ Recreate(t) \/ Fill(t) \/ Matches(t) \/ NoMatch(t)
    \/ Update(t) \/ UpdateSkipped(t)
    \/ OpenTmp(t) \/ WriteTmp(t) \/ Replace(t) \/ ReplaceFails(t)
    \/ Load(t) \/ Process(t) \/ NothingToProcess(t)

-----------------------------------------------------------------------------
(* The server starts again, after a crash or not: the file is made if it is
   missing or broken, processed and loaded. *)
Restart ==
    /\ restarts > 0
    /\ restarts' = restarts - 1
    /\ LET old == IF Content0.whole THEN Content0.anchors ELSE Initial
           i == IF json = None THEN AnyFree(None, tmp, [t \in Threads |-> None]) ELSE json
           nobody == [t \in Threads |-> None]
       IN /\ json' = i
          /\ fd' = nobody
          /\ file' = Drop([file EXCEPT ![i] = Written(Processed(old, day))], i, tmp, nobody)
          /\ anchors' = Sets(file'[i])
    /\ pc' = [t \in Threads |-> "idle"] /\ after' = [t \in Threads |-> "reload"]
    /\ payload' = [t \in Threads |-> Nothing]
    /\ outcome' = [t \in Threads |-> "none"]
    /\ torn' = (torn \/ ~Content0.whole)
    /\ UNCHANGED <<cast, zone, published, day, tmp, checked>>

-----------------------------------------------------------------------------
(* The world: answers are validated every day, and the operator of the root
   zone rolls its key over as RFC 5011 asks. *)

NextDay(newZone) ==
    /\ day < MaxDay /\ checked
    /\ \A t \in Threads : pc[t] = "idle"
    /\ day' = day + 1
    /\ zone' = newZone
    /\ published' = [i \in Idents |->
                       IF i \in newZone /\ published[i] = None THEN day + 1 ELSE published[i]]
    /\ checked' = FALSE
    /\ outcome' = [t \in Threads |-> "none"]
    /\ UNCHANGED <<cast, restarts, files, anchors, pc, after, payload, torn>>

Publish(k) == <<k, FALSE>> \notin zone /\ published[<<k, FALSE>>] = None
              /\ NextDay(zone \cup {<<k, FALSE>>})
\* The old key is revoked once every validator that looks at the zone each day
\* has had the time to trust the new one.
Revoke(k) ==
    /\ <<k, FALSE>> \in zone
    /\ \E n \in Keys \ {k} : <<n, FALSE>> \in zone /\ day >= published[<<n, FALSE>>] + Hold
    /\ NextDay((zone \ {<<k, FALSE>>}) \cup {<<k, TRUE>>})
\* It disappears after the hold-down of the removal.
Withdraw(k) ==
    /\ <<k, TRUE>> \in zone
    /\ day >= published[<<k, TRUE>>] + Remove
    /\ NextDay(zone \ {<<k, TRUE>>})
Quiet == NextDay(zone)

Operator == Quiet \/ \E k \in Keys : Publish(k) \/ Revoke(k) \/ Withdraw(k)

Next == Restart \/ Operator \/ \E t \in Threads : Validate(t)
Spec == Init /\ [][Next]_vars

-----------------------------------------------------------------------------
(* Properties *)

\* A key that was not installed is trusted only when the root zone first
\* published it a whole hold-down before, however many handlers update the
\* state at once, whatever is lost and whenever the server restarts.
AnchorsWereHeld ==
    \A i \in anchors \ Plain(Builtin) : i[2] \/ day >= published[i] + Hold

\* The server follows a rollover: as long as no state file was given up, what it
\* trusts is among what the root zone publishes once the day's validation ended.
RolloverFollowed == checked /\ ~torn => anchors \cap zone # {}
=============================================================================
