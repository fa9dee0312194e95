------------------------------- MODULE RulesFile -------------------------------
(***************************************************************************)
(* The file of the user's rules (rules_engine.py), which the rules page    *)
(* and the query log change (app.py).  Each of them reads the file, and    *)
(* some time later writes a new text: the page when the user saves, the    *)
(* query log at once.  write_rules has a lock; what was read before is not *)
(* looked at again.  At the start the rules of an old version, which are   *)
(* in the database, become the file if there is none.                      *)
(*                                                                         *)
(* Abstractions: a text is the set of its rules; an edit adds a rule or    *)
(* removes one.  os.replace is one step.  A backup's name is the second it *)
(* was made in; restoring a backup is not modelled.                        *)
(***************************************************************************)
EXTENDS Naturals

CONSTANTS
    Editors,     \* requests to the web interface
    UserRules,
    Legacy,      \* those of them that are enabled in the database of an old version
    MaxSeconds,  \* bound: seconds
    MaxEdits,    \* bound: edits
    MaxTrouble,  \* bound: reads, copies and writes that fail, crashes
    None

VARIABLES
    file,        \* user_rules.pgrules, None if there is none
    backups,     \* the backup of each second
    second,
    writer,      \* who holds _write_lock
    up,          \* the program runs
    editing,     \* what each editor does, the text it read and the one it writes
    edits, trouble,    \* edits and troubles left
    meant,       \* history: the rules, if each edit were made to the newest text
    disturbed    \* history: an edit read nothing, or a text that changed meanwhile

vars == <<file, backups, second, writer, up, editing, edits, trouble, meant, disturbed>>

Idle == [at |-> "idle", read |-> {}, new |-> {}, copied |-> FALSE]
Text == IF file = None THEN {} ELSE file

TypeOK ==
    /\ file \in {None} \cup SUBSET UserRules
    /\ second \in 0..MaxSeconds
    /\ writer \in Editors \cup {None}
    /\ \A e \in Editors : editing[e].at \in {"idle", "edit", "write", "locked"}

\* A new installation, one with rules already, and one that was updated.
Init ==
    /\ file \in {None, Legacy}
    /\ backups = [s \in 0..MaxSeconds |-> None]
    /\ second = 0
    /\ writer = None
    /\ up = FALSE
    /\ editing = [e \in Editors |-> Idle]
    /\ edits = MaxEdits /\ trouble = MaxTrouble
    /\ meant = Text
    /\ disturbed = FALSE

Goes(e, from, state) ==
    /\ up
    /\ editing[e].at = from
    /\ editing' = [editing EXCEPT ![e] = state]

\* migration_needed, run_migration: only without a file.
Start ==
    /\ ~up /\ up' = TRUE
    /\ file' = IF file = None /\ Legacy # {} THEN Legacy ELSE file
    /\ meant' = IF file = None THEN Legacy ELSE meant
    /\ UNCHANGED <<backups, second, writer, editing, edits, trouble, disturbed>>

\* rules_page
Read(e) ==
    /\ edits > 0 /\ edits' = edits - 1
    /\ Goes(e, "idle", [Idle EXCEPT !.at = "edit", !.read = Text])
    /\ UNCHANGED <<file, backups, second, writer, up, trouble, meant, disturbed>>

\* read_rules: a file that cannot be read is an empty text.
ReadFails(e) ==
    /\ edits > 0 /\ edits' = edits - 1
    /\ trouble > 0 /\ trouble' = trouble - 1
    /\ Goes(e, "idle", [Idle EXCEPT !.at = "edit"])
    /\ disturbed' = TRUE
    /\ UNCHANGED <<file, backups, second, writer, up, meant>>

\* create_rule_from_querylog adds a rule, the rules page also removes rules.
Change(e, r) ==
    /\ \E new \in {editing[e].read \cup {r}, editing[e].read \ {r}} :
        Goes(e, "edit", [editing[e] EXCEPT !.at = "write", !.new = new])
    /\ UNCHANGED <<file, backups, second, writer, up, edits, trouble, meant, disturbed>>

\* write_rules: the lock, and the copy of the old file, which may fail.
Copy(e) ==
    /\ writer = None /\ writer' = e
    /\ Goes(e, "write", [editing[e] EXCEPT !.at = "locked", !.copied = TRUE])
    /\ backups' = IF file = None THEN backups ELSE [backups EXCEPT ![second] = file]
    /\ UNCHANGED <<file, second, up, edits, trouble, meant, disturbed>>

CopyFails(e) ==
    /\ trouble > 0 /\ trouble' = trouble - 1
    /\ writer = None /\ writer' = e
    /\ Goes(e, "write", [editing[e] EXCEPT !.at = "locked"])
    /\ UNCHANGED <<file, backups, second, up, edits, meant, disturbed>>

\* write_rules: the new file takes the place of the old one.
Replace(e) ==
    /\ Goes(e, "locked", Idle)
    /\ writer' = None
    /\ file' = editing[e].new
    /\ LET read == editing[e].read
           new == editing[e].new
       IN /\ meant' = (meant \cup (new \ read)) \ (read \ new)
          /\ disturbed' = (disturbed \/ read # Text)
    /\ UNCHANGED <<backups, second, up, edits, trouble>>

WriteFails(e) ==
    /\ trouble > 0 /\ trouble' = trouble - 1
    /\ Goes(e, "locked", Idle)
    /\ writer' = None
    /\ UNCHANGED <<file, backups, second, up, edits, meant, disturbed>>

Crash ==
    /\ up /\ up' = FALSE
    /\ trouble > 0 /\ trouble' = trouble - 1
    /\ writer' = None
    /\ editing' = [e \in Editors |-> Idle]
    /\ UNCHANGED <<file, backups, second, edits, meant, disturbed>>

Tick ==
    /\ second < MaxSeconds /\ second' = second + 1
    /\ UNCHANGED <<file, backups, writer, up, editing, edits, trouble, meant, disturbed>>

Next ==
    \/ Start \/ Crash \/ Tick
    \/ \E e \in Editors :
        \/ Read(e) \/ ReadFails(e) \/ Copy(e) \/ CopyFails(e) \/ Replace(e) \/ WriteFails(e)
        \/ \E r \in UserRules : Change(e, r)

-----------------------------------------------------------------------------
\* No edit is lost and no rule comes back, over failed writes, crashes and restarts, but
\* where an edit was made to a text that another one had changed, or that was not read.
EditsAreMade == ~disturbed => Text = meant

\* What is about to be replaced is in a backup, if it could be copied.
OldTextIsKept ==
    \A e \in Editors :
        editing[e].at = "locked" /\ editing[e].copied /\ file # None =>
            \E s \in DOMAIN backups : backups[s] = file

RulesAreKept == TypeOK /\ EditsAreMade /\ OldTextIsKept
=============================================================================
