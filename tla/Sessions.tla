-------------------------------- MODULE Sessions --------------------------------
(***************************************************************************)
(* The sessions of the web interface (app.py): a dictionary in memory, and *)
(* the table auth_sessions, from which a session comes back after a        *)
(* restart.  The dictionary has no lock; the table is used under db_lock,  *)
(* and where it is in memory too, the disk has it as of the last sync.     *)
(***************************************************************************)
EXTENDS FiniteSets

CONSTANTS Tokens, Readers    \* requests that run at once

VARIABLES
    memory,       \* sessions
    rows, saved,  \* auth_sessions, and its copy on disk
    issued,       \* tokens of log-ins so far
    expired,      \* tokens past their expires_at
    leaving,      \* log-outs between pop and DELETE
    reading,      \* each request that found no session in memory: its token
    out,          \* log-outs that ended
    revived,      \* put back by a request during the log-out
    undone        \* log-outs a crash took back

vars == <<memory, rows, saved, issued, expired, leaving, reading, out, revived, undone>>

TypeOK ==
    /\ {memory, rows, saved, expired, leaving, out} \subseteq SUBSET issued /\ issued \subseteq Tokens
    /\ reading \in [Readers -> SUBSET issued] /\ revived \subseteq issued /\ undone \subseteq out

Init ==
    /\ memory = {} /\ rows = {} /\ saved = {} /\ issued = {} /\ expired = {} /\ leaving = {}
    /\ reading = [r \in Readers |-> {}] /\ out = {} /\ revived = {} /\ undone = {}

\* login, under db_lock; old rows go, what is in memory stays.
Login(t) ==
    /\ t \notin issued /\ issued' = issued \cup {t}
    /\ memory' = memory \cup {t} /\ rows' = (rows \ expired) \cup {t}
    /\ UNCHANGED <<saved, expired, leaving, reading, out, revived, undone>>
Expire(t) ==
    /\ t \in issued /\ expired' = expired \cup {t}
    /\ UNCHANGED <<memory, rows, saved, issued, leaving, reading, out, revived, undone>>

\* current_session: memory without a lock, and after a miss the row under db_lock.
Miss(r, t) ==
    /\ reading[r] = {} /\ t \in issued /\ t \notin memory \ expired
    /\ reading' = [reading EXCEPT ![r] = {t}]
    /\ UNCHANGED <<memory, rows, saved, issued, expired, leaving, out, revived, undone>>
ReadRow(r) ==
    \E t \in reading[r] :
        /\ reading' = [reading EXCEPT ![r] = {}]
        /\ IF t \notin rows THEN UNCHANGED <<memory, rows, revived>>
           ELSE IF t \in expired
                THEN memory' = memory \ {t} /\ rows' = rows \ {t} /\ UNCHANGED revived
                ELSE /\ memory' = memory \cup {t} /\ UNCHANGED rows
                     /\ revived' = IF t \in leaving THEN revived \cup {t} ELSE revived
        /\ UNCHANGED <<saved, issued, expired, leaving, out, undone>>

\* logout
Pop(t) ==
    /\ t \in issued \ leaving
    /\ leaving' = leaving \cup {t} /\ memory' = memory \ {t} /\ revived' = revived \ {t}
    /\ UNCHANGED <<rows, saved, issued, expired, reading, out, undone>>
DeleteRow(t) ==
    /\ t \in leaving /\ leaving' = leaving \ {t}
    /\ rows' = rows \ {t} /\ out' = out \cup {t} /\ undone' = undone \ {t}
    /\ UNCHANGED <<memory, saved, issued, expired, reading, revived>>

Sync == saved' = rows /\ UNCHANGED <<memory, rows, issued, expired, leaving, reading, out, revived, undone>>
\* The process ends without a last sync; init_db deletes old rows.
Crash ==
    /\ memory' = {} /\ rows' = saved \ expired /\ leaving' = {} /\ reading' = [r \in Readers |-> {}]
    /\ revived' = {} /\ undone' = undone \cup (out \cap (saved \ expired))
    /\ UNCHANGED <<saved, issued, expired, out>>

Next ==
    \/ \E t \in Tokens :
        \/ Login(t) \/ Expire(t) \/ Pop(t) \/ DeleteRow(t)
        \/ \E r \in Readers : Miss(r, t)
    \/ \E r \in Readers : ReadRow(r)
    \/ Sync \/ Crash
Spec == Init /\ [][Next]_vars

-----------------------------------------------------------------------------
\* A session that was logged out is over, in memory and in the table, and one in memory
\* has its row as long as it has not expired.  Known exceptions: a request that looked
\* at the row in the middle of the log-out, and a crash before the next sync.
SessionsAreCurrent ==
    /\ TypeOK
    /\ \A t \in out \ (leaving \cup undone) : t \notin rows /\ t \notin memory \ revived
    /\ memory \ (rows \cup expired) \subseteq revived
=============================================================================
