-------------------------------- MODULE Settings --------------------------------
(***************************************************************************)
(* The settings and the copies of them (app.py): the table, the cache of   *)
(* get_setting, the one of _hot_get for the keys that every query needs,   *)
(* and the globals that are set once, such as _cache_enabled.              *)
(*                                                                         *)
(* A copy is looked up without a lock and filled after a miss, while other *)
(* threads change the setting: first in the table, then in each copy.      *)
(***************************************************************************)
EXTENDS Naturals, FiniteSets

CONSTANTS
    Keys, Hot,    \* settings; those of _HOT_KEYS
    Threads,
    Max,          \* bound: changes
    Reads,        \* bound: reads that miss a copy, per thread
    None

VARIABLES
    value,        \* table settings: the number of the change that wrote it
    cache,        \* _settings_cache
    hot,          \* _hot_settings
    latch,        \* _cache_enabled and the like
    hotLock,      \* _hot_settings_lock: who fills a copy
    at,           \* what each thread is doing: [pc, key, got]
    left,         \* reads left
    overtaken,    \* keys whose change overlapped another one, or a fill
    restored      \* keys a restore wrote

vars == <<value, cache, hot, latch, hotLock, at, left, overtaken, restored>>

Idle == [pc |-> "idle", key |-> None, got |-> 0, hot |-> FALSE]
Values == 0..Max
TypeOK ==
    /\ value \in [Keys -> Values]
    /\ cache \in [Keys -> Values \cup {None}] /\ hot \in [Hot -> Values \cup {None}]
    /\ latch \in [Hot -> Values \cup {None}] /\ hotLock \in Threads \cup {None}
    /\ at \in [Threads -> [pc : {"idle", "hot", "look", "row", "fill", "keep", "cached", "put", "clear"},
                           key : Keys \cup {None}, got : Values, hot : BOOLEAN]]
    /\ overtaken \subseteq Keys /\ restored \subseteq Keys

Init ==
    /\ value = [k \in Keys |-> 0] /\ cache = [k \in Keys |-> None]
    /\ hot = [k \in Hot |-> None] /\ latch = hot
    /\ hotLock = None /\ at = [t \in Threads |-> Idle]
    /\ left = [t \in Threads |-> Reads]
    /\ overtaken = {} /\ restored = {}

Goto(t, r) == at' = [at EXCEPT ![t] = r]
Busy(t, k, places) == \E o \in Threads \ {t} : at[o].key = k /\ at[o].pc \in places
Latest == CHOOSE n \in Values : (\E k \in Keys : value[k] = n) /\ \A k \in Keys : value[k] <= n

-----------------------------------------------------------------------------
(* get_setting and _hot_get *)

\* A read that needs no table has no effect; only a miss is a read here.
Get(t, k) ==
    /\ at[t] = Idle /\ left[t] > 0 /\ cache[k] = None
    /\ left' = [left EXCEPT ![t] = @ - 1]
    /\ Goto(t, [Idle EXCEPT !.pc = "row", !.key = k])
    /\ UNCHANGED <<value, cache, hot, latch, hotLock, overtaken, restored>>
\* The switches ask once, under a lock of their own, and keep the answer.
HotGet(t, k) ==
    /\ at[t] = Idle /\ left[t] > 0 /\ k \in Hot /\ hot[k] = None
    /\ left' = [left EXCEPT ![t] = @ - 1]
    /\ Goto(t, [Idle EXCEPT !.pc = "hot", !.key = k])
    /\ UNCHANGED <<value, cache, hot, latch, hotLock, overtaken, restored>>
\* Under the lock it looks again.
LockHot(t) ==
    /\ at[t].pc = "hot" /\ hotLock = None
    /\ IF hot[at[t].key] # None
       THEN /\ Goto(t, [at[t] EXCEPT !.pc = "keep", !.got = hot[at[t].key]]) /\ UNCHANGED hotLock
       ELSE /\ hotLock' = t /\ Goto(t, [at[t] EXCEPT !.pc = "look", !.hot = TRUE])
    /\ UNCHANGED <<value, cache, hot, latch, left, overtaken, restored>>
Look(t) ==
    /\ at[t].pc = "look"
    /\ LET c == cache[at[t].key]
       IN Goto(t, IF c = None THEN [at[t] EXCEPT !.pc = "row"] ELSE [at[t] EXCEPT !.pc = "keep", !.got = c])
    /\ UNCHANGED <<value, cache, hot, latch, hotLock, left, overtaken, restored>>
ReadRow(t) ==
    /\ at[t].pc = "row"
    /\ Goto(t, [at[t] EXCEPT !.pc = "fill", !.got = value[at[t].key]])
    /\ UNCHANGED <<value, cache, hot, latch, hotLock, left, overtaken, restored>>
Fill(t) ==
    /\ at[t].pc = "fill"
    /\ cache' = [cache EXCEPT ![at[t].key] = at[t].got]
    /\ Goto(t, IF at[t].hot THEN [at[t] EXCEPT !.pc = "keep"] ELSE Idle)
    /\ UNCHANGED <<value, hot, latch, hotLock, left, overtaken, restored>>
\* The hot copy, and a switch that had not asked yet.
Keep(t) ==
    /\ at[t].pc = "keep"
    /\ hot' = IF at[t].hot THEN [hot EXCEPT ![at[t].key] = at[t].got] ELSE hot
    /\ latch' = [latch EXCEPT ![at[t].key] = IF @ = None THEN at[t].got ELSE @]
    /\ hotLock' = IF hotLock = t THEN None ELSE hotLock
    /\ Goto(t, Idle)
    /\ UNCHANGED <<value, cache, left, overtaken, restored>>

-----------------------------------------------------------------------------
(* set_setting; the direct changes of a restore, of the log-in and of init_db *)

Overtakes(t, k) ==
    overtaken' = IF Busy(t, k, {"fill", "keep", "cached", "put", "clear"}) THEN overtaken \cup {k} ELSE overtaken
Write(t, k) ==
    /\ at[t] = Idle /\ Latest < Max
    /\ value' = [value EXCEPT ![k] = Latest + 1]
    /\ Overtakes(t, k)
    /\ UNCHANGED <<cache, hot, latch, hotLock, left>>
SetSetting(t, k) ==
    /\ Write(t, k) /\ UNCHANGED restored
    /\ Goto(t, [pc |-> "cached", key |-> k, got |-> Latest + 1, hot |-> FALSE])
SetCache(t) ==
    /\ at[t].pc = "cached"
    /\ cache' = [cache EXCEPT ![at[t].key] = at[t].got]
    /\ Goto(t, IF at[t].key \in Hot THEN [at[t] EXCEPT !.pc = "put"] ELSE Idle)
    /\ UNCHANGED <<value, hot, latch, hotLock, left, overtaken, restored>>
\* A bug: the hot copy keeps what it has.
SetHotIfMissing(t) ==
    /\ at[t].pc = "put" /\ hotLock = None
    /\ hot' = [hot EXCEPT ![at[t].key] = IF @ = None THEN at[t].got ELSE @] /\ Goto(t, Idle)
    /\ UNCHANGED <<value, cache, latch, hotLock, left, overtaken, restored>>
SetHot(t) ==
    /\ at[t].pc = "put" /\ hotLock = None
    /\ hot' = [hot EXCEPT ![at[t].key] = at[t].got] /\ Goto(t, Idle)
    /\ UNCHANGED <<value, cache, latch, hotLock, left, overtaken, restored>>
RestoreRow(t, k) ==
    /\ Write(t, k) /\ restored' = restored \cup {k}
    /\ Goto(t, [pc |-> "clear", key |-> k, got |-> 0, hot |-> FALSE])
\* _invalidate_settings_cache() of all keys leaves the hot copies alone.
ClearCache(t) ==
    /\ at[t].pc = "clear"
    /\ cache' = [k \in Keys |-> None] /\ Goto(t, Idle)
    /\ UNCHANGED <<value, hot, latch, hotLock, left, overtaken, restored>>

Next ==
    \E t \in Threads :
        \/ \E k \in Keys : Get(t, k) \/ HotGet(t, k) \/ SetSetting(t, k) \/ RestoreRow(t, k)
        \/ LockHot(t) \/ Look(t) \/ ReadRow(t) \/ Fill(t) \/ Keep(t)
        \/ SetCache(t) \/ SetHot(t) \/ ClearCache(t)
Spec == Init /\ [][Next]_vars

-----------------------------------------------------------------------------
\* When nobody changes or fills it, a copy has what the table has, so that a change in
\* the web interface takes effect.  Known exceptions: changes that overlap each other
\* or a fill, and what a restore wrote under a hot key.
CopiesAreCurrent ==
    \A k \in Keys : (\A t \in Threads : at[t].key # k) =>
        /\ cache[k] \in {None, value[k]} \/ k \in overtaken
        /\ k \in Hot => hot[k] \in {None, value[k]} \/ k \in overtaken \cup restored

\* A fill that overlaps one change may leave the old value in the cache; the hot copy
\* has the new one, since the change waits for the lock and comes last.
HotOutlivesFills ==
    \A k \in Hot \ restored : Latest <= 1 /\ (\A t \in Threads : at[t].key # k) => hot[k] \in {None, value[k]}

SettingsAreCurrent == TypeOK /\ CopiesAreCurrent /\ HotOutlivesFills
=============================================================================
