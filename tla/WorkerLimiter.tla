----------------------------- MODULE WorkerLimiter -----------------------------
(***************************************************************************)
(* DynamicDNSWorkerLimiter (dynamic_worker_limiter.py): how many DNS       *)
(* requests run at once.  Every handler thread of app.py (UDP, TCP, DoT,   *)
(* DoH, DoQ) calls acquire before it answers a request and release in a    *)
(* finally clause.                                                         *)
(*                                                                         *)
(* One condition variable guards the whole state, so a call is one step,   *)
(* except that acquire gives the lock up while it waits.  A waiting thread *)
(* whose timeout has expired stays among the condition's waiters until it  *)
(* has the lock again: notify may still spend its wake-up on it.           *)
(*                                                                         *)
(* Abstractions: the clock.  "recent" says that the last overload is less  *)
(* than shrink_after old, "late[t]" that the deadline of t has passed; the *)
(* statistics are left out but for the list of start times, kept as the    *)
(* list of the threads they belong to.                                     *)
(***************************************************************************)
EXTENDS Integers, FiniteSets, Sequences

CONSTANTS
    Workers,      \* the handler threads
    Settings,     \* the limits the settings page may set
    MaxChanges    \* bound: changes of the settings and resets of statistics

Limits == [base : Nat \ {0}, max : Nat \ {0}]

\* What __init__ and update_limits check before they accept the limits.
ASSUME SettingsAssumption ==
    Settings \subseteq {s \in Limits : s.base <= s.max}
ASSUME WorkersAssumption == IsFiniteSet(Workers)
ASSUME ChangesAssumption == MaxChanges \in Nat

VARIABLES
    limits,       \* base_limit and max_limit
    current,      \* current_limit
    active,       \* active_workers
    recent,       \* is the last overload less than shrink_after seconds ago?
    starts,       \* _active_start_times
    pc,           \* what each thread does
    late,         \* whose deadline has passed?
    changes       \* changes left

vars == <<limits, current, active, recent, starts, pc, late, changes>>

In(place) == {t \in Workers : pc[t] = place}
Working == In("working")
Asleep == In("asleep")      \* in Condition.wait, not notified
Woken == In("woken")        \* notified, waits for the lock

TypeOK ==
    /\ limits \in Settings
    /\ current \in Nat \ {0}
    /\ active \in Nat
    /\ recent \in BOOLEAN
    /\ starts \in Seq(Workers)
    /\ pc \in [Workers -> {"idle", "asleep", "woken", "working"}]
    /\ late \in [Workers -> BOOLEAN]
    /\ changes \in 0..MaxChanges

Init ==
    /\ limits \in Settings
    /\ current = limits.base
    /\ active = 0
    /\ recent \in BOOLEAN
    /\ starts = <<>>
    /\ pc = [t \in Workers |-> "idle"]
    /\ late = [t \in Workers |-> FALSE]
    /\ changes = MaxChanges

\* A bug: the shrink goes one slot too far.
ShrunkTooFar ==
    IF current > limits.base /\ active <= limits.base /\ ~recent
    THEN limits.base - 1
    ELSE current

-----------------------------------------------------------------------------
(* _shrink_locked: the limit it leaves. *)
Shrunk ==
    IF current > limits.base /\ active <= limits.base /\ ~recent
    THEN limits.base
    ELSE current

Full == active >= Shrunk

-----------------------------------------------------------------------------
(* acquire: the loop, from where the thread has the lock. *)

Admit(t) ==
    /\ active' = active + 1
    /\ starts' = Append(starts, t)
    /\ pc' = [pc EXCEPT ![t] = "working"]
    /\ late' = [late EXCEPT ![t] = FALSE]

TakeSlot(t) ==
    /\ ~Full
    /\ current' = Shrunk
    /\ Admit(t)
    /\ UNCHANGED recent

\* A bug: the burst slot is granted without an upper limit.
TakeBurstSlotUnlimited(t) ==
    /\ Full
    /\ current' = Shrunk + 1
    /\ recent' = TRUE
    /\ Admit(t)

TakeBurstSlot(t) ==
    /\ Full
    /\ Shrunk < limits.max
    /\ current' = Shrunk + 1
    /\ recent' = TRUE
    /\ Admit(t)

Wait(t, expired) ==
    /\ Full
    /\ Shrunk >= limits.max
    /\ ~expired
    /\ current' = Shrunk
    /\ pc' = [pc EXCEPT ![t] = "asleep"]
    /\ late' = [late EXCEPT ![t] = expired]
    /\ UNCHANGED <<active, recent, starts>>

\* A bug: a thread that times out waits once more for the whole timeout.
RejectWaitsAgain(t, expired) ==
    /\ Full
    /\ Shrunk >= limits.max
    /\ expired
    /\ current' = Shrunk
    /\ pc' = [pc EXCEPT ![t] = "asleep"]
    /\ late' = [late EXCEPT ![t] = FALSE]
    /\ UNCHANGED <<active, recent, starts>>

Reject(t, expired) ==
    /\ Full
    /\ Shrunk >= limits.max
    /\ expired
    /\ current' = Shrunk
    /\ pc' = [pc EXCEPT ![t] = "idle"]
    /\ late' = [late EXCEPT ![t] = FALSE]
    /\ UNCHANGED <<active, recent, starts>>

\* A bug: the deadline is looked at before the slots.
AttemptDeadlineFirst(t, expired) ==
    /\ IF expired
       THEN /\ pc' = [pc EXCEPT ![t] = "idle"]
            /\ late' = [late EXCEPT ![t] = FALSE]
            /\ UNCHANGED <<current, active, recent, starts>>
       ELSE TakeSlot(t) \/ TakeBurstSlot(t) \/ Wait(t, expired)
    /\ UNCHANGED <<limits, changes>>

\* A slot counts before the deadline: a thread that was woken for a slot, or
\* finds one, takes it even when it is late.
Attempt(t, expired) ==
    /\ \/ TakeSlot(t)
       \/ TakeBurstSlot(t)
       \/ Wait(t, expired)
       \/ Reject(t, expired)
    /\ UNCHANGED <<limits, changes>>

\* acquire, with a timeout of 0 or a deadline that passes before the thread
\* has the lock (expired), or with time left.
Acquire(t) ==
    /\ pc[t] = "idle"
    /\ \E expired \in BOOLEAN : Attempt(t, expired)

\* The thread is back from Condition.wait: notified, or by its timeout.
Resume(t) ==
    /\ pc[t] = "woken" \/ (pc[t] = "asleep" /\ late[t])
    /\ Attempt(t, late[t])

DeadlinePasses(t) ==
    /\ pc[t] \in {"asleep", "woken"}
    /\ ~late[t]
    /\ late' = [late EXCEPT ![t] = TRUE]
    /\ UNCHANGED <<limits, current, active, recent, starts, pc, changes>>

-----------------------------------------------------------------------------
(* release *)

DropStart == starts' = IF starts = <<>> THEN starts ELSE Tail(starts)

\* notify: one of the waiters, if there is any.
Notify(places) ==
    IF Asleep = {}
    THEN pc' = places
    ELSE \E w \in Asleep : pc' = [places EXCEPT ![w] = "woken"]

\* The active workers are one less when _shrink_locked looks at them.
ShrunkAfterRelease ==
    IF current > limits.base /\ active - 1 <= limits.base /\ ~recent
    THEN limits.base
    ELSE current

Release(t) ==
    /\ pc[t] = "working"
    /\ active > 0
    /\ active' = active - 1
    /\ DropStart
    /\ current' = ShrunkAfterRelease
    /\ Notify([pc EXCEPT ![t] = "idle"])
    /\ UNCHANGED <<limits, recent, late, changes>>

-----------------------------------------------------------------------------
(* maintenance, settings, statistics and the clock *)

\* A bug: the maintenance thread shrinks only a limit nobody uses.
MaintenanceIdleOnly ==
    /\ Shrunk # current
    /\ active = 0
    /\ current > limits.base + 1
    /\ current' = Shrunk
    /\ UNCHANGED <<limits, active, recent, starts, pc, late, changes>>

\* Also snapshot, which the metrics and the monitor call.
Maintenance ==
    /\ Shrunk # current
    /\ current' = Shrunk
    /\ UNCHANGED <<limits, active, recent, starts, pc, late, changes>>

\* A bug: update_limits does not raise the current limit to the new base.
ClampedBelowOnly(s) ==
    LET low == IF current > s.max THEN s.max ELSE current
    IN  IF low > s.base /\ active <= s.base THEN s.base ELSE low

\* The current limit update_limits leaves.  It wakes nobody.
Clamped(s) ==
    LET low == IF current > s.max THEN s.max ELSE current
        high == IF low < s.base THEN s.base ELSE low
    IN  IF high > s.base /\ active <= s.base THEN s.base ELSE high

\* A new shrink_after may move the end of the cooldown either way.
UpdateLimits ==
    /\ changes > 0
    /\ changes' = changes - 1
    /\ \E s \in Settings :
          /\ limits' = s
          /\ current' = Clamped(s)
    /\ recent' \in BOOLEAN
    /\ UNCHANGED <<active, starts, pc, late>>

ResetStatistics ==
    /\ changes > 0
    /\ changes' = changes - 1
    /\ starts' = <<>>
    /\ UNCHANGED <<limits, current, active, recent, pc, late>>

CooldownEnds ==
    /\ recent
    /\ recent' = FALSE
    /\ UNCHANGED <<limits, current, active, starts, pc, late, changes>>

Next ==
    \/ \E t \in Workers :
          Acquire(t) \/ Resume(t) \/ DeadlinePasses(t) \/ Release(t)
    \/ Maintenance \/ UpdateLimits \/ ResetStatistics \/ CooldownEnds

Spec == Init /\ [][Next]_vars

(* A handler finishes its request (upstream queries time out), a thread gets
   the lock in the end, the clock advances and the maintenance thread runs
   every three seconds.  Requests need not come, and settings need not
   change. *)
Fairness ==
    /\ \A t \in Workers : WF_vars(Resume(t))
    /\ \A t \in Workers : WF_vars(DeadlinePasses(t))
    /\ \A t \in Workers : WF_vars(Release(t))
    /\ WF_vars(Maintenance)
    /\ WF_vars(CooldownEnds)

FairSpec == Spec /\ Fairness

-----------------------------------------------------------------------------
(* Properties *)

\* The counter is the number of handlers that answer a request, and the
\* current limit stays between the base and the burst limit whatever the
\* settings and the load do: release never finds the counter at zero.
Accounting ==
    /\ active = Cardinality(Working)
    /\ limits.base <= current /\ current <= limits.max

\* No wake-up is lost: while a handler waits, every slot of the burst limit is
\* taken or on its way to a handler that was woken for it, even when the one
\* that release wakes has just run out of time.
WorkConserving ==
    Asleep # {} => active + Cardinality(Woken) >= limits.max

\* "expands by one slot, up to the burst limit": no request is admitted
\* beyond the burst limit.
WithinBurstLimit ==
    [][active' > active => active' <= limits.max]_vars

\* Every request gets its slot or its rejection.
RequestsReturn ==
    \A t \in Workers :
        pc[t] \in {"asleep", "woken"} ~> pc[t] \in {"idle", "working"}

\* When the requests stop, the limit goes back to the base.
BurstEnds == <>[](Working = {} /\ Asleep = {} /\ Woken = {})
             => <>[](current = limits.base)
=============================================================================
