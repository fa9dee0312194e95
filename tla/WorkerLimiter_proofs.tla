-------------------------- MODULE WorkerLimiter_proofs --------------------------
(***************************************************************************)
(* Proofs about WorkerLimiter, for any threads and any settings, and about *)
(* the other parts of MCWorkerLimiter: Updater, Servers and Listeners, for *)
(* any sets of files, ports, servers and threads.                          *)
(***************************************************************************)
EXTENDS MCWorkerLimiter, FiniteSetTheorems, WellFoundedInduction, SequenceTheorems, TLAPS

IInv == TypeOK /\ Accounting

\* The settings page leaves the burst limit as it is.
OneBurstLimit == \A s, r \in Settings : s.max = r.max

\* With one burst limit the requests that run never exceed the current limit,
\* which is what keeps the next one within the burst limit.
BurstInv ==
    /\ IInv
    /\ active <= current
    /\ WorkConserving

-----------------------------------------------------------------------------
\* What a set of threads becomes when one thread moves.
LEMMA Moves ==
    ASSUME TypeOK, NEW t \in Workers, NEW q, NEW p,
           pc' = [pc EXCEPT ![t] = q]
    PROVE  In(p)' = IF q = p THEN In(p) \cup {t} ELSE In(p) \ {t}
BY DEF TypeOK, In

\* The sets of threads are finite, so their sizes are numbers.
LEMMA Sizes ==
    ASSUME NEW p
    PROVE  IsFiniteSet(In(p)) /\ Cardinality(In(p)) \in Nat
<1>1. In(p) \subseteq Workers
  BY DEF In
<1> QED
  BY <1>1, FS_Subset, FS_CardinalityType, WorkersAssumption

LEMMA NextSizes ==
    ASSUME NEW p
    PROVE  Cardinality(In(p))' \in Nat
<1>1. In(p)' \subseteq Workers
  BY DEF In
<1>2. IsFiniteSet(In(p)') /\ Cardinality(In(p)') \in Nat
  BY <1>1, FS_Subset, FS_CardinalityType, WorkersAssumption
<1> QED
  BY <1>2

\* The size of a set of threads when one thread moves in, out or elsewhere.
LEMMA MovesIn ==
    ASSUME TypeOK, NEW t \in Workers, NEW p, pc[t] # p,
           pc' = [pc EXCEPT ![t] = p]
    PROVE  Cardinality(In(p))' = Cardinality(In(p)) + 1
<1>1. IsFiniteSet(In(p)) /\ t \notin In(p)
  BY Sizes DEF In
<1>2. In(p)' = In(p) \cup {t}
  BY Moves
<1> QED
  BY <1>1, <1>2, FS_AddElement

LEMMA MovesElsewhere ==
    ASSUME TypeOK, NEW t \in Workers, NEW p, NEW q, q # p,
           pc' = [pc EXCEPT ![t] = q]
    PROVE  /\ In(p)' \subseteq In(p)
           /\ Cardinality(In(p))' =
                Cardinality(In(p)) - (IF pc[t] = p THEN 1 ELSE 0)
<1>1. IsFiniteSet(In(p)) /\ Cardinality(In(p)) \in Nat
  BY Sizes
<1>2. In(p)' = In(p) \ {t}
  BY Moves
<1>3. CASE pc[t] = p
  <2>1. t \in In(p)
    BY <1>3 DEF In
  <2> QED
    BY <1>1, <1>2, <1>3, <2>1, FS_RemoveElement
<1>4. CASE pc[t] # p
  <2>1. In(p)' = In(p)
    BY <1>2, <1>4 DEF In
  <2> QED
    BY <1>1, <1>4, <2>1
<1> QED
  BY <1>3, <1>4

-----------------------------------------------------------------------------
\* The limits of the settings are numbers in order.
LEMMA Numbers ==
    ASSUME NEW s \in Settings
    PROVE  /\ s.base \in Nat \ {0} /\ s.max \in Nat \ {0}
           /\ s.base <= s.max
BY SettingsAssumption DEF Limits

\* The limit after a shrink lies between the base and the current limit.
LEMMA ShrunkBounds ==
    ASSUME IInv
    PROVE  /\ Shrunk \in Nat \ {0}
           /\ limits.base <= Shrunk /\ Shrunk <= current
           /\ active <= current => active <= Shrunk
BY Numbers DEF IInv, TypeOK, Accounting, Shrunk

\* acquire keeps the accounts: from its first call and after every wait.
LEMMA AttemptKeepsIInv ==
    ASSUME IInv, NEW t \in Workers, NEW e \in BOOLEAN, pc[t] # "working",
           Attempt(t, e)
    PROVE  IInv'
<1> USE DEF IInv
<1> /\ limits.base \in Nat \ {0} /\ limits.max \in Nat \ {0}
    /\ limits.base <= limits.max
  BY Numbers DEF TypeOK
<1> /\ Shrunk \in Nat \ {0}
    /\ limits.base <= Shrunk /\ Shrunk <= current
  BY ShrunkBounds
<1> UNCHANGED <<limits, changes>>
  BY DEF Attempt
<1>1. ASSUME Admit(t) PROVE /\ active' \in Nat /\ starts' \in Seq(Workers)
                            /\ pc' \in [Workers -> {"idle", "asleep", "woken", "working"}]
                            /\ late' \in [Workers -> BOOLEAN]
                            /\ active' = Cardinality(Working)'
  <2>1. Cardinality(In("working"))' = Cardinality(In("working")) + 1
    BY <1>1, MovesIn DEF Admit
  <2> QED
    BY <1>1, <2>1 DEF Admit, TypeOK, Accounting, Working
<1>2. CASE TakeSlot(t)
  BY <1>1, <1>2 DEF TakeSlot, TypeOK, Accounting
<1>3. CASE TakeBurstSlot(t)
  BY <1>1, <1>3 DEF TakeBurstSlot, TypeOK, Accounting
<1>4. ASSUME NEW q \in {"asleep", "idle"}, pc' = [pc EXCEPT ![t] = q]
      PROVE  Cardinality(In("working"))' = Cardinality(In("working"))
  <2>1. q # "working"
    OBVIOUS
  <2>2. Cardinality(In("working"))' = Cardinality(In("working")) - 0
    BY <1>4, <2>1, MovesElsewhere
  <2> QED
    BY <2>2, Sizes
<1>5. CASE Wait(t, e)
  BY <1>4, <1>5 DEF Wait, TypeOK, Accounting, Working
<1>6. CASE Reject(t, e)
  BY <1>4, <1>6 DEF Reject, TypeOK, Accounting, Working
<1> QED
  BY <1>2, <1>3, <1>5, <1>6 DEF Attempt

\* release keeps the accounts, whoever it wakes.
LEMMA ReleaseKeepsIInv ==
    ASSUME IInv, NEW t \in Workers, Release(t)
    PROVE  IInv'
<1> USE DEF IInv
<1> /\ limits.base \in Nat \ {0} /\ limits.max \in Nat \ {0}
    /\ limits.base <= limits.max
  BY Numbers DEF TypeOK
<1> DEFINE gone == [pc EXCEPT ![t] = "idle"]
<1>1. starts' \in Seq(Workers)
  BY DEF TypeOK, Release, DropStart
<1>2. pc[t] = "working" /\ t \in Working
  BY DEF Release, Working, In
<1>3. pc' \in [Workers -> {"idle", "asleep", "woken", "working"}]
  BY DEF TypeOK, Release, Notify, Asleep, In
<1>4. Working' = Working \ {t}
  BY <1>2 DEF TypeOK, Release, Notify, Working, Asleep, In
<1>5. Cardinality(Working)' = Cardinality(Working) - 1
  BY <1>2, <1>4, Sizes, FS_RemoveElement DEF Working
<1> QED
  BY <1>1, <1>3, <1>5 DEF TypeOK, Accounting, Release, ShrunkAfterRelease

\* Initially nobody works and the limit is the base.
LEMMA InitIInv == Init => IInv
<1> SUFFICES ASSUME Init PROVE IInv
  OBVIOUS
<1>1. Working = {}
  BY DEF Init, Working, In
<1> QED
  BY <1>1, FS_EmptySet, Numbers, ChangesAssumption DEF Init, IInv, TypeOK, Accounting

LEMMA NextIInv == IInv /\ [Next]_vars => IInv'
<1> SUFFICES ASSUME IInv, [Next]_vars PROVE IInv'
  OBVIOUS
<1> /\ limits.base \in Nat \ {0} /\ limits.max \in Nat \ {0}
    /\ limits.base <= limits.max
  BY Numbers DEF IInv, TypeOK
<1>1. ASSUME NEW t \in Workers, Acquire(t) PROVE IInv'
  BY <1>1, AttemptKeepsIInv DEF Acquire
<1>2. ASSUME NEW t \in Workers, Resume(t) PROVE IInv'
  BY <1>2, AttemptKeepsIInv DEF Resume, IInv, TypeOK
<1>3. ASSUME NEW t \in Workers, DeadlinePasses(t) PROVE IInv'
  BY <1>3 DEF DeadlinePasses, IInv, TypeOK, Accounting, Working, In
<1>4. ASSUME NEW t \in Workers, Release(t) PROVE IInv'
  BY <1>4, ReleaseKeepsIInv
<1>5. CASE Maintenance
  BY <1>5, ShrunkBounds DEF Maintenance, IInv, TypeOK, Accounting, Working, In
<1>6. CASE UpdateLimits
  <2>1. PICK s \in Settings : limits' = s /\ current' = Clamped(s)
    BY <1>6 DEF UpdateLimits
  <2>2. /\ s.base \in Nat \ {0} /\ s.max \in Nat \ {0}
        /\ s.base <= s.max
    BY Numbers
  <2>3. /\ current' \in Nat \ {0}
        /\ s.base <= current' /\ current' <= s.max
    BY <2>1, <2>2 DEF Clamped, IInv, TypeOK
  <2> QED
    BY <1>6, <2>1, <2>3, ChangesAssumption
    DEF UpdateLimits, IInv, TypeOK, Accounting, Working, In
<1>7. CASE ResetStatistics
  BY <1>7, ChangesAssumption
  DEF ResetStatistics, IInv, TypeOK, Accounting, Working, In
<1>8. CASE CooldownEnds
  BY <1>8 DEF CooldownEnds, IInv, TypeOK, Accounting, Working, In
<1>9. CASE UNCHANGED vars
  BY <1>9 DEF vars, IInv, TypeOK, Accounting, Working, In
<1> QED
  BY <1>1, <1>2, <1>3, <1>4, <1>5, <1>6, <1>7, <1>8, <1>9 DEF Next

\* The counter of active workers is the number of handlers at work, and the
\* current limit lies between base and burst limit, for all limits,
\* threads and changes of the settings.
THEOREM AccountsBalance == Spec => []Accounting
<1>1. IInv => Accounting
  BY DEF IInv
<1> QED
  BY <1>1, InitIInv, NextIInv, PTL DEF Spec

-----------------------------------------------------------------------------
\* acquire keeps the wake-ups and the bound on the requests that run.
LEMMA AttemptKeepsBurstInv ==
    ASSUME BurstInv, OneBurstLimit, NEW t \in Workers, NEW e \in BOOLEAN,
           pc[t] # "working", Attempt(t, e)
    PROVE  BurstInv' /\ (active' > active => active' <= limits.max)
<1> USE DEF BurstInv
<1> limits.max \in Nat
  BY Numbers DEF IInv, TypeOK
<1> active \in Nat /\ current \in Nat
  BY DEF IInv, TypeOK
<1>1. IInv'
  BY AttemptKeepsIInv
<1>2. /\ Shrunk \in Nat /\ active <= Shrunk
      /\ Shrunk <= limits.max /\ limits' = limits
  BY ShrunkBounds DEF IInv, Accounting, Attempt
<1>3. \A p : Cardinality(In(p)) \in Nat
  BY Sizes
<1>4. ASSUME Admit(t), active < Shrunk \/ Shrunk < limits.max
      PROVE  WorkConserving'
  <2>1. /\ Asleep' \subseteq Asleep
        /\ Cardinality(Woken)' >= Cardinality(Woken) - 1
    <3>0. TypeOK /\ "working" # "asleep" /\ "working" # "woken"
      BY DEF IInv
    <3>1. pc' = [pc EXCEPT ![t] = "working"]
      BY <1>4 DEF Admit
    <3>2. Cardinality(In("woken"))' >= Cardinality(In("woken")) - 1
      <4>1. Cardinality(In("woken"))' =
              Cardinality(In("woken")) - (IF pc[t] = "woken" THEN 1 ELSE 0)
        BY <3>0, <3>1, MovesElsewhere
      <4> QED
        BY <1>3, <4>1
    <3>3. In("asleep")' \subseteq In("asleep")
      BY <3>0, <3>1, MovesElsewhere
    <3> QED
      BY <3>2, <3>3 DEF Woken, Asleep
  <2>2. Cardinality(Woken)' \in Nat
    BY NextSizes DEF Woken
  <2> QED
    BY <1>2, <1>3, <1>4, <2>1, <2>2 DEF WorkConserving, Admit, Woken
<1>5. CASE TakeSlot(t)
  BY <1>1, <1>2, <1>4, <1>5 DEF TakeSlot, Full, Admit
<1>6. CASE TakeBurstSlot(t)
  BY <1>1, <1>2, <1>4, <1>6 DEF TakeBurstSlot, Full, Admit
<1>7. CASE Wait(t, e) \/ Reject(t, e)
  <2>1. /\ active' = active /\ active >= limits.max
        /\ current' = Shrunk
    BY <1>2, <1>7 DEF Wait, Reject, Full
  <2>2. Cardinality(Woken)' \in Nat
    BY NextSizes DEF Woken
  <2> QED
    BY <1>1, <1>2, <2>1, <2>2 DEF WorkConserving
<1> QED
  BY <1>5, <1>6, <1>7 DEF Attempt

\* release hands the slot to a waiting handler if there is one.
LEMMA ReleaseKeepsWorkConserving ==
    ASSUME BurstInv, NEW t \in Workers, Release(t)
    PROVE  WorkConserving'
<1> USE DEF BurstInv
<1> limits.max \in Nat /\ active \in Nat
  BY Numbers DEF IInv, TypeOK
<1>1. Cardinality(Woken) \in Nat /\ IsFiniteSet(Woken)
  BY Sizes DEF Woken
<1>2. pc[t] = "working"
  BY DEF Release
<1>3. CASE Asleep = {}
  BY <1>3 DEF Release, Notify, WorkConserving, Asleep, In, IInv, TypeOK
<1>4. CASE Asleep # {}
  <2>1. PICK w \in Asleep : pc' = [[pc EXCEPT ![t] = "idle"] EXCEPT ![w] = "woken"]
    BY <1>4 DEF Release, Notify
  <2>2. w \in Workers /\ pc[w] = "asleep" /\ w \notin Woken
    BY DEF Asleep, Woken, In
  <2>3. Woken' = Woken \cup {w}
    BY <1>2, <2>1, <2>2 DEF Woken, In, IInv, TypeOK
  <2>4. Cardinality(Woken)' = Cardinality(Woken) + 1
    BY <1>1, <2>2, <2>3, FS_AddElement
  <2> QED
    BY <1>1, <1>4, <2>4 DEF WorkConserving, Release
<1> QED
  BY <1>3, <1>4

LEMMA NextBurstInv ==
    ASSUME OneBurstLimit
    PROVE  BurstInv /\ [Next]_vars
             => BurstInv' /\ (active' > active => active' <= limits.max)
<1> SUFFICES ASSUME BurstInv, [Next]_vars
             PROVE  BurstInv' /\ (active' > active => active' <= limits.max)
  OBVIOUS
<1>0. IInv /\ IInv'
  BY NextIInv DEF BurstInv
<1> USE DEF BurstInv
<1>N. /\ limits.base \in Nat \ {0} /\ limits.max \in Nat \ {0}
      /\ limits.base <= limits.max
      /\ active \in Nat /\ current \in Nat
  BY Numbers DEF IInv, TypeOK
<1>1. ASSUME NEW t \in Workers, Acquire(t)
      PROVE BurstInv' /\ (active' > active => active' <= limits.max)
  BY <1>1, AttemptKeepsBurstInv DEF Acquire
<1>2. ASSUME NEW t \in Workers, Resume(t)
      PROVE BurstInv' /\ (active' > active => active' <= limits.max)
  BY <1>2, AttemptKeepsBurstInv DEF Resume, IInv, TypeOK
<1>3. ASSUME NEW t \in Workers, DeadlinePasses(t)
      PROVE BurstInv' /\ (active' > active => active' <= limits.max)
  BY <1>0, <1>3, <1>N DEF DeadlinePasses, WorkConserving, Asleep, Woken, In
<1>4. ASSUME NEW t \in Workers, Release(t)
      PROVE BurstInv' /\ (active' > active => active' <= limits.max)
  <2>1. WorkConserving'
    BY <1>4, ReleaseKeepsWorkConserving
  <2> QED
    BY <1>0, <1>4, <1>N, <2>1 DEF Release, ShrunkAfterRelease
<1>5. CASE Maintenance
  BY <1>0, <1>5, <1>N, ShrunkBounds
  DEF Maintenance, WorkConserving, Asleep, Woken, In
<1>6. CASE UpdateLimits
  <2>1. PICK s \in Settings : limits' = s /\ current' = Clamped(s)
    BY <1>6 DEF UpdateLimits
  <2>2. s.base \in Nat /\ s.max = limits.max /\ current <= s.max
    BY <2>1, Numbers DEF OneBurstLimit, IInv, TypeOK, Accounting
  <2>3. active' = active /\ active' <= current'
    BY <1>6, <1>N, <2>1, <2>2 DEF UpdateLimits, Clamped
  <2>4. WorkConserving'
    BY <1>6, <2>1, <2>2 DEF UpdateLimits, WorkConserving, Asleep, Woken, In
  <2> QED
    BY <1>0, <1>N, <2>3, <2>4
<1>7. CASE ResetStatistics
  BY <1>0, <1>7, <1>N DEF ResetStatistics, WorkConserving, Asleep, Woken, In
<1>8. CASE CooldownEnds
  BY <1>0, <1>8, <1>N DEF CooldownEnds, WorkConserving, Asleep, Woken, In
<1>9. CASE UNCHANGED vars
  BY <1>0, <1>9, <1>N DEF vars, WorkConserving, Asleep, Woken, In
<1> QED
  BY <1>1, <1>2, <1>3, <1>4, <1>5, <1>6, <1>7, <1>8, <1>9 DEF Next

LEMMA InitBurstInv == Init => BurstInv
<1> SUFFICES ASSUME Init PROVE BurstInv
  OBVIOUS
<1>1. Asleep = {}
  BY DEF Init, Asleep, In
<1> QED
  BY <1>1, InitIInv, Numbers DEF Init, BurstInv, WorkConserving

\* No wake-up is lost as long as the burst limit is not changed: while a
\* handler waits, the burst limit is used up or promised.
THEOREM NoLostWakeups ==
    ASSUME OneBurstLimit
    PROVE  Spec => []WorkConserving
<1>1. BurstInv /\ [Next]_vars => BurstInv'
  BY NextBurstInv
<1>2. BurstInv => WorkConserving
  BY DEF BurstInv
<1> QED
  BY <1>1, <1>2, InitBurstInv, PTL DEF Spec

\* No request is admitted beyond the burst limit as long as that limit is
\* not changed; with settings that change it TLC finds a counterexample.
THEOREM BurstLimitKept ==
    ASSUME OneBurstLimit
    PROVE  Spec => WithinBurstLimit
<1>1. BurstInv /\ [Next]_vars => BurstInv'
  BY NextBurstInv
<1>2. BurstInv /\ [Next]_vars
        => [active' > active => active' <= limits.max]_vars
  BY NextBurstInv
<1> QED
  BY <1>1, <1>2, InitBurstInv, PTL DEF Spec, WithinBurstLimit

-----------------------------------------------------------------------------
(* The updater *)

Busy(u) == place[u] \in {"zip", "copy", "restart"}

\* What an updater that copies has, and what it leaves behind.
CopyingIsNewer(u) ==
    /\ place[u] = "copy" =>
         /\ hash[u] <= zip[u] /\ 1 <= zip[u]
         /\ \A i \in Items : files[i] <= zip[u] /\ (i \notin left[u] => files[i] = zip[u])
    /\ place[u] = "restart" => \A i \in Items : files[i] >= 1
OneUpdates == \A u, v \in Updaters : Busy(u) /\ Busy(v) => u = v

\* A file is removed or as new as the program says, and so is what is being copied.
NewOrRemoved ==
    /\ \A i \in Items : files[i] = 0 \/ (files[i] >= saved /\ files[i] >= result)
    /\ \A u \in Updaters : place[u] = "copy" => zip[u] >= saved /\ zip[u] >= result

UpdateInv ==
    /\ UP!TypeOK
    /\ hash \in [Updaters -> Nat] /\ zip \in [Updaters -> Nat] /\ DOMAIN left = Updaters
    /\ overlap \in BOOLEAN /\ guessed \in BOOLEAN
    /\ \A u \in Updaters : Busy(u) => 1 <= hash[u]
    /\ saved <= remote /\ result <= remote /\ \A i \in Items : files[i] <= remote
    /\ ~overlap => OneUpdates /\ \A u \in Updaters : CopyingIsNewer(u)
    /\ ~overlap /\ ~guessed => NewOrRemoved

LEMMA UpdateIsHonest == UpdateInv => UP!UpdatesAreHonest
<1> SUFFICES ASSUME UpdateInv PROVE UP!UpdatesAreHonest
  OBVIOUS
<1>1. ~overlap /\ ~guessed =>
        \A i \in Items : files[i] # 0 => files[i] >= saved /\ files[i] >= result
  BY DEF UpdateInv, NewOrRemoved
<1>2. ~overlap /\ (\E u \in Updaters : place[u] = "restart") => \A i \in Items : files[i] # 0
  BY DEF UpdateInv, CopyingIsNewer
<1>3. QED
  BY <1>1, <1>2 DEF UpdateInv, UP!UpdatesAreHonest

LEMMA UpdateStarts ==
  ASSUME UP!Init
  PROVE  UpdateInv
<1>1. /\ remote = 1 /\ files = [i \in Items |-> 1] /\ saved \in {0, 1} /\ result = 0
      /\ place = [u \in Updaters |-> "idle"]
      /\ hash = [u \in Updaters |-> 0] /\ zip = [u \in Updaters |-> 0]
      /\ left = [u \in Updaters |-> {}]
      /\ guessed \in BOOLEAN /\ overlap \in BOOLEAN
  BY DEF UP!Init
<1>2. UP!TypeOK
  BY <1>1, UpdaterAssumption DEF UP!TypeOK
<1>3. \A u \in Updaters : ~Busy(u) /\ CopyingIsNewer(u)
  BY <1>1 DEF CopyingIsNewer, Busy
<1>4. NewOrRemoved
  BY <1>1 DEF NewOrRemoved
<1>5. QED
  BY <1>1, <1>2, <1>3, <1>4 DEF UpdateInv, OneUpdates

LEMMA UpdateKeeps ==
  ASSUME UpdateInv, [UP!Next]_updateVars
  PROVE  UpdateInv'
<1> USE UpdaterAssumption DEF UpdateInv, UP!TypeOK
<1>1. ASSUME UP!Push PROVE UpdateInv'
  BY <1>1 DEF UP!Push, UP!local, OneUpdates, CopyingIsNewer, NewOrRemoved, Busy
<1>2. ASSUME UP!NewProcess PROVE UpdateInv'
  <2>1. \A u \in Updaters : place'[u] = "idle"
    BY <1>2 DEF UP!NewProcess
  <2>2. (OneUpdates /\ \A u \in Updaters : ~Busy(u) /\ CopyingIsNewer(u))'
    BY <2>1 DEF OneUpdates, CopyingIsNewer, Busy
  <2>3. UP!TypeOK'
    BY <1>2 DEF UP!NewProcess
  <2>4. ~overlap /\ ~guessed => NewOrRemoved'
    BY <1>2 DEF UP!NewProcess, NewOrRemoved
  <2>5. QED
    BY <1>2, <2>2, <2>3, <2>4 DEF UP!NewProcess
<1>3. ASSUME NEW u \in Updaters, UP!FetchForCheck(u) PROVE UpdateInv'
  <2>1. \A v \in Updaters : Busy(v)' <=> Busy(v)
    BY <1>3 DEF UP!FetchForCheck, UP!Goto, Busy
  <2>2. \A v \in Updaters : Busy(v) => v # u
    BY <1>3 DEF UP!FetchForCheck, Busy
  <2>3. QED
    BY <1>3, <2>1, <2>2 DEF UP!FetchForCheck, UP!Goto, OneUpdates, CopyingIsNewer, NewOrRemoved
<1>4. ASSUME NEW u \in Updaters, UP!Decide(u) PROVE UpdateInv'
  <2>1. \A v \in Updaters : Busy(v)' <=> Busy(v)
    BY <1>4 DEF UP!Decide, UP!Goto, Busy
  <2>2. UP!TypeOK'
    BY <1>4 DEF UP!Decide, UP!Goto
  <2>3. ~guessed' => ~guessed /\ saved' = saved /\ (result' = saved \/ result' = 0)
    BY <1>4 DEF UP!Decide
  <2>4. ~overlap' /\ ~guessed' => NewOrRemoved'
    BY <1>4, <2>3 DEF UP!Decide, UP!Goto, NewOrRemoved
  <2>5. ~overlap' => OneUpdates' /\ \A v \in Updaters : CopyingIsNewer(v)'
    BY <1>4, <2>1 DEF UP!Decide, UP!Goto, OneUpdates, CopyingIsNewer
  <2>6. guessed' \in BOOLEAN
    BY <1>4 DEF UP!Decide
  <2>7. QED
    BY <1>4, <2>1, <2>2, <2>4, <2>5, <2>6 DEF UP!Decide
<1>5. ASSUME NEW u \in Updaters, UP!Begin(u) PROVE UpdateInv'
  <2>1. \A v \in Updaters : Busy(v)' <=> (Busy(v) \/ v = u)
    BY <1>5 DEF UP!Begin, UP!Goto, Busy
  <2>2. overlap' = (overlap \/ \E o \in Updaters : Busy(o))
    BY <1>5 DEF UP!Begin, UP!Updating, Busy
  <2>3. UP!TypeOK'
    BY <1>5 DEF UP!Begin, UP!Goto
  <2>4. ~overlap' => OneUpdates' /\ \A v \in Updaters : CopyingIsNewer(v)'
    BY <1>5, <2>1, <2>2 DEF UP!Begin, UP!Goto, OneUpdates, CopyingIsNewer
  <2>5. ~overlap' /\ ~guessed' => NewOrRemoved'
    BY <1>5, <2>2 DEF UP!Begin, UP!Goto, NewOrRemoved
  <2>6. \A v \in Updaters : Busy(v)' => 1 <= hash'[v]
    BY <1>5, <2>1 DEF UP!Begin
  <2>7. overlap' \in BOOLEAN
    BY <2>2
  <2>8. hash' \in [Updaters -> Nat] /\ zip' = zip /\ left' = left /\ guessed' = guessed
        /\ files' = files /\ remote' = remote /\ saved' = saved /\ result' = result
    BY <1>5 DEF UP!Begin
  <2>9. QED
    BY <2>3, <2>4, <2>5, <2>6, <2>7, <2>8
<1>6. ASSUME NEW u \in Updaters, UP!Download(u) PROVE UpdateInv'
  <2>1. \A v \in Updaters : Busy(v)' <=> Busy(v)
    BY <1>6 DEF UP!Download, UP!Goto, Busy
  <2>2. QED
    BY <1>6, <2>1 DEF UP!Download, UP!Goto, OneUpdates, CopyingIsNewer, NewOrRemoved
<1>7. ASSUME NEW u \in Updaters, UP!Clear(u) PROVE UpdateInv'
  <2>1. \A v \in Updaters : Busy(v)' <=> Busy(v)
    BY <1>7 DEF UP!Clear, UP!local, Busy
  <2>2. QED
    BY <1>7, <2>1 DEF UP!Clear, UP!local, OneUpdates, CopyingIsNewer, NewOrRemoved, Busy
<1>8. ASSUME NEW u \in Updaters, UP!Copy(u) PROVE UpdateInv'
  <2>1. \A v \in Updaters : Busy(v)' <=> Busy(v)
    BY <1>8 DEF UP!Copy, Busy
  <2>2. PICK i \in left[u] : /\ files' = [files EXCEPT ![i] = zip[u]]
                             /\ left' = [left EXCEPT ![u] = @ \ {i}]
    BY <1>8 DEF UP!Copy
  <2>3. i \in Items /\ zip[u] \in 0..MaxVersion /\ place[u] = "copy"
        /\ UNCHANGED <<remote, saved, result, place, hash, zip, guessed, overlap>>
    BY <1>8, <2>2 DEF UP!Copy
  <2>4. UP!TypeOK' /\ DOMAIN left' = Updaters /\ \A j \in Items : files'[j] <= remote'
    BY <2>2, <2>3
  <2>5. ASSUME ~overlap' PROVE OneUpdates' /\ \A v \in Updaters : CopyingIsNewer(v)'
    <3>1. OneUpdates' /\ \A v \in Updaters : Busy(v) => v = u
      BY <2>1, <2>3, <2>5 DEF OneUpdates, Busy
    <3>2. CopyingIsNewer(u)'
      BY <2>2, <2>3, <2>5 DEF CopyingIsNewer
    <3>3. ASSUME NEW v \in Updaters, v # u PROVE CopyingIsNewer(v)'
      BY <2>3, <3>1, <3>3 DEF CopyingIsNewer, Busy
    <3>4. QED
      BY <3>1, <3>2, <3>3
  <2>6. ASSUME ~overlap', ~guessed' PROVE NewOrRemoved'
    BY <2>2, <2>3, <2>6 DEF NewOrRemoved, CopyingIsNewer
  <2>7. QED
    BY <2>1, <2>3, <2>4, <2>5, <2>6
<1>9. ASSUME NEW u \in Updaters, UP!Save(u) PROVE UpdateInv'
  <2>1. \A v \in Updaters : Busy(v)' <=> Busy(v)
    BY <1>9 DEF UP!Save, UP!Goto, Busy
  <2>2. QED
    BY <1>9, <2>1 DEF UP!Save, UP!Goto, OneUpdates, CopyingIsNewer, NewOrRemoved, Busy
<1>10. ASSUME NEW u \in Updaters, UP!Fail(u) PROVE UpdateInv'
  <2>1. \A v \in Updaters : Busy(v)' <=> (Busy(v) /\ v # u)
    BY <1>10 DEF UP!Fail, UP!Goto, UP!Updating, Busy
  <2>2. QED
    BY <1>10, <2>1 DEF UP!Fail, UP!Goto, UP!Updating, OneUpdates, CopyingIsNewer, NewOrRemoved
<1>11. ASSUME UNCHANGED updateVars PROVE UpdateInv'
  BY <1>11 DEF updateVars, OneUpdates, CopyingIsNewer, NewOrRemoved, Busy
<1>12. QED
  BY <1>1, <1>2, <1>3, <1>4, <1>5, <1>6, <1>7, <1>8, <1>9, <1>10, <1>11
  DEF UP!Next, UP!Crash, UP!Restart

-----------------------------------------------------------------------------
LEMMA LeastExists ==
  ASSUME NEW S, S \subseteq Nat, S # {}
  PROVE  \E m \in S : \A k \in S : m <= k
<1> DEFINE R == {ss \in Nat \X Nat : ss[1] < ss[2]}
<1>1. IsWellFoundedOn(R, Nat)
  BY NatLessThanWellFounded, Zenon DEF OpToRel
<1>2. \A k, m \in Nat : k < m => <<k, m>> \in R
  OBVIOUS
<1> HIDE DEF R
<1>3. PICK m \in S : \A k \in S : ~(<<k, m>> \in R)
  BY <1>1, WFMin
<1>4. \A k \in S : ~(k < m)
  BY <1>2, <1>3
<1>5. QED
  BY <1>4

-----------------------------------------------------------------------------
(* The DNS servers *)

\* At most one port is open, and it is the one that is listed.
OnePort == ports = dns /\ (dns = {} \/ \E p \in Ports : dns = {p})
\* The encrypted servers that run are those that are listed, were late, or are on their
\* way to stop.
EncryptedListed ==
    /\ enc \subseteq kinds /\ kinds \subseteq enc \cup stray \cup closing
    /\ closing \subseteq kinds /\ enc \cap closing = {}
NoneListed == dns = {} /\ enc = {}

\* How far main has come, while nobody else works.
MainIsAt ==
    /\ main # "ready" => job = "none"
    /\ main = "start" => NoneListed
    /\ main = "bound" => dns # {} /\ enc = {}
    /\ main = "encrypted" => dns # {}

\* How far a job has come.
JobIsAt ==
    /\ job = "none" <=> step = "none"
    /\ step = "closeEncrypted" => dns = {}
    /\ step \in {"load", "bind"} => NoneListed /\ job \in {"restart", "start"}
    /\ step = "encrypted" => dns # {} /\ enc = {} /\ job \in {"restart", "start"}
    /\ step = "done" => IF job = "stop" THEN NoneListed ELSE dns # {}
    /\ step = "close" /\ enc # {} => dns # {}
    /\ step \in {"close", "closeEncrypted"} => job \in {"restart", "stop"}

\* What the page says, and will say when the job that runs has failed.
PageIsTrue ==
    /\ job = "restart" => message = "reboot"
    /\ job = "start" => /\ message # "ready" /\ (~ready => timers > 0 \/ failed)
                        /\ step \in {"load", "bind"} \/ dns # {}

ServersSteady ==
    OnePort /\ EncryptedListed /\ MainIsAt /\ JobIsAt /\ PageIsTrue
      /\ SV!StatusIsTrue /\ (SV!Calm /\ enc # {} => dns # {})

ServersInv ==
    /\ SV!TypeOK /\ lateQuic \subseteq Enabled
    /\ requests \in Nat /\ timers + requests <= MaxRequests
    /\ together \in BOOLEAN /\ failed \in BOOLEAN
    /\ SV!Up /\ ~together => ServersSteady

LEMMA ServersAreListed == ServersInv => SV!ServersAreKept
<1> SUFFICES ASSUME ServersInv, SV!Up, ~together PROVE SV!ListedAreOpen /\ SV!StatusIsTrue
  BY DEF ServersInv, SV!ServersAreKept
<1>1. ServersSteady
  BY DEF ServersInv
<1>2. SV!Cardinality(ports) <= 1
  <2>1. ports = {} \/ \E p \in Ports : ports = {p}
    BY <1>1 DEF ServersSteady, OnePort
  <2>3. ASSUME NEW p, ports = {p} PROVE Cardinality(ports) = 1
    BY <2>3, FS_Singleton
  <2>4. ports = {} => Cardinality(ports) = 0
    BY FS_EmptySet
  <2>5. Cardinality(ports) <= 1
    BY <2>1, <2>3, <2>4
  <2>2. \A S : SV!Cardinality(S) = Cardinality(S)
    BY DEF SV!Cardinality, Cardinality
  <2>6. QED
    BY <2>2, <2>5
<1>3. QED
  BY <1>1, <1>2 DEF ServersSteady, OnePort, EncryptedListed, SV!ListedAreOpen, SV!Calm

LEMMA ServersStart ==
  ASSUME SV!Init
  PROVE  ServersInv
<1>1. SV!TypeOK
  <2>1. timers \in 0..MaxRequests /\ dnsPort \in Ports
    BY ServersAssumption DEF SV!Init
  <2>2. ready \in BOOLEAN
    BY DEF SV!Init
  <2>3. QED
    BY <2>1, <2>2 DEF SV!Init, SV!TypeOK
<1>2. ServersSteady
  BY DEF SV!Init, ServersSteady, OnePort, EncryptedListed, NoneListed, MainIsAt, JobIsAt, PageIsTrue,
     SV!StatusIsTrue, SV!Calm
<1>3. requests \in Nat /\ timers + requests <= MaxRequests
  BY ServersAssumption DEF SV!Init
<1>4. together \in BOOLEAN /\ failed \in BOOLEAN
  BY DEF SV!Init
<1>5. QED
  BY <1>1, <1>2, <1>3, <1>4 DEF SV!Init, ServersInv

\* Starting a server listens on one port and lists it beside those of before.
LEMMA BindIs ==
  ASSUME ServersInv, NEW before, SV!Bind(before)
  PROVE  \/ UNCHANGED <<dns, ports, dnsPort>> /\ ~SV!Bound
         \/ \E p \in Ports \ ports : /\ dns' = before \cup {p} /\ ports' = ports \cup {p}
                                     /\ dnsPort' = p /\ SV!Bound
<1>1. PICK taken \in {{}, {dnsPort}} :
        IF SV!Tried(taken) = {} THEN UNCHANGED <<dns, ports, dnsPort>>
        ELSE LET p == CHOOSE q \in SV!Tried(taken) : \A r \in SV!Tried(taken) : q <= r
             IN dns' = before \cup {p} /\ ports' = ports \cup {p} /\ dnsPort' = p
  BY DEF SV!Bind
<1>2. SV!Tried(taken) \subseteq Ports \ ports
  BY DEF SV!Tried
<1>3. CASE SV!Tried(taken) = {}
  BY <1>1, <1>3 DEF SV!Bound
<1>4. CASE SV!Tried(taken) # {}
  <2> DEFINE p == CHOOSE q \in SV!Tried(taken) : \A r \in SV!Tried(taken) : q <= r
  <2>1. p \in SV!Tried(taken)
    BY <1>2, <1>4, ServersAssumption, LeastExists
  <2> HIDE DEF p
  <2>2. p \in Ports \ ports /\ dns' = before \cup {p} /\ ports' = ports \cup {p} /\ dnsPort' = p
    BY <1>1, <1>2, <1>4, <2>1 DEF p
  <2>3. QED
    BY <2>2 DEF SV!Bound
<1>5. QED
  BY <1>3, <1>4

\* Starting the encrypted servers lists what it starts.
LEMMA EncryptIs ==
  ASSUME ServersInv, NEW listed, listed \subseteq enc, SV!StartEncrypted(listed)
  PROVE  /\ enc' \subseteq Enabled /\ kinds' \subseteq Enabled
         /\ lateQuic' \subseteq Enabled /\ lateQuic' \subseteq {"quic"}
         /\ enc \subseteq kinds => enc' \subseteq kinds'
         /\ closing \subseteq kinds => closing \subseteq kinds'
         /\ closing \subseteq kinds /\ enc \cap closing = {} => enc' \cap closing = {}
         /\ kinds \subseteq listed \cup stray \cup closing =>
                kinds' \subseteq enc' \cup stray \cup closing
  BY DEF SV!StartEncrypted, ServersInv, SV!TypeOK

LEMMA ServersKeep ==
  ASSUME ServersInv, [SV!Next]_serverVars
  PROVE  ServersInv'
<1> USE ServersAssumption DEF ServersInv, SV!TypeOK
<1>1. ASSUME SV!MainBinds PROVE ServersInv'
  <2>1. /\ main = "start" /\ main' = IF SV!Bound THEN "bound" ELSE "gone"
        /\ UNCHANGED <<enc, kinds, job, step, timers, ready, message, lateQuic, stray, closing, together, failed, requests>>
        /\ SV!Bind({})
    BY <1>1 DEF SV!MainBinds, SV!status
  <2>6. \/ UNCHANGED <<dns, ports, dnsPort>> /\ ~SV!Bound
        \/ \E p \in Ports \ ports : /\ dns' = {p} /\ ports' = ports \cup {p}
                                     /\ dnsPort' = p /\ SV!Bound
    BY <2>1, BindIs
  <2>2. SV!TypeOK' /\ lateQuic' \subseteq Enabled
    BY <2>1, <2>6
  <2>3. /\ requests' \in Nat /\ timers' + requests' <= MaxRequests
        /\ together' \in BOOLEAN /\ failed' \in BOOLEAN
    BY <2>1
  <2>4. SV!Up' /\ ~together' => ServersSteady'
    BY <2>1, <2>6 DEF ServersSteady, OnePort, EncryptedListed, NoneListed,
       MainIsAt, JobIsAt, PageIsTrue, SV!StatusIsTrue, SV!Calm, SV!Up
  <2>5. QED
    BY <2>2, <2>3, <2>4
<1>2. ASSUME SV!MainEncrypts PROVE ServersInv'
  <2>1. /\ main = "bound" /\ main' = "encrypted" /\ SV!StartEncrypted({})
        /\ UNCHANGED <<dns, ports, dnsPort, job, step, timers, ready, message, stray, closing, together, failed, requests>>
    BY <1>2 DEF SV!MainEncrypts, SV!status
  <2>2. QED
    BY <2>1, EncryptIs DEF ServersSteady, OnePort, EncryptedListed, NoneListed, MainIsAt, JobIsAt,
       PageIsTrue, SV!StatusIsTrue, SV!Calm, SV!Up
<1>3. ASSUME SV!MainReady PROVE ServersInv'
  BY <1>3 DEF SV!MainReady, SV!Show, SV!servers, ServersSteady, OnePort, EncryptedListed, NoneListed,
     MainIsAt, JobIsAt, PageIsTrue, SV!StatusIsTrue, SV!Calm, SV!Up
<1>4. ASSUME SV!Shutdown PROVE ServersInv'
  BY <1>4 DEF SV!Shutdown, SV!servers, SV!status, SV!Up
<1>5. ASSUME SV!BindLate PROVE ServersInv'
  BY <1>5 DEF SV!BindLate, SV!status, ServersSteady, OnePort, EncryptedListed, NoneListed, MainIsAt,
     JobIsAt, PageIsTrue, SV!StatusIsTrue, SV!Calm, SV!Up
<1>6. ASSUME SV!ScheduleRestart PROVE ServersInv'
  BY <1>6 DEF SV!ScheduleRestart, SV!Request, SV!servers, SV!status, ServersSteady, OnePort,
     EncryptedListed, NoneListed, MainIsAt, JobIsAt, PageIsTrue, SV!StatusIsTrue, SV!Calm, SV!Up
<1>7. ASSUME SV!SaveSettings PROVE ServersInv'
  <2>1. /\ requests > 0 /\ requests' = requests - 1 /\ timers' = timers + 1
        /\ dnsPort' = 1 /\ message' = "reboot" /\ ready' = FALSE
        /\ UNCHANGED <<dns, enc, ports, kinds, lateQuic, stray, closing, main, job, step, together, failed>>
    BY <1>7 DEF SV!SaveSettings, SV!Request, SV!Show, SV!servers
  <2>2. SV!TypeOK' /\ lateQuic' \subseteq Enabled
    <3>1. timers' \in 0..MaxRequests
      BY <2>1
    <3>2. ready' \in BOOLEAN
      BY <2>1
    <3>3. QED
      BY <2>1, <3>1, <3>2
  <2>3. /\ requests' \in Nat /\ timers' + requests' <= MaxRequests
        /\ together' \in BOOLEAN /\ failed' \in BOOLEAN
    BY <2>1
  <2>4. SV!Up' /\ ~together' => ServersSteady'
    BY <2>1 DEF ServersSteady, OnePort, EncryptedListed, NoneListed,
       MainIsAt, JobIsAt, PageIsTrue, SV!StatusIsTrue, SV!Calm, SV!Up
  <2>5. QED
    BY <2>2, <2>3, <2>4
<1>8. ASSUME SV!RestartBegins PROVE ServersInv'
  <2>1. /\ timers > 0 /\ timers' = timers - 1
        /\ SV!Up /\ job = "none" /\ job' = "restart" /\ step' = "close"
        /\ together' = (together \/ main # "ready")
        /\ message' = "reboot" /\ ready' = FALSE
        /\ UNCHANGED <<dns, enc, ports, kinds, lateQuic, stray, closing, dnsPort, main, failed>>
        /\ UNCHANGED requests
    BY <1>8 DEF SV!RestartBegins, SV!Begin, SV!Show, SV!servers
  <2>2. SV!TypeOK' /\ lateQuic' \subseteq Enabled
    <3>1. timers' \in 0..MaxRequests
      BY <2>1
    <3>2. ready' \in BOOLEAN
      BY <2>1
    <3>3. QED
      BY <2>1, <3>1, <3>2
  <2>3. /\ requests' \in Nat /\ timers' + requests' <= MaxRequests
        /\ together' \in BOOLEAN /\ failed' \in BOOLEAN
    BY <2>1
  <2>4. SV!Up' /\ ~together' => ServersSteady'
    BY <2>1 DEF ServersSteady, OnePort, EncryptedListed, NoneListed,
       MainIsAt, JobIsAt, PageIsTrue, SV!StatusIsTrue, SV!Calm, SV!Up
  <2>5. QED
    BY <2>2, <2>3, <2>4
<1>9. ASSUME SV!ConsoleRestart PROVE ServersInv'
  <2>1. /\ requests > 0 /\ requests' = requests - 1
        /\ SV!Up /\ job = "none" /\ job' = "restart" /\ step' = "close"
        /\ together' = (together \/ main # "ready")
        /\ message' = "reboot" /\ ready' = FALSE
        /\ UNCHANGED <<dns, enc, ports, kinds, lateQuic, stray, closing, dnsPort, main, failed>>
        /\ UNCHANGED timers
    BY <1>9 DEF SV!ConsoleRestart, SV!Request, SV!Begin, SV!Show, SV!servers
  <2>2. SV!TypeOK' /\ lateQuic' \subseteq Enabled
    BY <2>1
  <2>3. /\ requests' \in Nat /\ timers' + requests' <= MaxRequests
        /\ together' \in BOOLEAN /\ failed' \in BOOLEAN
    BY <2>1
  <2>4. SV!Up' /\ ~together' => ServersSteady'
    BY <2>1 DEF ServersSteady, OnePort, EncryptedListed, NoneListed,
       MainIsAt, JobIsAt, PageIsTrue, SV!StatusIsTrue, SV!Calm, SV!Up
  <2>5. QED
    BY <2>2, <2>3, <2>4
<1>10. ASSUME SV!StopBegins PROVE ServersInv'
  <2>1. /\ requests > 0 /\ requests' = requests - 1
        /\ SV!Up /\ job = "none" /\ job' = "stop" /\ step' = "close"
        /\ together' = (together \/ main # "ready")
        /\ UNCHANGED <<dns, enc, ports, kinds, lateQuic, stray, closing, dnsPort, main, failed>>
        /\ UNCHANGED <<timers, ready, message>>
    BY <1>10 DEF SV!StopBegins, SV!Request, SV!Begin, SV!status, SV!servers
  <2>2. SV!TypeOK' /\ lateQuic' \subseteq Enabled
    BY <2>1
  <2>3. /\ requests' \in Nat /\ timers' + requests' <= MaxRequests
        /\ together' \in BOOLEAN /\ failed' \in BOOLEAN
    BY <2>1
  <2>4. SV!Up' /\ ~together' => ServersSteady'
    BY <2>1 DEF ServersSteady, OnePort, EncryptedListed, NoneListed,
       MainIsAt, JobIsAt, PageIsTrue, SV!StatusIsTrue, SV!Calm, SV!Up
  <2>5. QED
    BY <2>2, <2>3, <2>4
<1>11. ASSUME SV!StartBegins PROVE ServersInv'
  <2>1. /\ dns = {} /\ requests > 0 /\ requests' = requests - 1
        /\ SV!Up /\ job = "none" /\ job' = "start" /\ step' = "load"
        /\ together' = (together \/ main # "ready")
        /\ UNCHANGED <<dns, enc, ports, kinds, lateQuic, stray, closing, dnsPort, main, failed>>
        /\ UNCHANGED <<timers, ready, message>>
    BY <1>11 DEF SV!StartBegins, SV!Request, SV!Begin, SV!status, SV!servers
  <2>2. SV!TypeOK' /\ lateQuic' \subseteq Enabled
    BY <2>1
  <2>3. /\ requests' \in Nat /\ timers' + requests' <= MaxRequests
        /\ together' \in BOOLEAN /\ failed' \in BOOLEAN
    BY <2>1
  <2>4. SV!Up' /\ ~together' => ServersSteady'
    BY <2>1 DEF ServersSteady, OnePort, EncryptedListed, NoneListed,
       MainIsAt, JobIsAt, PageIsTrue, SV!StatusIsTrue, SV!Calm, SV!Up
  <2>5. QED
    BY <2>2, <2>3, <2>4
<1>12. ASSUME SV!Close PROVE ServersInv'
  BY <1>12 DEF SV!Close, SV!Frame, SV!status, ServersSteady, OnePort, EncryptedListed, NoneListed,
     MainIsAt, JobIsAt, PageIsTrue, SV!StatusIsTrue, SV!Calm, SV!Up
<1>20. ASSUME SV!QuicCloses PROVE ServersInv'
  BY <1>20 DEF SV!QuicCloses, SV!status, ServersSteady, OnePort, EncryptedListed, NoneListed,
     MainIsAt, JobIsAt, PageIsTrue, SV!StatusIsTrue, SV!Calm, SV!Up
<1>13. ASSUME SV!CloseEncrypted PROVE ServersInv'
  BY <1>13 DEF SV!CloseEncrypted, SV!AfterClose, SV!Frame, SV!status, ServersSteady, OnePort,
     EncryptedListed, NoneListed, MainIsAt, JobIsAt, PageIsTrue, SV!StatusIsTrue, SV!Calm, SV!Up
<1>14. ASSUME SV!Load PROVE ServersInv'
  BY <1>14 DEF SV!Load, SV!Frame, SV!status, ServersSteady, OnePort, EncryptedListed, NoneListed,
     MainIsAt, JobIsAt, PageIsTrue, SV!StatusIsTrue, SV!Calm, SV!Up
<1>15. ASSUME SV!JobBinds PROVE ServersInv'
  <2>1. /\ step = "bind" /\ SV!Bind(IF job = "start" THEN dns ELSE {})
        /\ IF SV!Bound THEN step' = "encrypted" /\ UNCHANGED <<job, failed>>
           ELSE job' = "none" /\ step' = "none" /\ failed' = (failed \/ job = "restart")
        /\ UNCHANGED <<main, timers, stray, closing, together, requests, enc, kinds, lateQuic, ready, message>>
        /\ SV!Up
    BY <1>15 DEF SV!JobBinds, SV!End, SV!Frame, SV!status
  <2> DEFINE before == IF job = "start" THEN dns ELSE {}
  <2>6. \/ UNCHANGED <<dns, ports, dnsPort>> /\ ~SV!Bound
        \/ \E p \in Ports \ ports : /\ dns' = before \cup {p} /\ ports' = ports \cup {p}
                                     /\ dnsPort' = p /\ SV!Bound
    BY <2>1, BindIs
  <2>2. SV!TypeOK' /\ lateQuic' \subseteq Enabled
    BY <2>1, <2>6
  <2>3. /\ requests' \in Nat /\ timers' + requests' <= MaxRequests
        /\ together' \in BOOLEAN /\ failed' \in BOOLEAN
    BY <2>1
  <2>4. SV!Up' /\ ~together' => ServersSteady'
    BY <2>1, <2>6 DEF ServersSteady, OnePort, EncryptedListed, NoneListed,
       MainIsAt, JobIsAt, PageIsTrue, SV!StatusIsTrue, SV!Calm, SV!Up
  <2>5. QED
    BY <2>2, <2>3, <2>4
<1>16. ASSUME SV!JobEncrypts PROVE ServersInv'
  <2>1. /\ step = "encrypted" /\ step' = "done"
        /\ SV!StartEncrypted(IF job = "start" THEN enc ELSE {})
        /\ UNCHANGED <<main, timers, stray, closing, together, requests, dns, ports, dnsPort, job, ready, message, failed>>
        /\ SV!Up
    BY <1>16 DEF SV!JobEncrypts, SV!Frame, SV!status
  <2>2. QED
    BY <2>1, EncryptIs DEF ServersSteady, OnePort, EncryptedListed, NoneListed, MainIsAt, JobIsAt,
       PageIsTrue, SV!StatusIsTrue, SV!Calm, SV!Up
<1>17. ASSUME SV!Done PROVE ServersInv'
  BY <1>17 DEF SV!Done, SV!End, SV!Show, SV!Frame, ServersSteady, OnePort, EncryptedListed,
     NoneListed, MainIsAt, JobIsAt, PageIsTrue, SV!StatusIsTrue, SV!Calm, SV!Up
<1>18. ASSUME UNCHANGED serverVars PROVE ServersInv'
  BY <1>18 DEF serverVars, ServersSteady, OnePort, EncryptedListed, NoneListed, MainIsAt, JobIsAt,
     PageIsTrue, SV!StatusIsTrue, SV!Calm, SV!Up
<1>19. QED
  BY <1>1, <1>2, <1>3, <1>4, <1>5, <1>6, <1>7, <1>8, <1>9, <1>10, <1>11, <1>12, <1>13, <1>14,
     <1>15, <1>16, <1>17, <1>18, <1>20 DEF SV!Next

-----------------------------------------------------------------------------
(* The listeners *)

Stages == {"none", "reading", "asking", "admitted", "started", "handling", "handled", "ended"}
WithSlot == {"admitted", "started", "handling", "handled", "ended"}
Tracked == {"started", "handling", "handled"}
InStage(stages) == {t \in LI!Threads : at[t] \in stages}
Semaphore == [limit : Nat, free : Nat]
Holders(k) == {t \in Connections : holds[t] = k}

ListenersTyped ==
    /\ semaphores \in Seq(Semaphore) /\ server \in DOMAIN semaphores
    /\ accepting \in 0..Len(semaphores)
    /\ holds \in [LI!Threads -> 0..Len(semaphores)] /\ at \in [LI!Threads -> Stages]

\* Every permit is where the model says, and a connection has one while it lives.
PermitsKept ==
    /\ \A t \in Connections : at[t] = "none" <=> holds[t] = 0
    /\ \A k \in DOMAIN semaphores :
        semaphores[k].limit - semaphores[k].free =
          Cardinality(Holders(k)) + (IF accepting = k THEN 1 ELSE 0)

\* What a thread holds follows from what it does.
WorkersKept ==
    /\ slots = Cardinality(InStage(WithSlot)) /\ slots <= MaxActive
    /\ DOMAIN number = InStage(Tracked) /\ number = [t \in InStage(Tracked) |-> number[t]]
    /\ open = InStage({"handling"})

Injective == \A t, u \in DOMAIN number : number[t] = number[u] => t = u
\* No number is above the most workers that were ever tracked together, and no two are
\* the same.
NumbersKept ==
    /\ peak \in Nat /\ intervalPeak \in Nat /\ intervalPeak <= peak
    /\ Cardinality(DOMAIN number) <= intervalPeak
    /\ \A t \in DOMAIN number : number[t] \in 1..peak
    /\ Injective

TimelineKept ==
    /\ total \in Nat /\ completed \in Nat /\ reported \in Nat /\ reported <= completed
    /\ total = completed + Cardinality(DOMAIN number)
    /\ timeline \in Seq([active : Nat, peak : Nat, completed : Nat])
    /\ LI!CompletedIs(reported)
    /\ \A i \in DOMAIN timeline :
        /\ timeline[i].peak >= timeline[i].active
        /\ i > 1 => timeline[i].peak >= timeline[i - 1].active
        /\ peak >= timeline[i].peak
    /\ timeline # <<>> => intervalPeak >= timeline[Len(timeline)].active

ListenersInv == ListenersTyped /\ PermitsKept /\ WorkersKept /\ NumbersKept /\ TimelineKept

\* The operators of the two instances count and choose alike.
LEMMA Counts == \A S : LI!Cardinality(S) = Cardinality(S)
  BY DEF LI!Cardinality, Cardinality

LEMMA ThreadsFinite == IsFiniteSet(LI!Threads) /\ \A S \in SUBSET LI!Threads :
                         IsFiniteSet(S) /\ Cardinality(S) \in Nat
<1>1. IsFiniteSet(LI!Threads)
  BY ListenersAssumption, FS_Union DEF LI!Threads
<1>2. QED
  BY <1>1, FS_Subset, FS_CardinalityType

LEMMA InStageIs ==
  ASSUME NEW stages
  PROVE  IsFiniteSet(InStage(stages)) /\ Cardinality(InStage(stages)) \in Nat
<1>1. InStage(stages) \in SUBSET LI!Threads
  BY DEF InStage
<1>2. QED
  BY <1>1, ThreadsFinite

\* A step of a thread takes it into a set of stages, out of it, or neither.
LEMMA GoesIs ==
  ASSUME ListenersTyped, NEW t \in LI!Threads, NEW from, NEW to, LI!Goes(t, from, to), NEW stages
  PROVE  /\ at[t] = from /\ at' = [at EXCEPT ![t] = to]
         /\ t \in InStage(stages) <=> from \in stages
         /\ InStage(stages)' = IF to \in stages THEN InStage(stages) \cup {t} ELSE InStage(stages) \ {t}
         /\ Cardinality(InStage(stages)') = Cardinality(InStage(stages))
                + (IF to \in stages THEN 1 ELSE 0) - (IF from \in stages THEN 1 ELSE 0)
<1>1. at[t] = from /\ at' = [at EXCEPT ![t] = to] /\ at \in [LI!Threads -> Stages]
  BY DEF LI!Goes, ListenersTyped
<1>2. t \in InStage(stages) <=> from \in stages
  BY <1>1 DEF InStage
<1>3. InStage(stages)' = IF to \in stages THEN InStage(stages) \cup {t} ELSE InStage(stages) \ {t}
  BY <1>1 DEF InStage
<1>4. /\ Cardinality(InStage(stages) \cup {t}) =
           IF t \in InStage(stages) THEN Cardinality(InStage(stages)) ELSE Cardinality(InStage(stages)) + 1
      /\ Cardinality(InStage(stages) \ {t}) =
           IF t \in InStage(stages) THEN Cardinality(InStage(stages)) - 1 ELSE Cardinality(InStage(stages))
  BY InStageIs, FS_AddElement, FS_RemoveElement
<1>5. Cardinality(InStage(stages)) \in Nat
  BY InStageIs
<1> HIDE DEF InStage
<1>6. QED
  BY <1>1, <1>2, <1>3, <1>4, <1>5

-----------------------------------------------------------------------------
\* What the invariant says of the page and of the promises of the listeners.

LEMMA HoldingsAreNested ==
  ASSUME ListenersInv
  PROVE  LI!HoldingsNest
<1>1. open \subseteq DOMAIN number
  BY DEF ListenersInv, WorkersKept, InStage, Tracked
<1>2. Cardinality(DOMAIN number) <= slots
  <2>1. InStage(Tracked) \in SUBSET InStage(WithSlot)
    BY DEF InStage, Tracked, WithSlot
  <2>2. Cardinality(InStage(Tracked)) <= Cardinality(InStage(WithSlot))
    BY <2>1, InStageIs, FS_Subset
  <2>3. QED
    BY <2>2 DEF ListenersInv, WorkersKept
<1>3. QED
  BY <1>1, <1>2, Counts DEF ListenersInv, WorkersKept, PermitsKept, LI!HoldingsNest

LEMMA AllGoesBack ==
  ASSUME ListenersInv
  PROVE  LI!AllIsGivenBack
<1> SUFFICES ASSUME \A t \in LI!Threads : at[t] \in {"none", "reading", "asking"}
             PROVE  slots = 0 /\ number = <<>> /\ open = {} /\ total = completed
  BY DEF LI!AllIsGivenBack
<1>1. InStage(WithSlot) = {} /\ InStage(Tracked) = {} /\ InStage({"handling"}) = {}
  BY DEF InStage, WithSlot, Tracked
<1>2. slots = 0 /\ open = {} /\ DOMAIN number = {}
  BY <1>1, FS_EmptySet DEF ListenersInv, WorkersKept
<1>3. number = <<>>
  BY <1>1 DEF ListenersInv, WorkersKept
<1>4. total = completed
  BY <1>2, FS_EmptySet DEF ListenersInv, TimelineKept
<1>5. QED
  BY <1>2, <1>3, <1>4

LEMMA PermitsGoBack ==
  ASSUME ListenersInv
  PROVE  LI!PermitsReturn
<1> SUFFICES ASSUME NEW k \in DOMAIN semaphores
             PROVE  /\ semaphores[k].free >= 0
                    /\ semaphores[k].limit - semaphores[k].free =
                         Cardinality(Holders(k)) + (IF accepting = k THEN 1 ELSE 0)
  BY Counts DEF LI!PermitsReturn, Holders
<1>1. semaphores[k] \in Semaphore
  BY DEF ListenersInv, ListenersTyped
<1>2. QED
  BY <1>1 DEF Semaphore, ListenersInv, PermitsKept

LEMMA TimelineHolds ==
  ASSUME ListenersInv
  PROVE  LI!TimelineIsTrue
<1>1. intervalPeak >= Cardinality(DOMAIN number)
  <2>1. Cardinality(DOMAIN number) \in Nat
    BY InStageIs DEF ListenersInv, WorkersKept
  <2>2. QED
    BY <2>1 DEF ListenersInv, NumbersKept
<1>2. QED
  BY <1>1, Counts DEF ListenersInv, TimelineKept, LI!TimelineIsTrue

LEMMA RowsHold ==
  ASSUME ListenersInv
  PROVE  LI!RowsAreWhole
<1> SUFFICES ASSUME NEW limit \in 1..MaxActive
             PROVE  LET last == LI!Beside(peak, limit)
                    IN {r.number : r \in LI!Rows(limit)} = 1..last /\ Cardinality(LI!Rows(limit)) = last
  BY Counts DEF LI!RowsAreWhole
<1> DEFINE last == LI!Beside(peak, limit)
           Rows == LI!Rows(limit)
           Shown == {[number |-> number[t], status |-> "Processing", thread |-> {t}] : t \in DOMAIN number}
           Spare == {[number |-> i, status |-> IF i \in finished THEN "Completed" ELSE "Idle", thread |-> {}] :
                        i \in (1..last) \ LI!Numbers}
<1>1. last \in Nat /\ peak <= last /\ Injective
  BY ListenersAssumption DEF LI!Beside, ListenersInv, NumbersKept
<1>2. Rows = Shown \cup Spare
  BY DEF LI!Rows
<1>3. LI!Numbers \subseteq 1..last
  BY <1>1 DEF LI!Numbers, ListenersInv, NumbersKept
<1> HIDE DEF last, Rows
<1>4. \A r \in Shown : r.number \in LI!Numbers /\ \A s \in Shown : r.number = s.number => r = s
  BY <1>1 DEF LI!Numbers, Injective
<1>5. \A r \in Spare : /\ r.number \in (1..last) \ LI!Numbers
                       /\ \A s \in Spare : r.number = s.number => r = s
  OBVIOUS
<1>6. \A i \in 1..last : \E r \in Rows : r.number = i
  <2> SUFFICES ASSUME NEW i \in 1..last PROVE \E r \in Rows : r.number = i
    OBVIOUS
  <2>1. CASE i \in LI!Numbers
    <3>1. PICK t \in DOMAIN number : number[t] = i
      BY <2>1 DEF LI!Numbers
    <3>2. [number |-> number[t], status |-> "Processing", thread |-> {t}] \in Shown
      OBVIOUS
    <3>3. QED
      BY <1>2, <3>1, <3>2
  <2>2. CASE i \notin LI!Numbers
    <3> DEFINE row == [number |-> i, status |-> IF i \in finished THEN "Completed" ELSE "Idle", thread |-> {}]
    <3>1. row \in Spare /\ row.number = i
      BY <2>2
    <3>2. QED
      BY <1>2, <3>1
  <2>3. QED
    BY <2>1, <2>2
<1> HIDE DEF Shown, Spare
<1>7. {r.number : r \in Rows} = 1..last
  <2>1. \A r \in Rows : r.number \in 1..last
    BY <1>2, <1>3, <1>4, <1>5
  <2>2. QED
    BY <2>1, <1>6
<1> DEFINE f == [r \in Rows |-> r.number]
<1>8. f \in Injection(Rows, 1..last)
  <2>1. f \in [Rows -> 1..last]
    BY <1>2, <1>3, <1>4, <1>5
  <2>2. \A r, s \in Rows : r.number = s.number => r = s
    BY <1>2, <1>4, <1>5
  <2>3. QED
    BY <2>1, <2>2 DEF Injection, IsInjective
<1>9. f \in Surjection(Rows, 1..last)
  BY <1>6, <1>8 DEF Surjection, Injection
<1> HIDE DEF f
<1>10. IsFiniteSet(1..last) /\ Cardinality(1..last) = last
  BY <1>1, FS_Interval
<1>11. Cardinality(Rows) = last
  BY <1>8, <1>9, <1>10, FS_Injection
<1>12. QED
  BY <1>7, <1>11 DEF last, Rows

LEMMA ListenersHold == ListenersInv => LI!ListenersAreSound
  BY PermitsGoBack, HoldingsAreNested, AllGoesBack, RowsHold, TimelineHolds DEF LI!ListenersAreSound

-----------------------------------------------------------------------------
LEMMA ListenersStart ==
  ASSUME LI!Init
  PROVE  ListenersInv
<1> USE ListenersAssumption DEF LI!Init
<1>1. ListenersTyped
  <2>1. PICK limit \in ConnectionLimits : semaphores = <<[limit |-> limit, free |-> limit]>>
    OBVIOUS
  <2>2. [limit |-> limit, free |-> limit] \in Semaphore
    BY DEF Semaphore
  <2>3. semaphores \in Seq(Semaphore) /\ Len(semaphores) = 1 /\ DOMAIN semaphores = {1}
    BY <2>1, <2>2
  <2>4. QED
    BY <2>3 DEF ListenersTyped, Stages
<1>2. PermitsKept
  <2>1. PICK limit \in ConnectionLimits : semaphores = <<[limit |-> limit, free |-> limit]>>
    OBVIOUS
  <2>2. limit \in Nat /\ limit - limit = 0
    OBVIOUS
  <2>3. DOMAIN semaphores = {1} /\ semaphores[1].limit = limit /\ semaphores[1].free = limit
    BY <2>1
  <2>4. Holders(1) = {}
    BY DEF Holders, LI!Threads
  <2>5. accepting # 1 /\ \A t \in Connections : at[t] = "none" /\ holds[t] = 0
    BY DEF LI!Threads
  <2>6. Cardinality(Holders(1)) = 0
    BY <2>4, FS_EmptySet
  <2> HIDE DEF LI!Init
  <2>7. QED
    BY <2>2, <2>3, <2>5, <2>6 DEF PermitsKept
<1>3. InStage(WithSlot) = {} /\ InStage(Tracked) = {} /\ InStage({"handling"}) = {}
  BY DEF InStage, WithSlot, Tracked
<1>4. DOMAIN number = {} /\ number = [t \in {} |-> number[t]]
  OBVIOUS
<1>5. WorkersKept
  BY <1>3, <1>4, FS_EmptySet DEF WorkersKept
<1>6. NumbersKept
  BY <1>4, FS_EmptySet DEF NumbersKept, Injective
<1>7. TimelineKept
  <2>1. timeline = <<>> /\ Len(timeline) = 0 /\ DOMAIN timeline = {}
    OBVIOUS
  <2>2. LI!CompletedIs(reported)
    <3> DEFINE sum == [i \in 0..0 |-> 0]
    <3>1. sum \in [0..Len(timeline) -> 0..reported] /\ sum[0] = 0 /\ sum[Len(timeline)] = reported
      BY <2>1
    <3>2. QED
      BY <2>1, <3>1 DEF LI!CompletedIs
  <2>3. QED
    BY <1>4, <2>1, <2>2, FS_EmptySet DEF TimelineKept
<1>8. QED
  BY <1>1, <1>2, <1>5, <1>6, <1>7 DEF ListenersInv

LEMMA PermitIs ==
  ASSUME ListenersTyped, NEW k \in DOMAIN semaphores, NEW change \in {-1, 1}, LI!Permit(k, change),
         semaphores[k].free + change >= 0
  PROVE  /\ semaphores' \in Seq(Semaphore) /\ Len(semaphores') = Len(semaphores)
         /\ DOMAIN semaphores' = DOMAIN semaphores
         /\ \A j \in DOMAIN semaphores :
              /\ semaphores[j] \in Semaphore
              /\ semaphores'[j].limit = semaphores[j].limit
              /\ semaphores'[j].free = semaphores[j].free + (IF j = k THEN change ELSE 0)
<1>1. \A j \in DOMAIN semaphores : semaphores[j] \in Semaphore
  BY DEF ListenersTyped
<1> DEFINE new == [semaphores[k] EXCEPT !.free = semaphores[k].free + change]
<1>2. semaphores' = [semaphores EXCEPT ![k] = new]
  BY DEF LI!Permit
<1>3. new \in Semaphore /\ new.limit = semaphores[k].limit /\ new.free = semaphores[k].free + change
  BY <1>1 DEF Semaphore
<1> HIDE DEF new
<1>4. semaphores \in Seq(Semaphore)
  BY DEF ListenersTyped
<1>5. /\ semaphores' \in Seq(Semaphore) /\ Len(semaphores') = Len(semaphores)
      /\ DOMAIN semaphores' = DOMAIN semaphores
  BY ONLY <1>2, <1>3, <1>4, k \in DOMAIN semaphores
<1>6. \A j \in DOMAIN semaphores : semaphores'[j] = IF j = k THEN new ELSE semaphores[j]
  BY ONLY <1>2, <1>4
<1>7. ASSUME NEW j \in DOMAIN semaphores
      PROVE  /\ semaphores[j] \in Semaphore
             /\ semaphores'[j].limit = semaphores[j].limit
             /\ semaphores'[j].free = semaphores[j].free + (IF j = k THEN change ELSE 0)
  <2>1. semaphores[j] \in Semaphore /\ semaphores[j].free \in Int
    BY <1>1 DEF Semaphore
  <2>2. QED
    BY ONLY <1>3, <1>6, <2>1, j \in DOMAIN semaphores
<1>8. QED
  BY <1>5, <1>7

LEMMA TypedKeeps ==
  ASSUME ListenersInv, [LI!Next]_listenerVars
  PROVE  ListenersTyped'
<1> USE DEF ListenersInv, LI!connectionVars, LI!statisticVars
<1>1. semaphores \in Seq(Semaphore) /\ ListenersTyped /\ \A k \in DOMAIN semaphores : semaphores[k] \in Semaphore
  BY DEF ListenersTyped
<1>2. ASSUME LI!Accept PROVE ListenersTyped'
  <2>1. server \in DOMAIN semaphores /\ semaphores[server].free > 0 /\ LI!Permit(server, -1)
    BY <1>2 DEF LI!Accept, ListenersTyped
  <2>2. semaphores[server].free + (-1) >= 0
    BY <1>1, <2>1 DEF Semaphore
  <2>3. semaphores' \in Seq(Semaphore) /\ Len(semaphores') = Len(semaphores) /\ DOMAIN semaphores' = DOMAIN semaphores
    BY <1>1, <2>1, <2>2, PermitIs
  <2>4. QED
    BY <1>2, <2>3 DEF LI!Accept, ListenersTyped
<1>3. ASSUME LI!StartFails PROVE ListenersTyped'
  <2>1. accepting \in DOMAIN semaphores /\ LI!Permit(accepting, 1)
    BY <1>3 DEF LI!StartFails, ListenersTyped
  <2>2. semaphores[accepting].free + 1 >= 0
    BY <1>1, <2>1 DEF Semaphore
  <2>3. semaphores' \in Seq(Semaphore) /\ Len(semaphores') = Len(semaphores) /\ DOMAIN semaphores' = DOMAIN semaphores
    BY <1>1, <2>1, <2>2, PermitIs
  <2>4. QED
    BY <1>3, <2>3 DEF LI!StartFails, ListenersTyped
<1>4. ASSUME NEW t \in Connections, LI!Close(t) PROVE ListenersTyped'
  <2>1. holds[t] \in DOMAIN semaphores /\ LI!Permit(holds[t], 1)
    BY <1>4 DEF LI!Close, LI!Goes, ListenersTyped, PermitsKept, LI!Threads
  <2>2. semaphores[holds[t]].free + 1 >= 0
    BY <1>1, <2>1 DEF Semaphore
  <2>3. semaphores' \in Seq(Semaphore) /\ Len(semaphores') = Len(semaphores) /\ DOMAIN semaphores' = DOMAIN semaphores
    BY <1>1, <2>1, <2>2, PermitIs
  <2>4. QED
    BY <1>4, <2>3 DEF LI!Close, LI!Goes, ListenersTyped, LI!Threads, Stages
<1>5. ASSUME NEW limit \in ConnectionLimits, LI!LoadSettings(limit) PROVE ListenersTyped'
  <2>1. [limit |-> limit, free |-> limit] \in Semaphore
    BY ListenersAssumption DEF Semaphore
  <2>2. semaphores' \in Seq(Semaphore) /\ Len(semaphores') = Len(semaphores) + 1
    BY <1>1, <1>5, <2>1 DEF LI!LoadSettings
  <2>3. QED
    BY <1>5, <2>2 DEF LI!LoadSettings, ListenersTyped
<1>6. ASSUME LI!RestartServer PROVE ListenersTyped'
  BY <1>6 DEF LI!RestartServer, ListenersTyped
<1>7. ASSUME LI!Sample \/ LI!Fade \/ UNCHANGED listenerVars PROVE ListenersTyped'
  BY <1>7 DEF LI!Sample, LI!Fade, listenerVars, ListenersTyped
<1>8. ASSUME NEW t \in Connections, LI!StartThread(t) PROVE ListenersTyped'
  BY <1>8 DEF LI!StartThread, LI!Goes, LI!Threads, Stages, ListenersTyped
<1>9. ASSUME NEW t \in LI!Threads, LI!ReadMessage(t) \/ LI!Begin(t) \/ LI!Admitted(t) \/ LI!Rejected(t)
      PROVE  ListenersTyped'
  BY <1>9 DEF LI!ReadMessage, LI!Begin, LI!Admitted, LI!Rejected, LI!Goes, Stages, ListenersTyped
<1>10. ASSUME NEW t \in LI!Threads, LI!WorkerStart(t) \/ LI!Register(t) \/ LI!Unregister(t)
                                      \/ LI!WorkerEnd(t) \/ LI!ReleaseSlot(t)
      PROVE  ListenersTyped'
  BY <1>10 DEF LI!WorkerStart, LI!Register, LI!Unregister, LI!WorkerEnd, LI!ReleaseSlot, LI!Goes, Stages,
     ListenersTyped
<1>11. QED
  BY <1>2, <1>3, <1>4, <1>5, <1>6, <1>7, <1>8, <1>9, <1>10 DEF LI!Next

LEMMA HoldersIs ==
  ASSUME ListenersTyped, NEW t \in Connections, holds' = [holds EXCEPT ![t] = holds'[t]]
  PROVE  \A k :
         /\ Holders(k)' = IF holds'[t] = k THEN Holders(k) \cup {t} ELSE Holders(k) \ {t}
         /\ Cardinality(Holders(k)') = Cardinality(Holders(k))
                + (IF holds'[t] = k THEN 1 ELSE 0) - (IF holds[t] = k THEN 1 ELSE 0)
<1> SUFFICES ASSUME NEW k
             PROVE  /\ Holders(k)' = IF holds'[t] = k THEN Holders(k) \cup {t} ELSE Holders(k) \ {t}
                    /\ Cardinality(Holders(k)') = Cardinality(Holders(k))
                         + (IF holds'[t] = k THEN 1 ELSE 0) - (IF holds[t] = k THEN 1 ELSE 0)
  OBVIOUS
<1>1. t \in Holders(k) <=> holds[t] = k
  BY DEF Holders
<1>2. Holders(k)' = IF holds'[t] = k THEN Holders(k) \cup {t} ELSE Holders(k) \ {t}
  BY DEF Holders, ListenersTyped, LI!Threads
<1>3. IsFiniteSet(Holders(k)) /\ Cardinality(Holders(k)) \in Nat
  <2>1. Holders(k) \in SUBSET LI!Threads
    BY DEF Holders, LI!Threads
  <2>2. QED
    BY <2>1, ThreadsFinite
<1>4. /\ Cardinality(Holders(k) \cup {t}) =
           IF t \in Holders(k) THEN Cardinality(Holders(k)) ELSE Cardinality(Holders(k)) + 1
      /\ Cardinality(Holders(k) \ {t}) =
           IF t \in Holders(k) THEN Cardinality(Holders(k)) - 1 ELSE Cardinality(Holders(k))
  BY <1>3, FS_AddElement, FS_RemoveElement
<1> HIDE DEF Holders
<1>5. QED
  BY <1>1, <1>2, <1>3, <1>4

LEMMA PermitsKeep ==
  ASSUME ListenersInv, [LI!Next]_listenerVars
  PROVE  PermitsKept'
<1>1. ListenersTyped /\ PermitsKept /\ \A k \in DOMAIN semaphores : semaphores[k] \in Semaphore
  BY DEF ListenersInv, ListenersTyped
<1>2. \A k : Holders(k) \in SUBSET LI!Threads
  BY DEF Holders, LI!Threads
<1>3. \A k : Cardinality(Holders(k)) \in Nat
  BY <1>2, ThreadsFinite
\* A step that leaves the connections as they are.
<1>4. ASSUME UNCHANGED <<semaphores, accepting, holds>>, \A t \in Connections : at'[t] = "none" <=> at[t] = "none"
      PROVE  PermitsKept'
  BY <1>1, <1>4 DEF PermitsKept, Holders
\* A step that moves permits: k's permits and its holders change together.
<1>5. ASSUME LI!Accept PROVE PermitsKept'
  <2>1. /\ server \in DOMAIN semaphores /\ semaphores[server].free > 0 /\ LI!Permit(server, -1)
        /\ accepting = 0 /\ accepting' = server /\ UNCHANGED <<holds, at>>
    BY <1>1, <1>5 DEF LI!Accept, ListenersTyped
  <2>2. semaphores[server].free + (-1) >= 0
    BY <1>1, <2>1 DEF Semaphore
  <2>3. /\ DOMAIN semaphores' = DOMAIN semaphores
        /\ \A j \in DOMAIN semaphores :
              /\ semaphores'[j].limit = semaphores[j].limit
              /\ semaphores'[j].free = semaphores[j].free + (IF j = server THEN -1 ELSE 0)
    BY <1>1, <2>1, <2>2, PermitIs
  <2>4. \A k : Holders(k)' = Holders(k)
    BY <2>1 DEF Holders
  <2>5. \A k \in DOMAIN semaphores : k # 0
    BY <1>1 DEF ListenersTyped
  <2>6. QED
    BY <1>1, <1>3, <2>1, <2>3, <2>4, <2>5 DEF PermitsKept, Semaphore
<1>6. ASSUME LI!StartFails PROVE PermitsKept'
  <2>1. /\ accepting \in DOMAIN semaphores /\ LI!Permit(accepting, 1)
        /\ accepting' = 0 /\ UNCHANGED <<holds, at>>
    BY <1>1, <1>6 DEF LI!StartFails, ListenersTyped
  <2>2. semaphores[accepting].free + 1 >= 0
    BY <1>1, <2>1 DEF Semaphore
  <2>3. /\ DOMAIN semaphores' = DOMAIN semaphores
        /\ \A j \in DOMAIN semaphores :
              /\ semaphores'[j].limit = semaphores[j].limit
              /\ semaphores'[j].free = semaphores[j].free + (IF j = accepting THEN 1 ELSE 0)
    BY <1>1, <2>1, <2>2, PermitIs
  <2>4. \A k : Holders(k)' = Holders(k)
    BY <2>1 DEF Holders
  <2>5. \A k \in DOMAIN semaphores : k # 0
    BY <1>1 DEF ListenersTyped
  <2>6. QED
    BY <1>1, <1>3, <2>1, <2>3, <2>4, <2>5 DEF PermitsKept, Semaphore
<1>7. ASSUME NEW t \in Connections, LI!StartThread(t) PROVE PermitsKept'
  <2>1. /\ accepting # 0 /\ accepting' = 0 /\ UNCHANGED semaphores
        /\ at[t] = "none" /\ at' = [at EXCEPT ![t] = "reading"]
        /\ holds' = [holds EXCEPT ![t] = accepting] /\ holds[t] = 0
    BY <1>1, <1>7 DEF LI!StartThread, LI!Goes, PermitsKept
  <2>6. holds' = [holds EXCEPT ![t] = holds'[t]] /\ holds'[t] = accepting
    BY <1>1, <2>1 DEF ListenersTyped, LI!Threads
  <2>2. \A k : Cardinality(Holders(k)') = Cardinality(Holders(k))
            + (IF accepting = k THEN 1 ELSE 0) - (IF holds[t] = k THEN 1 ELSE 0)
    BY <1>1, <2>6, HoldersIs
  <2>3. \A k \in DOMAIN semaphores : k # 0 /\ Cardinality(Holders(k)')
            = Cardinality(Holders(k)) + (IF accepting = k THEN 1 ELSE 0)
    BY <1>1, <1>3, <2>1, <2>2 DEF ListenersTyped
  <2>4. \A u \in Connections : at'[u] = "none" <=> holds'[u] = 0
    BY <1>1, <2>1 DEF PermitsKept, ListenersTyped, LI!Threads
  <2>5. QED
    BY <1>1, <1>3, <2>1, <2>3, <2>4 DEF PermitsKept
<1>8. ASSUME NEW t \in Connections, LI!Close(t) PROVE PermitsKept'
  <2>1. /\ at[t] = "reading" /\ at' = [at EXCEPT ![t] = "none"]
        /\ holds' = [holds EXCEPT ![t] = 0] /\ holds[t] \in DOMAIN semaphores
        /\ LI!Permit(holds[t], 1) /\ UNCHANGED accepting
    BY <1>1, <1>8 DEF LI!Close, LI!Goes, PermitsKept, ListenersTyped, LI!Threads
  <2>2. semaphores[holds[t]].free + 1 >= 0
    BY <1>1, <2>1 DEF Semaphore
  <2>3. /\ DOMAIN semaphores' = DOMAIN semaphores
        /\ \A j \in DOMAIN semaphores :
              /\ semaphores'[j].limit = semaphores[j].limit
              /\ semaphores'[j].free = semaphores[j].free + (IF j = holds[t] THEN 1 ELSE 0)
    BY <1>1, <2>1, <2>2, PermitIs
  <2>4. \A k \in DOMAIN semaphores : k # 0 /\ Cardinality(Holders(k)')
            = Cardinality(Holders(k)) - (IF holds[t] = k THEN 1 ELSE 0)
    <3>1. holds' = [holds EXCEPT ![t] = holds'[t]] /\ holds'[t] = 0
      BY <1>1, <2>1 DEF ListenersTyped, LI!Threads
    <3>2. \A k : Cardinality(Holders(k)') = Cardinality(Holders(k))
              + (IF 0 = k THEN 1 ELSE 0) - (IF holds[t] = k THEN 1 ELSE 0)
      BY <1>1, <3>1, HoldersIs
    <3>3. \A k \in DOMAIN semaphores : k # 0
      BY <1>1 DEF ListenersTyped
    <3>4. QED
      BY <1>3, <3>2, <3>3
  <2>5. \A u \in Connections : at'[u] = "none" <=> holds'[u] = 0
    BY <1>1, <2>1 DEF PermitsKept, ListenersTyped, LI!Threads
  <2>6. QED
    BY <1>1, <1>3, <2>1, <2>3, <2>4, <2>5 DEF PermitsKept, Semaphore
<1>9. ASSUME NEW limit \in ConnectionLimits, LI!LoadSettings(limit) PROVE PermitsKept'
  <2>1. /\ semaphores' = Append(semaphores, [limit |-> limit, free |-> limit])
        /\ UNCHANGED <<accepting, holds, at>>
    BY <1>9 DEF LI!LoadSettings
  <2> DEFINE n == Len(semaphores) + 1
  <2>2. /\ DOMAIN semaphores' = DOMAIN semaphores \cup {n}
        /\ n \notin DOMAIN semaphores /\ accepting # n /\ \A t \in Connections : holds[t] # n
        /\ \A k \in DOMAIN semaphores : semaphores'[k] = semaphores[k]
        /\ semaphores'[n] = [limit |-> limit, free |-> limit]
    BY <1>1, <2>1 DEF ListenersTyped, LI!Threads
  <2>3. \A k : Holders(k)' = Holders(k)
    BY <2>1 DEF Holders
  <2>4. Holders(n) = {}
    BY <2>2 DEF Holders
  <2>5. Cardinality(Holders(n)) = 0
    BY <2>4, FS_EmptySet
  <2>7. limit \in Nat /\ limit - limit = 0
    BY ListenersAssumption
  <2> HIDE DEF n
  <2>6. QED
    BY <1>1, <2>1, <2>2, <2>3, <2>5, <2>7 DEF PermitsKept
<1>10. ASSUME LI!RestartServer \/ LI!Sample \/ LI!Fade \/ UNCHANGED listenerVars PROVE PermitsKept'
  BY <1>4, <1>10 DEF LI!RestartServer, LI!Sample, LI!Fade, listenerVars, LI!connectionVars
<1>11. ASSUME NEW t \in LI!Threads,
              LI!ReadMessage(t) \/ LI!Begin(t) \/ LI!Admitted(t) \/ LI!Rejected(t) \/ LI!WorkerStart(t)
                \/ LI!Register(t) \/ LI!Unregister(t) \/ LI!WorkerEnd(t) \/ LI!ReleaseSlot(t)
       PROVE  PermitsKept'
  <2>1. UNCHANGED <<semaphores, accepting, holds>>
    BY <1>11 DEF LI!ReadMessage, LI!Begin, LI!Admitted, LI!Rejected, LI!WorkerStart, LI!Register,
       LI!Unregister, LI!WorkerEnd, LI!ReleaseSlot, LI!connectionVars
  <2>2. \A u \in Connections : at'[u] = "none" <=> at[u] = "none"
    <3>1. at \in [LI!Threads -> Stages] /\ \A u \in Connections : u \in LI!Threads /\ u \notin Others
      BY <1>1, ListenersAssumption DEF ListenersTyped, LI!Threads
    <3>2. QED
      BY <1>11, <3>1 DEF LI!ReadMessage, LI!Begin, LI!Admitted, LI!Rejected, LI!WorkerStart, LI!Register,
         LI!Unregister, LI!WorkerEnd, LI!ReleaseSlot, LI!Goes
  <2>3. QED
    BY <1>4, <2>1, <2>2
<1>12. QED
  BY <1>5, <1>6, <1>7, <1>8, <1>9, <1>10, <1>11 DEF LI!Next

\* A step of a request: what changes with the stages its thread leaves and enters.
LEMMA WorkersKeep ==
  ASSUME ListenersInv, [LI!Next]_listenerVars
  PROVE  WorkersKept'
<1>1. ListenersTyped /\ WorkersKept /\ slots \in Nat
  BY InStageIs DEF ListenersInv, WorkersKept
\* A step that leaves the requests as they are.
<1>2. ASSUME UNCHANGED <<slots, number, open>>,
             \A stages \in {WithSlot, Tracked, {"handling"}} : InStage(stages)' = InStage(stages)
      PROVE  WorkersKept'
  BY <1>1, <1>2 DEF WorkersKept
<1>3. ASSUME LI!Accept \/ LI!StartFails \/ LI!RestartServer \/ LI!Sample \/ LI!Fade \/ UNCHANGED listenerVars
               \/ \E limit \in ConnectionLimits : LI!LoadSettings(limit)
      PROVE  WorkersKept'
  <2>1. UNCHANGED <<slots, number, open, at>>
    BY <1>3 DEF LI!Accept, LI!StartFails, LI!RestartServer, LI!Sample, LI!Fade, LI!LoadSettings,
       listenerVars, LI!connectionVars, LI!statisticVars
  <2>2. QED
    BY <1>2, <2>1 DEF InStage
<1>4. ASSUME NEW t \in LI!Threads, NEW from, NEW to, LI!Goes(t, from, to), UNCHANGED <<slots, number, open>>,
             from \in WithSlot <=> to \in WithSlot, from \in Tracked <=> to \in Tracked,
             from = "handling" <=> to = "handling"
      PROVE  WorkersKept'
  <2>1. \A stages : /\ t \in InStage(stages) <=> from \in stages
                    /\ InStage(stages)' = IF to \in stages THEN InStage(stages) \cup {t} ELSE InStage(stages) \ {t}
    BY <1>1, <1>4, GoesIs
  <2>2. \A stages : (from \in stages <=> to \in stages) => InStage(stages)' = InStage(stages)
    BY <2>1
  <2>3. QED
    BY <1>2, <1>4, <2>2
<1>5. ASSUME NEW t \in Connections, LI!StartThread(t) \/ LI!Close(t) PROVE WorkersKept'
  BY <1>4, <1>5 DEF LI!StartThread, LI!Close, LI!Threads, WithSlot, Tracked, LI!statisticVars
<1>6. ASSUME NEW t \in LI!Threads, LI!ReadMessage(t) \/ LI!Begin(t) \/ LI!Rejected(t) PROVE WorkersKept'
  BY <1>4, <1>6 DEF LI!ReadMessage, LI!Begin, LI!Rejected, WithSlot, Tracked
\* A step of a request.
<1>7. ASSUME NEW t \in LI!Threads, NEW from, NEW to, LI!Goes(t, from, to)
      PROVE  \A stages :
               /\ t \in InStage(stages) <=> from \in stages
               /\ InStage(stages)' = IF to \in stages THEN InStage(stages) \cup {t} ELSE InStage(stages) \ {t}
               /\ Cardinality(InStage(stages)') = Cardinality(InStage(stages))
                    + (IF to \in stages THEN 1 ELSE 0) - (IF from \in stages THEN 1 ELSE 0)
  BY <1>1, <1>7, GoesIs
<1>8. ASSUME NEW t \in LI!Threads, LI!Admitted(t) PROVE WorkersKept'
  <2>1. LI!Goes(t, "asking", "admitted") /\ slots < MaxActive /\ slots' = slots + 1 /\ UNCHANGED <<number, open>>
    BY <1>8 DEF LI!Admitted, LI!statisticVars
  <2>5. \A stages :
          /\ t \in InStage(stages) <=> "asking" \in stages
          /\ InStage(stages)' = IF "admitted" \in stages THEN InStage(stages) \cup {t} ELSE InStage(stages) \ {t}
          /\ Cardinality(InStage(stages)') = Cardinality(InStage(stages))
               + (IF "admitted" \in stages THEN 1 ELSE 0) - (IF "asking" \in stages THEN 1 ELSE 0)
    BY <1>7, <2>1
  <2>2. /\ Cardinality(InStage(WithSlot)') = Cardinality(InStage(WithSlot)) + 1 - 0
        /\ InStage(Tracked)' = InStage(Tracked) /\ InStage({"handling"})' = InStage({"handling"})
    BY <2>5 DEF WithSlot, Tracked
  <2>3. QED
    BY <1>1, <2>1, <2>2, ListenersAssumption DEF WorkersKept
<1>9. ASSUME NEW t \in LI!Threads, LI!WorkerStart(t) PROVE WorkersKept'
  <2>1. /\ LI!Goes(t, "admitted", "started") /\ UNCHANGED <<slots, open>>
        /\ number' = [u \in DOMAIN number \cup {t} |-> IF u = t THEN LI!LowestFree ELSE number[u]]
    BY <1>9 DEF LI!WorkerStart
  <2>5. \A stages :
          /\ t \in InStage(stages) <=> "admitted" \in stages
          /\ InStage(stages)' = IF "started" \in stages THEN InStage(stages) \cup {t} ELSE InStage(stages) \ {t}
          /\ Cardinality(InStage(stages)') = Cardinality(InStage(stages))
               + (IF "started" \in stages THEN 1 ELSE 0) - (IF "admitted" \in stages THEN 1 ELSE 0)
    BY <1>7, <2>1
  <2>2. /\ Cardinality(InStage(WithSlot)') = Cardinality(InStage(WithSlot)) + 1 - 1
        /\ InStage(Tracked)' = InStage(Tracked) \cup {t} /\ InStage({"handling"})' = InStage({"handling"})
    BY <2>5 DEF WithSlot, Tracked
  <2>3. DOMAIN number' = InStage(Tracked)' /\ number' = [u \in InStage(Tracked)' |-> number'[u]]
    BY <1>1, <2>1, <2>2 DEF WorkersKept
  <2>4. QED
    BY <1>1, <2>1, <2>2, <2>3 DEF WorkersKept
<1>10. ASSUME NEW t \in LI!Threads, LI!Register(t) PROVE WorkersKept'
  <2>1. LI!Goes(t, "started", "handling") /\ UNCHANGED <<slots, number>> /\ open' = open \cup {t}
    BY <1>10 DEF LI!Register
  <2>2. /\ Cardinality(InStage(WithSlot)') = Cardinality(InStage(WithSlot)) + 1 - 1
        /\ InStage(Tracked)' = InStage(Tracked) /\ InStage({"handling"})' = InStage({"handling"}) \cup {t}
    BY <1>7, <2>1 DEF WithSlot, Tracked
  <2>3. QED
    BY <1>1, <2>1, <2>2 DEF WorkersKept
<1>11. ASSUME NEW t \in LI!Threads, LI!Unregister(t) PROVE WorkersKept'
  <2>1. LI!Goes(t, "handling", "handled") /\ UNCHANGED <<slots, number>> /\ open' = open \ {t}
    BY <1>11 DEF LI!Unregister
  <2>5. \A stages :
          /\ t \in InStage(stages) <=> "handling" \in stages
          /\ InStage(stages)' = IF "handled" \in stages THEN InStage(stages) \cup {t} ELSE InStage(stages) \ {t}
          /\ Cardinality(InStage(stages)') = Cardinality(InStage(stages))
               + (IF "handled" \in stages THEN 1 ELSE 0) - (IF "handling" \in stages THEN 1 ELSE 0)
    BY <1>7, <2>1
  <2>2. /\ Cardinality(InStage(WithSlot)') = Cardinality(InStage(WithSlot)) + 1 - 1
        /\ InStage(Tracked)' = InStage(Tracked) /\ InStage({"handling"})' = InStage({"handling"}) \ {t}
    BY <2>5 DEF WithSlot, Tracked
  <2>3. QED
    BY <1>1, <2>1, <2>2 DEF WorkersKept
<1>12. ASSUME NEW t \in LI!Threads, LI!WorkerEnd(t) PROVE WorkersKept'
  <2>1. /\ LI!Goes(t, "handled", "ended") /\ UNCHANGED <<slots, open>>
        /\ number' = [u \in DOMAIN number \ {t} |-> number[u]]
    BY <1>12 DEF LI!WorkerEnd
  <2>2. /\ Cardinality(InStage(WithSlot)') = Cardinality(InStage(WithSlot)) + 1 - 1
        /\ InStage(Tracked)' = InStage(Tracked) \ {t} /\ InStage({"handling"})' = InStage({"handling"})
    BY <1>7, <2>1 DEF WithSlot, Tracked
  <2>3. DOMAIN number' = InStage(Tracked)' /\ number' = [u \in InStage(Tracked)' |-> number'[u]]
    BY <1>1, <2>1, <2>2 DEF WorkersKept
  <2>4. QED
    BY <1>1, <2>1, <2>2, <2>3 DEF WorkersKept
<1>13. ASSUME NEW t \in LI!Threads, LI!ReleaseSlot(t) PROVE WorkersKept'
  <2>1. /\ LI!Goes(t, "ended", IF t \in Connections THEN "reading" ELSE "none")
        /\ slots' = slots - 1 /\ UNCHANGED <<number, open>>
    BY <1>13 DEF LI!ReleaseSlot, LI!statisticVars
  <2>5. \A stages :
          /\ t \in InStage(stages) <=> "ended" \in stages
          /\ InStage(stages)' = IF (IF t \in Connections THEN "reading" ELSE "none") \in stages THEN InStage(stages) \cup {t} ELSE InStage(stages) \ {t}
          /\ Cardinality(InStage(stages)') = Cardinality(InStage(stages))
               + (IF (IF t \in Connections THEN "reading" ELSE "none") \in stages THEN 1 ELSE 0) - (IF "ended" \in stages THEN 1 ELSE 0)
    BY <1>7, <2>1
  <2>2. /\ Cardinality(InStage(WithSlot)') = Cardinality(InStage(WithSlot)) + 0 - 1
        /\ InStage(Tracked)' = InStage(Tracked) /\ InStage({"handling"})' = InStage({"handling"})
    BY <2>5 DEF WithSlot, Tracked
  <2>3. QED
    BY <1>1, <2>1, <2>2, ListenersAssumption DEF WorkersKept
<1>14. QED
  BY <1>3, <1>5, <1>6, <1>8, <1>9, <1>10, <1>11, <1>12, <1>13 DEF LI!Next

\* The number a worker is given is free, and no greater than the workers there are then.
LEMMA LowestFreeIs ==
  ASSUME ListenersInv
  PROVE  LI!LowestFree \in 1..(Cardinality(DOMAIN number) + 1) /\ LI!LowestFree \notin LI!Numbers
<1> DEFINE n == Cardinality(DOMAIN number)
<1>1. IsFiniteSet(DOMAIN number) /\ n \in Nat
  BY InStageIs DEF ListenersInv, WorkersKept
<1>2. IsFiniteSet(LI!Numbers) /\ Cardinality(LI!Numbers) \in Nat /\ Cardinality(LI!Numbers) <= n
  <2> DEFINE f == [t \in DOMAIN number |-> number[t]]
  <2>1. f \in Surjection(DOMAIN number, LI!Numbers)
    BY DEF LI!Numbers, Surjection
  <2> HIDE DEF f
  <2>2. QED
    BY <1>1, <2>1, FS_Surjection, FS_CardinalityType
<1> DEFINE m == Cardinality(LI!Numbers)
           Free == 1..(m + 1) \ LI!Numbers
<1>3. Free # {}
  <2>1. SUFFICES ASSUME 1..(m + 1) \subseteq LI!Numbers PROVE FALSE
    OBVIOUS
  <2>2. Cardinality(1..(m + 1)) = m + 1
    BY <1>2, FS_Interval
  <2>3. Cardinality(1..(m + 1)) <= m
    BY <1>2, <2>1, FS_Subset
  <2>4. QED
    BY <1>2, <2>2, <2>3
<1>4. LI!LowestFree = CHOOSE x \in Free : \A y \in Free : x <= y
  BY Counts DEF LI!LowestFree, LI!Min
<1>5. Free \subseteq Nat
  BY <1>2
<1> HIDE DEF Free
<1>6. LI!LowestFree \in Free
  BY <1>3, <1>4, <1>5, LeastExists
<1>7. QED
  BY <1>1, <1>2, <1>6 DEF Free

LEMMA NumbersKeep ==
  ASSUME ListenersInv, [LI!Next]_listenerVars
  PROVE  NumbersKept'
<1>1. /\ NumbersKept /\ IsFiniteSet(DOMAIN number) /\ Cardinality(DOMAIN number) \in Nat
      /\ ListenersTyped /\ DOMAIN number = InStage(Tracked)
  BY InStageIs DEF ListenersInv, WorkersKept
<1>2. ASSUME UNCHANGED <<number, peak, intervalPeak>> PROVE NumbersKept'
  BY <1>1, <1>2 DEF NumbersKept, Injective
<1>3. ASSUME LI!Sample PROVE NumbersKept'
  <2>1. intervalPeak' = Cardinality(DOMAIN number) /\ UNCHANGED <<number, peak>>
    BY <1>3, Counts DEF LI!Sample
  <2>2. QED
    BY <1>1, <2>1 DEF NumbersKept, Injective
<1>4. ASSUME NEW t \in LI!Threads, LI!WorkerStart(t) PROVE NumbersKept'
  <2>1. /\ LI!Goes(t, "admitted", "started")
        /\ number' = [u \in DOMAIN number \cup {t} |-> IF u = t THEN LI!LowestFree ELSE number[u]]
        /\ peak' = LI!Beside(peak, Cardinality(DOMAIN number'))
        /\ intervalPeak' = LI!Beside(intervalPeak, Cardinality(DOMAIN number'))
    BY <1>4, Counts DEF LI!WorkerStart
  <2>2. t \notin DOMAIN number
    BY <1>1, <2>1 DEF LI!Goes, InStage, Tracked
  <2>3. DOMAIN number' = DOMAIN number \cup {t}
    BY <2>1
  <2>4. Cardinality(DOMAIN number') = Cardinality(DOMAIN number) + 1
    BY <1>1, <2>2, <2>3, FS_AddElement
  <2>5. /\ peak' \in Nat /\ peak' >= peak /\ peak' >= Cardinality(DOMAIN number) + 1
        /\ intervalPeak' \in Nat /\ intervalPeak' <= peak' /\ Cardinality(DOMAIN number') <= intervalPeak'
    BY <1>1, <2>1, <2>4 DEF NumbersKept, LI!Beside
  <2>6. LI!LowestFree \in 1..(Cardinality(DOMAIN number) + 1) /\ LI!LowestFree \notin LI!Numbers
    BY LowestFreeIs
  <2>7. \A u \in DOMAIN number : number'[u] = number[u] /\ number[u] \in LI!Numbers /\ number[u] \in 1..peak
    BY <1>1, <2>1, <2>2 DEF NumbersKept, LI!Numbers
  <2>8. number'[t] = LI!LowestFree
    BY <2>1
  <2> HIDE DEF LI!LowestFree
  <2>9. \A u \in DOMAIN number' : number'[u] \in 1..peak'
    BY <1>1, <2>3, <2>5, <2>6, <2>7, <2>8 DEF NumbersKept
  <2>10. Injective'
    BY <1>1, <2>3, <2>6, <2>7, <2>8 DEF NumbersKept, Injective
  <2>11. QED
    BY <2>5, <2>9, <2>10 DEF NumbersKept
<1>5. ASSUME NEW t \in LI!Threads, LI!WorkerEnd(t) PROVE NumbersKept'
  <2>1. number' = [u \in DOMAIN number \ {t} |-> number[u]] /\ UNCHANGED <<peak, intervalPeak>>
    BY <1>5 DEF LI!WorkerEnd
  <2>2. t \in DOMAIN number /\ DOMAIN number' = DOMAIN number \ {t}
    BY <1>1, <1>5, <2>1 DEF LI!WorkerEnd, LI!Goes, InStage, Tracked
  <2>3. Cardinality(DOMAIN number') = Cardinality(DOMAIN number) - 1
    BY <1>1, <2>2, FS_RemoveElement
  <2>4. \A u \in DOMAIN number' : u \in DOMAIN number /\ number'[u] = number[u]
    BY <2>1
  <2>5. QED
    BY <1>1, <2>1, <2>3, <2>4 DEF NumbersKept, Injective
<1>6. QED
  BY <1>2, <1>3, <1>4, <1>5 DEF LI!Next, LI!Accept, LI!StartFails, LI!RestartServer, LI!Fade, LI!LoadSettings,
     LI!StartThread, LI!Close, LI!ReadMessage, LI!Begin, LI!Admitted, LI!Rejected, LI!Register, LI!Unregister,
     LI!ReleaseSlot, listenerVars, LI!statisticVars

LEMMA TimelineKeeps ==
  ASSUME ListenersInv, [LI!Next]_listenerVars
  PROVE  TimelineKept'
<1> DEFINE Samples == [active : Nat, peak : Nat, completed : Nat]
<1>1. /\ TimelineKept /\ NumbersKept /\ IsFiniteSet(DOMAIN number) /\ Cardinality(DOMAIN number) \in Nat
      /\ ListenersTyped /\ DOMAIN number = InStage(Tracked)
  BY InStageIs DEF ListenersInv, WorkersKept
<1>2. timeline \in Seq(Samples) /\ \A i \in DOMAIN timeline : timeline[i] \in Samples
  <2>1. timeline \in Seq(Samples)
    BY <1>1 DEF TimelineKept
  <2> HIDE DEF Samples
  <2>2. QED
    BY <2>1
<1>3. ASSUME UNCHANGED <<total, completed, reported, number, timeline, peak, intervalPeak>> PROVE TimelineKept'
  BY <1>1, <1>3 DEF TimelineKept, LI!CompletedIs
<1>4. ASSUME NEW t \in LI!Threads, LI!WorkerStart(t) PROVE TimelineKept'
  <2>1. /\ LI!Goes(t, "admitted", "started") /\ total' = total + 1
        /\ number' = [u \in DOMAIN number \cup {t} |-> IF u = t THEN LI!LowestFree ELSE number[u]]
        /\ peak' = LI!Beside(peak, Cardinality(DOMAIN number'))
        /\ intervalPeak' = LI!Beside(intervalPeak, Cardinality(DOMAIN number'))
        /\ UNCHANGED <<completed, reported, timeline>>
    BY <1>4, Counts DEF LI!WorkerStart
  <2>2. t \notin DOMAIN number /\ DOMAIN number' = DOMAIN number \cup {t}
    BY <1>1, <2>1 DEF LI!Goes, InStage, Tracked
  <2>3. Cardinality(DOMAIN number') = Cardinality(DOMAIN number) + 1
    BY <1>1, <2>2, FS_AddElement
  <2>4. peak' >= peak /\ intervalPeak' >= intervalPeak /\ peak' \in Nat /\ intervalPeak' \in Nat
    BY <1>1, <2>1, <2>3 DEF NumbersKept, LI!Beside
  <2>5. \A i \in DOMAIN timeline : timeline[i].peak \in Nat /\ timeline[i].active \in Nat
    BY <1>2
  <2>6. timeline # <<>> => Len(timeline) \in DOMAIN timeline
    BY <1>2
  <2>7. LI!CompletedIs(reported)'
    BY <1>1, <2>1 DEF TimelineKept, LI!CompletedIs
  <2>8. \A i \in DOMAIN timeline : peak' >= timeline[i].peak
    <3>1. /\ peak \in Nat /\ \A i \in DOMAIN timeline : peak >= timeline[i].peak
      BY <1>1 DEF TimelineKept, NumbersKept
    <3>2. QED
      BY ONLY <2>4, <2>5, <3>1
  <2>9. timeline # <<>> => intervalPeak' >= timeline[Len(timeline)].active
    BY <1>1, <2>4, <2>5, <2>6 DEF TimelineKept, NumbersKept
  <2>10. total' \in Nat /\ total' = completed + Cardinality(DOMAIN number')
    BY <1>1, <2>1, <2>3 DEF TimelineKept
  <2>11. QED
    BY <1>1, <2>1, <2>7, <2>8, <2>9, <2>10 DEF TimelineKept
<1>5. ASSUME NEW t \in LI!Threads, LI!WorkerEnd(t) PROVE TimelineKept'
  <2>1. /\ LI!Goes(t, "handled", "ended") /\ completed' = completed + 1
        /\ number' = [u \in DOMAIN number \ {t} |-> number[u]]
        /\ UNCHANGED <<total, reported, timeline, peak, intervalPeak>>
    BY <1>5 DEF LI!WorkerEnd
  <2>2. t \in DOMAIN number /\ DOMAIN number' = DOMAIN number \ {t}
    BY <1>1, <2>1 DEF LI!Goes, InStage, Tracked
  <2>3. Cardinality(DOMAIN number') = Cardinality(DOMAIN number) - 1
    BY <1>1, <2>2, FS_RemoveElement
  <2>4. LI!CompletedIs(reported)'
    BY <1>1, <2>1 DEF TimelineKept, LI!CompletedIs
  <2>5. QED
    BY <1>1, <2>1, <2>3, <2>4 DEF TimelineKept
<1>6. ASSUME LI!Sample PROVE TimelineKept'
  <2> DEFINE new == [active |-> Cardinality(DOMAIN number), peak |-> intervalPeak, completed |-> completed - reported]
             n == Len(timeline)
  <2>1. /\ timeline' = Append(timeline, new) /\ reported' = completed
        /\ intervalPeak' = Cardinality(DOMAIN number) /\ UNCHANGED <<number, peak, total, completed>>
    BY <1>6, Counts DEF LI!Sample
  <2>2. /\ new \in Samples /\ new.active = Cardinality(DOMAIN number) /\ new.peak = intervalPeak
        /\ new.completed = completed - reported
    BY <1>1 DEF TimelineKept, NumbersKept
  <2> HIDE DEF new, Samples
  <2>3. /\ timeline' \in Seq(Samples) /\ Len(timeline') = n + 1 /\ n \in Nat
        /\ DOMAIN timeline = 1..n /\ DOMAIN timeline' = 1..(n + 1)
        /\ timeline'[n + 1] = new /\ \A i \in 1..n : timeline'[i] = timeline[i]
    BY <1>2, <2>1, <2>2
  <2> HIDE DEF n
  <2>4. LI!CompletedIs(reported)'
    <3>1. PICK sum \in [0..n -> 0..reported] :
            /\ sum[0] = 0 /\ sum[n] = reported
            /\ \A i \in DOMAIN timeline : sum[i] = sum[i - 1] + timeline[i].completed
      BY <1>1 DEF TimelineKept, LI!CompletedIs, n
    <3> DEFINE next == [i \in 0..(n + 1) |-> IF i = n + 1 THEN completed ELSE sum[i]]
    <3>2. completed \in Nat /\ reported \in Nat /\ reported <= completed
      BY <1>1 DEF TimelineKept
    <3>3. next \in [0..(n + 1) -> 0..completed]
      BY <2>3, <3>1, <3>2
    <3>4. next[0] = 0 /\ next[n + 1] = completed /\ \A i \in 0..n : next[i] = sum[i]
      BY <2>3, <3>1
    <3>5. \A i \in 1..(n + 1) : next[i] = next[i - 1] + timeline'[i].completed
      <4> SUFFICES ASSUME NEW i \in 1..(n + 1) PROVE next[i] = next[i - 1] + timeline'[i].completed
        OBVIOUS
      <4>1. CASE i = n + 1
        <5>1. next[i - 1] = reported /\ next[i] = completed /\ timeline'[i].completed = completed - reported
          BY <2>2, <2>3, <3>1, <3>4, <4>1
        <5> HIDE DEF next
        <5>2. QED
          BY <3>2, <5>1
      <4>2. CASE i # n + 1
        <5>1. i \in 1..n /\ i - 1 \in 0..n
          BY <2>3, <4>2
        <5> HIDE DEF next
        <5>2. QED
          BY <2>3, <3>1, <3>4, <5>1
      <4>3. QED
        BY <4>1, <4>2
    <3> HIDE DEF next
    <3>6. Len(timeline') = n + 1 /\ DOMAIN timeline' = 1..(n + 1) /\ reported' = completed
      BY <2>1, <2>3
    <3>7. QED
      BY ONLY <3>3, <3>4, <3>5, <3>6 DEF LI!CompletedIs
  <2>5. \A i \in 1..(n + 1) : /\ timeline'[i].peak >= timeline'[i].active
                              /\ i > 1 => timeline'[i].peak >= timeline'[i - 1].active
                              /\ peak >= timeline'[i].peak
    <3> SUFFICES ASSUME NEW i \in 1..(n + 1)
                 PROVE  /\ timeline'[i].peak >= timeline'[i].active
                        /\ i > 1 => timeline'[i].peak >= timeline'[i - 1].active
                        /\ peak >= timeline'[i].peak
      OBVIOUS
    <3>1. CASE i \in 1..n
      <4>1. timeline'[i] = timeline[i] /\ (i > 1 => timeline'[i - 1] = timeline[i - 1])
        BY <2>3, <3>1
      <4>2. QED
        BY <1>1, <2>3, <3>1, <4>1 DEF TimelineKept
    <3>2. CASE i = n + 1
      <4>1. timeline'[i] = new
        BY <2>3, <3>2
      <4>2. i > 1 => timeline'[i - 1] = timeline[n] /\ timeline # <<>>
        BY <1>2, <2>3, <3>2
      <4>3. intervalPeak >= Cardinality(DOMAIN number) /\ peak >= intervalPeak
        BY <1>1 DEF NumbersKept
      <4>4. i > 1 => intervalPeak >= timeline[n].active
        BY <1>1, <4>2 DEF TimelineKept, n
      <4>5. QED
        BY <2>2, <4>1, <4>2, <4>3, <4>4
    <3>3. QED
      BY <2>3, <3>1, <3>2
  <2>6. intervalPeak' >= timeline'[Len(timeline')].active
    BY <1>1, <2>1, <2>2, <2>3
  <2>7. total' \in Nat /\ completed' \in Nat /\ reported' \in Nat /\ reported' <= completed'
        /\ total' = completed' + Cardinality(DOMAIN number')
    BY <1>1, <2>1 DEF TimelineKept
  <2>8. QED
    BY <2>1, <2>3, <2>4, <2>5, <2>6, <2>7 DEF TimelineKept, Samples
<1>7. QED
  BY <1>3, <1>4, <1>5, <1>6 DEF LI!Next, LI!Accept, LI!StartFails, LI!RestartServer, LI!Fade, LI!LoadSettings,
     LI!StartThread, LI!Close, LI!ReadMessage, LI!Begin, LI!Admitted, LI!Rejected, LI!Register, LI!Unregister,
     LI!ReleaseSlot, listenerVars, LI!statisticVars

LEMMA ListenersKeep ==
  ASSUME ListenersInv, [LI!Next]_listenerVars
  PROVE  ListenersInv'
  BY TypedKeeps, PermitsKeep, WorkersKeep, NumbersKeep, TimelineKeeps DEF ListenersInv

-----------------------------------------------------------------------------
(* The parts together *)

PartsInv ==
    /\ part = "servers" => ServersInv
    /\ part = "updater" => UpdateInv
    /\ part = "listeners" => ListenersInv

LEMMA PartsStart == PartsInit => PartsInv
  BY ServersStart, UpdateStarts, ListenersStart DEF PartsInit, PartsInv

LEMMA PartsKeep == PartsInv /\ [PartsNext]_<<part, vars, serverVars, updateVars, listenerVars>> => PartsInv'
<1> SUFFICES ASSUME PartsInv, [PartsNext]_<<part, vars, serverVars, updateVars, listenerVars>> PROVE PartsInv'
  OBVIOUS
<1>1. part' = part
  BY DEF PartsNext
<1>2. ASSUME part = "servers" PROVE ServersInv'
  <2>1. ServersInv /\ [SV!Next]_serverVars
    BY <1>2 DEF PartsInv, PartsNext
  <2>2. QED
    BY <2>1, ServersKeep
<1>3. ASSUME part = "updater" PROVE UpdateInv'
  <2>1. UpdateInv /\ [UP!Next]_updateVars
    BY <1>3 DEF PartsInv, PartsNext
  <2>2. QED
    BY <2>1, UpdateKeeps
<1>4. ASSUME part = "listeners" PROVE ListenersInv'
  <2>1. ListenersInv /\ [LI!Next]_listenerVars
    BY <1>4 DEF PartsInv, PartsNext
  <2>2. QED
    BY <2>1, ListenersKeep
<1>5. QED
  BY <1>1, <1>2, <1>3, <1>4 DEF PartsInv

\* What the program shows of itself is true: the DNS servers and their status, the
\* commit it takes for the installed one, and the workers, permits and requests of
\* the listeners.
THEOREM StatusHonest == PartsSpec => []StatusIsHonest
<1>1. PartsInv => StatusIsHonest
  BY ServersAreListed, UpdateIsHonest, ListenersHold DEF PartsInv, StatusIsHonest
<1>2. QED
  BY <1>1, PartsStart, PartsKeep, PTL DEF PartsSpec
=============================================================================
