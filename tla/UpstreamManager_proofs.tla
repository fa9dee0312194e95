------------------------- MODULE UpstreamManager_proofs -------------------------
(***************************************************************************)
(* For every number of threads, objects, faults, requests and restarts,    *)
(* and every length of the backoffs: the type invariant of UpstreamManager,*)
(* that every copy of the record is consistent, that probes exclude each   *)
(* other, and that a probe alone moves the file as the circuit breaker     *)
(* does.                                                                   *)
(*                                                                         *)
(* The first two are proved together: an operation keeps the type of a     *)
(* record only because the record is sound, and every operation on a sound *)
(* record gives one.  The strengthening they need is that a thread that    *)
(* saves a record holds one.                                               *)
(***************************************************************************)
EXTENDS UpstreamManager, TLAPS

-----------------------------------------------------------------------------
(* Every operation on a health record keeps it consistent, for every length of
   the backoffs. *)

Sound(h) ==
    /\ h \in Health
    /\ PausedIsOpen(h) /\ ManualIsPaused(h)
    /\ AutoPauseEnds(h)

(* The values the operations write are of the types of their fields. *)
LEMMA Values ==
    /\ "" \in Reasons /\ "health_backoff" \in Reasons /\ "manual" \in Reasons
    /\ "closed" \in Circuits /\ "open" \in Circuits /\ "half_open" \in Circuits
    /\ 0 \in 0..ManyFailures /\ 0 \in 0..4 /\ NoBackoff \in Int
    /\ 0 \in 0..StaleAfter /\ StaleAfter \in 0..StaleAfter
BY StaleAfterAssumption DEF Reasons, Circuits, ManyFailures, NoBackoff

(* A record that was never used is sound. *)
LEMMA NewIsSound == Sound(NewHealth)
<1>1. NewHealth \in Health
  BY Values DEF Health, NewHealth
<1> QED
  BY <1>1 DEF Sound, NewHealth, PausedIsOpen, ManualIsPaused, AutoPauseEnds

(* A record that is paused automatically, with the end its level asks for, is
   sound. *)
LEMMA PausedIsSound ==
    ASSUME NEW h, Sound(h), NEW level \in 1..4, NEW n \in 0..ManyFailures
    PROVE  Sound([h EXCEPT !.failures = n, !.level = level,
                           !.left = Backoff[level], !.paused = TRUE,
                           !.reason = "health_backoff", !.circuit = "open"])
<1> DEFINE g == [h EXCEPT !.failures = n, !.level = level,
                          !.left = Backoff[level], !.paused = TRUE,
                          !.reason = "health_backoff", !.circuit = "open"]
<1>1. Backoff[level] \in Nat
  BY BackoffAssumption
<1>2. g \in Health
  <2>1. level \in 0..4 /\ Backoff[level] \in Int
    BY <1>1
  <2> QED BY <2>1, Values DEF Sound, Health
<1>3. /\ g.circuit = "open" /\ g.paused = TRUE
      /\ g.level = level /\ g.left = Backoff[level]
  BY DEF Sound, Health
<1> HIDE DEF g
<1>4. PausedIsOpen(g) /\ ManualIsPaused(g)
  BY <1>3 DEF PausedIsOpen, ManualIsPaused
<1>5. AutoPauseEnds(g)
  BY <1>1, <1>3 DEF AutoPauseEnds
<1>6. Sound(g)
  BY <1>2, <1>4, <1>5 DEF Sound
<1> QED BY <1>6 DEF g

(* update_health, after a success *)
LEMMA SuccessIsSound == ASSUME NEW h, Sound(h) PROVE Sound(ReportSuccess(h))
<1>1. ReportSuccess(h) \in Health
  BY Values DEF Sound, Health, ReportSuccess
<1>2. PausedIsOpen(ReportSuccess(h)) /\ ManualIsPaused(ReportSuccess(h))
  BY DEF Sound, Health, ReportSuccess, PausedIsOpen, ManualIsPaused
<1>3. AutoPauseEnds(ReportSuccess(h))
  BY DEF Sound, Health, ReportSuccess, ManuallyPaused, AutoPauseEnds
<1> QED BY <1>1, <1>2, <1>3 DEF Sound

(* update_health, after a failure *)
LEMMA FailureIsSound == ASSUME NEW h, Sound(h) PROVE Sound(ReportFailure(h))
<1> DEFINE n == IF h.failures < ManyFailures THEN h.failures + 1
                                             ELSE ManyFailures
           level == LevelOf(n, h.level)
<1>1. n \in 0..ManyFailures
  BY DEF Sound, Health, ManyFailures
<1>2. level \in 0..4
  BY <1>1 DEF Sound, Health, LevelOf
<1>3. /\ ManuallyPaused(h) =>
            ReportFailure(h) = [h EXCEPT !.failures = n]
      /\ ~ManuallyPaused(h) /\ level > 0 =>
            ReportFailure(h) =
              [h EXCEPT !.failures = n, !.level = level,
                        !.left = Backoff[level], !.paused = TRUE,
                        !.reason = IF h.reason = "manual" THEN h.reason
                                   ELSE "health_backoff",
                        !.circuit = "open"]
      /\ ~ManuallyPaused(h) /\ ~(level > 0) =>
            ReportFailure(h) = [h EXCEPT !.failures = n, !.level = level,
                                         !.left = NoBackoff, !.paused = FALSE]
  BY DEF ReportFailure
<1> HIDE DEF level, n
<1>4. CASE ManuallyPaused(h)
  <2> DEFINE g == [h EXCEPT !.failures = n]
  <2>1. g \in Health
    BY <1>1 DEF Sound, Health
  <2>2. PausedIsOpen(g) /\ ManualIsPaused(g) /\ AutoPauseEnds(g)
    BY DEF Sound, Health, PausedIsOpen, ManualIsPaused, AutoPauseEnds
  <2> QED BY <1>3, <1>4, <2>1, <2>2 DEF Sound
<1>5. CASE ~ManuallyPaused(h) /\ level > 0
  <2>1. h.reason # "manual"
    BY <1>5 DEF Sound, ManuallyPaused, ManualIsPaused
  <2>2. level \in 1..4
    BY <1>2, <1>5
  <2>3. ReportFailure(h) =
          [h EXCEPT !.failures = n, !.level = level,
                    !.left = Backoff[level], !.paused = TRUE,
                    !.reason = "health_backoff", !.circuit = "open"]
    BY <1>3, <1>5, <2>1
  <2>4. Sound([h EXCEPT !.failures = n, !.level = level,
                        !.left = Backoff[level], !.paused = TRUE,
                        !.reason = "health_backoff", !.circuit = "open"])
    BY <1>1, <2>2, PausedIsSound, Zenon
  <2> QED BY <2>3, <2>4
<1>6. CASE ~ManuallyPaused(h) /\ ~(level > 0)
  <2> DEFINE g == [h EXCEPT !.failures = n, !.level = level,
                            !.left = NoBackoff, !.paused = FALSE]
  <2>1. g \in Health
    BY <1>1, <1>2, Values DEF Sound, Health
  <2>2. h.reason # "manual"
    BY <1>6 DEF Sound, ManuallyPaused, ManualIsPaused
  <2>3. PausedIsOpen(g) /\ ManualIsPaused(g) /\ AutoPauseEnds(g)
    BY <2>2 DEF Sound, Health, PausedIsOpen, ManualIsPaused, AutoPauseEnds
  <2>4. ReportFailure(h) = g
    BY <1>3, <1>6
  <2> HIDE DEF g
  <2> QED BY <2>1, <2>3, <2>4 DEF Sound
<1> QED BY <1>4, <1>5, <1>6

(* update_health keeps a record sound. *)
LEMMA ReportIsSound ==
    ASSUME NEW h, Sound(h), NEW success \in BOOLEAN
    PROVE  Sound(Report(h, success))
BY SuccessIsSound, FailureIsSound DEF Report

(* finish_probe, after a probe that failed *)
LEMMA ProbeFailedIsSound == ASSUME NEW h, Sound(h) PROVE Sound(ProbeFailed(h))
<1> DEFINE level == IF h.level < 4 THEN h.level + 1 ELSE 4
           g == [h EXCEPT !.failures = h.failures, !.level = level,
                          !.left = Backoff[level], !.paused = TRUE,
                          !.reason = "health_backoff", !.circuit = "open"]
<1>1. level \in 1..4
  BY DEF Sound, Health
<1>2. h.failures \in 0..ManyFailures
  BY DEF Sound, Health
<1>3. Sound(g)
  <2> HIDE DEF level
  <2> QED BY <1>1, <1>2, PausedIsSound
<1>4. ProbeFailed(h) = [g EXCEPT !.inFlight = FALSE]
  <2>1. ProbeFailed(h) =
          [h EXCEPT !.circuit = "open", !.paused = TRUE,
                    !.reason = "health_backoff", !.inFlight = FALSE,
                    !.level = level, !.left = Backoff[level]]
    BY DEF ProbeFailed
  <2> HIDE DEF level
  <2> QED BY <2>1 DEF Sound, Health
<1> HIDE DEF g
<1>5. ProbeFailed(h) \in Health
  BY <1>3, <1>4 DEF Sound, Health
<1>6. PausedIsOpen(ProbeFailed(h)) /\ ManualIsPaused(ProbeFailed(h))
  BY <1>3, <1>4 DEF Sound, Health, PausedIsOpen, ManualIsPaused
<1>7. AutoPauseEnds(ProbeFailed(h))
  BY <1>3, <1>4 DEF Sound, Health, AutoPauseEnds
<1> QED BY <1>5, <1>6, <1>7 DEF Sound

(* finish_probe keeps a record sound. *)
LEMMA FinishIsSound ==
    ASSUME NEW h, Sound(h), NEW success \in BOOLEAN
    PROVE  Sound(Finish(h, success))
<1>1. ProbeSucceeded(h) \in Health
  BY Values DEF Sound, Health, ProbeSucceeded
<1>2. PausedIsOpen(ProbeSucceeded(h)) /\ ManualIsPaused(ProbeSucceeded(h))
  BY DEF Sound, Health, ProbeSucceeded, PausedIsOpen, ManualIsPaused
<1>3. AutoPauseEnds(ProbeSucceeded(h))
  BY DEF Sound, Health, ProbeSucceeded, AutoPauseEnds
<1> QED BY <1>1, <1>2, <1>3, ProbeFailedIsSound DEF Finish, Sound

(* The end of a backoff, the mark of a probe, the web interface's pause and
   reset, and the passing of time keep a record sound. *)
LEMMA RefreshIsSound == ASSUME NEW h, Sound(h) PROVE Sound(Refresh(h))
<1>1. Refresh(h) \in Health
  BY Values DEF Sound, Health, Refresh
<1>2. PausedIsOpen(Refresh(h)) /\ ManualIsPaused(Refresh(h))
  BY DEF Sound, Health, Refresh, BackoffExpired, PausedIsOpen, ManualIsPaused
<1>3. AutoPauseEnds(Refresh(h))
  BY DEF Sound, Health, Refresh, AutoPauseEnds
<1> QED BY <1>1, <1>2, <1>3 DEF Sound

LEMMA MarkIsSound == ASSUME NEW h, Sound(h) PROVE Sound(MarkProbe(h))
<1>1. MarkProbe(h) \in Health
  BY Values DEF Sound, Health, MarkProbe
<1>2. PausedIsOpen(MarkProbe(h)) /\ ManualIsPaused(MarkProbe(h))
  BY DEF Sound, Health, MarkProbe, PausedIsOpen, ManualIsPaused
<1>3. AutoPauseEnds(MarkProbe(h))
  BY DEF Sound, Health, MarkProbe, AutoPauseEnds
<1> QED BY <1>1, <1>2, <1>3 DEF Sound

LEMMA PauseIsSound ==
    ASSUME NEW h, Sound(h), NEW paused \in BOOLEAN
    PROVE  Sound(SetPaused(h, paused))
<1>1. SetPaused(h, paused) \in Health
  BY Values DEF Sound, Health, SetPaused
<1>2. PausedIsOpen(SetPaused(h, paused)) /\ ManualIsPaused(SetPaused(h, paused))
  BY DEF Sound, Health, SetPaused, PausedIsOpen, ManualIsPaused
<1>3. AutoPauseEnds(SetPaused(h, paused))
  BY DEF Sound, Health, SetPaused, AutoPauseEnds
<1> QED BY <1>1, <1>2, <1>3 DEF Sound

LEMMA ResetIsSound == ASSUME NEW h, Sound(h) PROVE Sound(Reset(h))
<1>1. Reset(h) \in Health
  BY Values DEF Sound, Health, Reset
<1>2. PausedIsOpen(Reset(h)) /\ ManualIsPaused(Reset(h))
  BY DEF Sound, Health, Reset, PausedIsOpen, ManualIsPaused
<1>3. AutoPauseEnds(Reset(h))
  BY DEF Sound, Health, Reset, AutoPauseEnds
<1> QED BY <1>1, <1>2, <1>3 DEF Sound

LEMMA OlderIsSound == ASSUME NEW h, Sound(h) PROVE Sound(Older(h))
<1> DEFINE left == IF h.left > 0 THEN h.left - 1 ELSE h.left
           fresh == IF h.fresh > 0 THEN h.fresh - 1 ELSE h.fresh
<1>1. left \in Int /\ fresh \in 0..StaleAfter
  BY StaleAfterAssumption DEF Sound, Health
<1>2. Older(h) = [h EXCEPT !.left = left, !.fresh = fresh]
  BY DEF Older
<1>3. AutoPauseEnds(Older(h))
  BY BackoffAssumption DEF Sound, Health, Older, AutoPauseEnds
<1> HIDE DEF left, fresh
<1>4. Older(h) \in Health
  BY <1>1, <1>2 DEF Sound, Health
<1>5. PausedIsOpen(Older(h)) /\ ManualIsPaused(Older(h))
  BY <1>2 DEF Sound, Health, PausedIsOpen, ManualIsPaused
<1> QED BY <1>3, <1>4, <1>5 DEF Sound

-----------------------------------------------------------------------------
(* What holds of the records, the threads and the rest *)

SoundHealth == {h \in Health : Sound(h)}
SoundFile == [enabled: BOOLEAN, health: SoundHealth]
SoundContent == SoundFile \cup {Empty, Torn}
Continuations == {"idle", "report", "begin", "probe"}
Holding == {"open", "write", "replace", "publish", "complete"}

RecordsInv ==
    /\ disk \in SoundContent \cup {None}
    /\ tmp \in SoundContent \cup {None}
    /\ heap \in [Obj -> SoundHealth]

ThreadsInv ==
    /\ pc \in [Threads -> Places]
    /\ after \in [Threads -> Continuations]
    /\ data \in [Threads -> Dict \cup {None}]
    /\ \A t \in Threads : pc[t] \in Holding => data[t] # None

RestInv ==
    /\ cache \in Dict \cup {None}
    /\ probeLock \in BOOLEAN
    /\ cacheLock \in Threads \cup {None}
    /\ handle \in [Threads -> {"tmp", "disk", "gone"}]
    /\ flag \in [Threads -> BOOLEAN]
    /\ faults \in 0..MaxFaults
    /\ admin \in 0..MaxAdmin
    /\ restarts \in 0..MaxRestart

IInv == RecordsInv /\ ThreadsInv /\ RestInv

-----------------------------------------------------------------------------
(* What the helpers of the actions give. *)

(* The operations of UpstreamHealth, as functions on the sound records. *)
LEMMA Operations ==
    ASSUME NEW h \in SoundHealth
    PROVE  /\ \A b \in BOOLEAN : Report(h, b) \in SoundHealth
           /\ \A b \in BOOLEAN : Finish(h, b) \in SoundHealth
           /\ \A b \in BOOLEAN : SetPaused(h, b) \in SoundHealth
           /\ Refresh(h) \in SoundHealth
           /\ MarkProbe(h) \in SoundHealth
           /\ Reset(h) \in SoundHealth
           /\ Older(h) \in SoundHealth
<1>1. Sound(h)
  BY DEF SoundHealth
<1>2. /\ \A b \in BOOLEAN : Sound(Report(h, b))
      /\ \A b \in BOOLEAN : Sound(Finish(h, b))
      /\ \A b \in BOOLEAN : Sound(SetPaused(h, b))
  BY <1>1, ReportIsSound, FinishIsSound, PauseIsSound
<1>3. /\ Sound(Refresh(h)) /\ Sound(MarkProbe(h))
      /\ Sound(Reset(h)) /\ Sound(Older(h))
  BY <1>1, RefreshIsSound, MarkIsSound, ResetIsSound, OlderIsSound
<1>4. \A g : Sound(g) => g \in SoundHealth
  BY DEF SoundHealth, Sound
<1> QED BY <1>2, <1>3, <1>4

(* A record that was never used, and one the process starts with. *)
LEMMA StartHealthsAreSound ==
    NewHealth \in SoundHealth /\ StartHealths \subseteq SoundHealth
<1>1. NewHealth \in SoundHealth
  BY NewIsSound DEF SoundHealth, Sound
<1>2. ASSUME NEW n \in Streaks PROVE Sound(Failed(n))
  <2>1. n \in 0..9 /\ n \in 0..ManyFailures
    BY StreaksAssumption DEF ManyFailures
  <2>2. CASE n < 4
    <3>1. Failed(n) = [NewHealth EXCEPT !.failures = n]
      BY <2>1, <2>2 DEF Failed
    <3> DEFINE g == [NewHealth EXCEPT !.failures = n]
    <3>2. g \in Health
      BY <2>1, NewIsSound DEF Sound, Health
    <3>3. PausedIsOpen(g) /\ ManualIsPaused(g) /\ AutoPauseEnds(g)
      BY DEF NewHealth, PausedIsOpen, ManualIsPaused, AutoPauseEnds
    <3> HIDE DEF g
    <3>4. Sound(g)
      BY <3>2, <3>3 DEF Sound
    <3> QED BY <3>1, <3>4 DEF g
  <2>3. CASE ~(n < 4)
    <3> DEFINE level == IF n < 7 THEN 2 ELSE 3
    <3>1. level \in 1..4
      OBVIOUS
    <3>2. Failed(n) =
            [NewHealth EXCEPT !.failures = n, !.paused = TRUE,
                              !.reason = "health_backoff", !.circuit = "open",
                              !.level = level, !.left = Backoff[level]]
      BY <2>1, <2>3 DEF Failed
    <3> HIDE DEF level
    <3>3. Sound([NewHealth EXCEPT !.failures = n, !.level = level,
                                  !.left = Backoff[level], !.paused = TRUE,
                                  !.reason = "health_backoff",
                                  !.circuit = "open"])
      BY <2>1, <3>1, NewIsSound, PausedIsSound, Zenon
    <3>4. Failed(n) =
            [NewHealth EXCEPT !.failures = n, !.level = level,
                              !.left = Backoff[level], !.paused = TRUE,
                              !.reason = "health_backoff", !.circuit = "open"]
      BY <3>2 DEF NewHealth
    <3> QED BY <3>3, <3>4
  <2> QED BY <2>2, <2>3
<1>3. StartHealths \subseteq SoundHealth
  BY <1>2 DEF StartHealths, SoundHealth, Sound
<1> QED BY <1>1, <1>3

(* A content that can be loaded is a sound record. *)
LEMMA ReadableIsSound ==
    ASSUME NEW f \in SoundContent \cup {None}
    PROVE  f \in File <=> f \in SoundFile
<1>1. None \notin File /\ Empty \notin File /\ Torn \notin File
  BY NoneAssumption, ContentAssumption DEF Content
<1>2. SoundFile \subseteq File
  BY DEF SoundFile, File, SoundHealth
<1> QED BY <1>1, <1>2 DEF SoundContent

(* A loaded record is a handle on an object that is free, and sound. *)
LEMMA LoadedIsSound ==
    ASSUME IInv, Loadable
    PROVE  Loaded \in Dict /\ Fresh \in Obj /\ disk.health \in SoundHealth
<1>1. Fresh \in Free
  BY DEF Loadable, Fresh
<1>2. disk \in SoundFile
  BY ReadableIsSound DEF IInv, RecordsInv, Loadable, Readable
<1> QED BY <1>1, <1>2 DEF Free, Loaded, Dict, SoundFile

(* So is what get() returns. *)
LEMMA GotIsSound ==
    ASSUME IInv, Gettable
    PROVE  Got \in Dict /\ GotHealth \in SoundHealth
<1>1. CASE cache # None
  BY <1>1 DEF IInv, RestInv, RecordsInv, Got, GotHealth, Dict
<1>2. CASE cache = None
  BY <1>2, LoadedIsSound DEF Gettable, Got, GotHealth
<1> QED BY <1>1, <1>2

(* Saving a sound record keeps the objects and the threads in order. *)
LEMMA SaveKeeps ==
    ASSUME IInv, NEW t \in Threads, NEW dict \in Dict, NEW h \in SoundHealth,
           NEW c \in Continuations, Save(t, dict, h, c)
    PROVE  heap' \in [Obj -> SoundHealth] /\ ThreadsInv'
<1>1. heap' \in [Obj -> SoundHealth]
  BY DEF Save, IInv, RecordsInv
<1>2. dict # None
  BY NoneAssumption
<1>3. /\ pc' = [pc EXCEPT ![t] = "open"]
      /\ after' = [after EXCEPT ![t] = c]
      /\ data' = [data EXCEPT ![t] = dict]
  BY DEF Save, Goto
<1>4. pc' \in [Threads -> Places] /\ after' \in [Threads -> Continuations]
      /\ data' \in [Threads -> Dict \cup {None}]
  BY <1>3 DEF IInv, ThreadsInv, Places
<1>5. ASSUME NEW u \in Threads, pc'[u] \in Holding PROVE data'[u] # None
  BY <1>2, <1>3, <1>5 DEF IInv, ThreadsInv
<1> QED BY <1>1, <1>4, <1>5 DEF ThreadsInv

(* Leaving for a place where no record is held keeps the threads in order. *)
LEMMA GotoKeeps ==
    ASSUME IInv, NEW t \in Threads, NEW place \in Places \ Holding,
           Goto(t, place), UNCHANGED <<after, data>>
    PROVE  ThreadsInv'
BY DEF Goto, IInv, ThreadsInv

(* Collecting garbage keeps the objects sound. *)
LEMMA ReclaimKeeps ==
    ASSUME IInv, Reclaim(heap)
    PROVE  heap' \in [Obj -> SoundHealth]
BY StartHealthsAreSound DEF Reclaim, IInv, RecordsInv

-----------------------------------------------------------------------------
(* The inductive invariant *)

(* Every initial state satisfies it. *)
LEMMA InitIInv == Init => IInv
<1> SUFFICES ASSUME Init PROVE IInv
  OBVIOUS
<1>1. PICK o \in Obj :
        /\ cache = [enabled |-> TRUE, ref |-> o]
        /\ heap = [x \in Obj |-> IF x = o THEN disk.health ELSE NewHealth]
  BY DEF Init
<1>2. disk \in SoundFile
  BY StartHealthsAreSound DEF Init, SoundFile
<1>3. RecordsInv
  BY <1>1, <1>2, StartHealthsAreSound DEF Init, RecordsInv, SoundContent, SoundFile
<1>4. ThreadsInv
  BY DEF Init, ThreadsInv, Places, Continuations, Holding
<1>5. RestInv
  <2>1. cache \in Dict
    BY <1>1 DEF Dict
  <2>2. flag \in [Threads -> BOOLEAN]
    BY DEF Init
  <2>3. /\ faults \in 0..MaxFaults /\ admin \in 0..MaxAdmin
        /\ restarts \in 0..MaxRestart
    BY BoundsAssumption DEF Init
  <2> QED BY <2>1, <2>2, <2>3 DEF Init, RestInv
<1> QED BY <1>3, <1>4, <1>5 DEF IInv

(* The steps of saving a record *)
LEMMA SavingKeeps ==
    ASSUME IInv, NEW t \in Threads,
           OpenTmp(t) \/ WriteTmp(t) \/ Replace(t) \/ ReplaceFails(t) \/ Publish(t)
    PROVE  IInv'
<1>0. CASE OpenTmp(t)
  <2>1. RecordsInv'
    BY <1>0 DEF OpenTmp, IInv, RecordsInv, SoundContent
  <2>2. ThreadsInv'
    BY <1>0 DEF OpenTmp, Goto, IInv, ThreadsInv, Places, Holding
  <2>3. handle' \in [Threads -> {"tmp", "disk", "gone"}]
    BY <1>0 DEF OpenTmp, IInv, RestInv
  <2> QED BY <1>0, <2>1, <2>2, <2>3 DEF OpenTmp, IInv, RestInv
<1>1. CASE WriteTmp(t)
  <2> DEFINE record == [enabled |-> data[t].enabled, health |-> heap[data[t].ref]]
  <2>1. data[t] \in Dict
    BY <1>1 DEF WriteTmp, IInv, ThreadsInv, Holding
  <2>2. record \in SoundFile
    BY <2>1 DEF IInv, RecordsInv, SoundFile, Dict
  <2>3. \A content : Overwritten(content, record) \subseteq SoundContent
    BY <2>2 DEF Overwritten, SoundContent
  <2>4. heap' = heap /\ \/ tmp' \in Overwritten(tmp, record) /\ disk' = disk
                        \/ disk' \in Overwritten(disk, record) /\ tmp' = tmp
                        \/ disk' = disk /\ tmp' = tmp
    BY <1>1 DEF WriteTmp
  <2> HIDE DEF record
  <2>5. RecordsInv'
    BY <2>3, <2>4 DEF IInv, RecordsInv
  <2>6. ThreadsInv'
    BY <1>1 DEF WriteTmp, Goto, IInv, ThreadsInv, Places, Holding
  <2>7. handle' \in [Threads -> {"tmp", "disk", "gone"}]
    BY <1>1 DEF WriteTmp, IInv, RestInv
  <2> QED BY <1>1, <2>5, <2>6, <2>7 DEF WriteTmp, IInv, RestInv
<1>2. CASE Replace(t)
  <2>1. RecordsInv'
    BY <1>2 DEF Replace, IInv, RecordsInv
  <2>2. ThreadsInv'
    BY <1>2 DEF Replace, Goto, IInv, ThreadsInv, Places, Holding
  <2>3. handle' \in [Threads -> {"tmp", "disk", "gone"}]
    BY <1>2 DEF Replace
  <2> QED BY <1>2, <2>1, <2>2, <2>3 DEF Replace, IInv, RestInv
<1>3. CASE ReplaceFails(t)
  <2>1. RecordsInv'
    BY <1>3, ReclaimKeeps DEF ReplaceFails, IInv, RecordsInv
  <2>2. ThreadsInv'
    BY <1>3 DEF ReplaceFails, Goto, IInv, ThreadsInv, Places, Holding
  <2> QED BY <1>3, <2>1, <2>2 DEF ReplaceFails, IInv, RestInv
<1>4. CASE Publish(t)
  <2>1. data[t] \in Dict
    BY <1>4 DEF Publish, IInv, ThreadsInv, Holding
  <2>2. RecordsInv'
    BY <1>4, ReclaimKeeps DEF Publish, IInv, RecordsInv
  <2>3. after[t] \in Places \ Holding
    BY DEF IInv, ThreadsInv, Continuations, Places, Holding
  <2>4. ThreadsInv'
    BY <1>4, <2>3
       DEF Publish, Goto, IInv, ThreadsInv, Continuations
  <2> QED BY <1>4, <2>1, <2>2, <2>4 DEF Publish, IInv, RestInv
<1> QED BY <1>0, <1>1, <1>2, <1>3, <1>4

(* The steps of a query *)
LEMMA QueryKeeps ==
    ASSUME IInv, NEW t \in Threads,
           \/ SelectExpired(t) \/ Select(t) \/ Check(t) \/ Answer(t)
           \/ UpdateLatency(t) \/ UpdateHealth(t)
    PROVE  IInv'
<1>0. /\ {"idle", "report"} \subseteq Continuations
      /\ {"idle", "asked", "latency", "report"} \subseteq Places \ Holding
  BY DEF Continuations, Places, Holding
<1>1. CASE SelectExpired(t)
  <2>1. cache \in Dict
    BY <1>1 DEF SelectExpired, IInv, RestInv
  <2>2. heap[cache.ref] \in SoundHealth
    BY <2>1 DEF IInv, RecordsInv, Dict
  <2>3. heap' \in [Obj -> SoundHealth] /\ ThreadsInv'
    BY <1>0, <1>1, <2>1, <2>2, Operations, SaveKeeps DEF SelectExpired
  <2> QED BY <1>1, <2>3 DEF SelectExpired, IInv, RecordsInv, RestInv
<1>2. CASE Select(t) \/ Check(t)
  <2>1. ThreadsInv'
    BY <1>0, <1>2, GotoKeeps DEF Select, Check
  <2> QED BY <1>2, <2>1 DEF Select, Check, IInv, RecordsInv, RestInv
<1>3. CASE Answer(t)
  <2>1. ThreadsInv'
    BY <1>0, <1>3, GotoKeeps DEF Answer
  <2>2. flag' \in [Threads -> BOOLEAN] /\ faults' \in 0..MaxFaults
    BY <1>3, BoundsAssumption DEF Answer, Query, IInv, RestInv
  <2> QED BY <1>3, <2>1, <2>2 DEF Answer, IInv, RecordsInv, RestInv
<1>4. CASE UpdateLatency(t)
  <2>1. CASE SaveLoaded(t, disk.health, "report")
    <3>1. heap' \in [Obj -> SoundHealth] /\ ThreadsInv'
      BY <1>0, <2>1, LoadedIsSound, SaveKeeps DEF SaveLoaded
    <3> QED BY <1>4, <3>1 DEF UpdateLatency, IInv, RecordsInv, RestInv
  <2>2. CASE Goto(t, "report") /\ UNCHANGED <<heap, after, data>>
    <3>1. ThreadsInv'
      BY <1>0, <2>2, GotoKeeps
    <3> QED BY <1>4, <2>2, <3>1 DEF UpdateLatency, IInv, RecordsInv, RestInv
  <2> QED BY <1>4, <2>1, <2>2 DEF UpdateLatency
<1>5. CASE UpdateHealth(t)
  <2>1. CASE SaveLoaded(t, Report(disk.health, flag[t]), "idle")
    <3>1. flag[t] \in BOOLEAN
      BY DEF IInv, RestInv
    <3>2. Report(disk.health, flag[t]) \in SoundHealth
      BY <2>1, <3>1, LoadedIsSound, Operations DEF SaveLoaded
    <3>3. heap' \in [Obj -> SoundHealth] /\ ThreadsInv'
      BY <1>0, <2>1, <3>2, LoadedIsSound, SaveKeeps DEF SaveLoaded
    <3> QED BY <1>5, <3>3 DEF UpdateHealth, IInv, RecordsInv, RestInv
  <2>2. CASE Goto(t, "idle") /\ UNCHANGED <<heap, after, data>>
    <3>1. ThreadsInv'
      BY <1>0, <2>2, GotoKeeps
    <3> QED BY <1>5, <2>2, <3>1 DEF UpdateHealth, IInv, RecordsInv, RestInv
  <2> QED BY <1>5, <2>1, <2>2 DEF UpdateHealth
<1> QED BY <1>1, <1>2, <1>3, <1>4, <1>5

(* The steps of a recovery probe *)
LEMMA ProbeKeeps ==
    ASSUME IInv, NEW t \in Threads,
           \/ Scan(t) \/ RefreshProbe(t) \/ BeginProbe(t) \/ MarkInFlight(t)
           \/ ExecuteProbe(t) \/ FinishProbe(t) \/ CompleteProbe(t)
    PROVE  IInv'
<1>0. /\ {"idle", "begin", "probe"} \subseteq Continuations
      /\ {"idle", "refresh", "begin", "mark", "probe", "finish"}
           \subseteq Places \ Holding
  BY DEF Continuations, Places, Holding
<1>1. CASE Scan(t)
  <2>1. ThreadsInv'
    BY <1>0, <1>1, GotoKeeps DEF Scan
  <2> QED BY <1>1, <2>1 DEF Scan, IInv, RecordsInv, RestInv
<1>2. CASE RefreshProbe(t)
  <2>1. CASE Gettable /\ Save(t, Got, Refresh(GotHealth), "begin")
    <3>1. heap' \in [Obj -> SoundHealth] /\ ThreadsInv'
      BY <1>0, <2>1, GotIsSound, Operations, SaveKeeps
    <3> QED BY <1>2, <3>1 DEF RefreshProbe, IInv, RecordsInv, RestInv
  <2>2. CASE /\ Goto(t, "begin") \/ Goto(t, "idle")
             /\ UNCHANGED <<heap, after, data>>
    <3>1. ThreadsInv'
      BY <1>0, <2>2, GotoKeeps
    <3> QED BY <1>2, <2>2, <3>1 DEF RefreshProbe, IInv, RecordsInv, RestInv
  <2> QED BY <1>2, <2>1, <2>2 DEF RefreshProbe
<1>3. CASE BeginProbe(t)
  <2>1. /\ Goto(t, "mark") \/ Goto(t, "idle")
        /\ probeLock' \in BOOLEAN
    BY <1>3 DEF BeginProbe, IInv, RestInv
  <2>2. ThreadsInv'
    BY <1>0, <1>3, <2>1, GotoKeeps DEF BeginProbe
  <2> QED BY <1>3, <2>1, <2>2 DEF BeginProbe, IInv, RecordsInv, RestInv
<1>4. CASE MarkInFlight(t)
  <2>1. CASE MayProbe /\ Save(t, Got, MarkProbe(GotHealth), "probe")
    <3>1. heap' \in [Obj -> SoundHealth] /\ ThreadsInv'
      BY <1>0, <2>1, GotIsSound, Operations, SaveKeeps DEF MayProbe
    <3> QED BY <1>4, <3>1 DEF MarkInFlight, IInv, RecordsInv, RestInv
  <2>2. CASE Goto(t, "idle") /\ UNCHANGED <<heap, after, data>>
    <3>1. ThreadsInv'
      BY <1>0, <2>2, GotoKeeps
    <3> QED BY <1>4, <2>2, <3>1 DEF MarkInFlight, IInv, RecordsInv, RestInv
  <2> QED BY <1>4, <2>1, <2>2 DEF MarkInFlight
<1>5. CASE ExecuteProbe(t)
  <2>1. ThreadsInv'
    BY <1>0, <1>5, GotoKeeps DEF ExecuteProbe
  <2>2. flag' \in [Threads -> BOOLEAN] /\ faults' \in 0..MaxFaults
    BY <1>5, BoundsAssumption DEF ExecuteProbe, Query, IInv, RestInv
  <2> QED BY <1>5, <2>1, <2>2 DEF ExecuteProbe, IInv, RecordsInv, RestInv
<1>6. CASE FinishProbe(t)
  <2>1. CASE /\ Gettable /\ Goto(t, "complete")
             /\ data' = [data EXCEPT ![t] = Got]
             /\ heap' = [heap EXCEPT ![Got.ref] = GotHealth]
    <3>1. Got \in Dict /\ GotHealth \in SoundHealth /\ Got # None
      BY <2>1, GotIsSound, NoneAssumption
    <3>2. heap' \in [Obj -> SoundHealth]
      BY <2>1, <3>1 DEF IInv, RecordsInv
    <3>3. ThreadsInv'
      BY <1>6, <2>1, <3>1
         DEF FinishProbe, Goto, IInv, ThreadsInv, Places, Holding
    <3> QED
      BY <1>6, <3>2, <3>3 DEF FinishProbe, IInv, RecordsInv, RestInv
  <2>2. CASE Goto(t, "idle") /\ UNCHANGED <<heap, data, probeLock>>
    <3>1. ThreadsInv'
      BY <1>0, <1>6, <2>2, GotoKeeps DEF FinishProbe
    <3> QED
      BY <1>6, <2>2, <3>1 DEF FinishProbe, IInv, RecordsInv, RestInv
  <2> QED BY <1>6, <2>1, <2>2 DEF FinishProbe
<1>7. CASE CompleteProbe(t)
  <2>1. data[t] \in Dict
    BY <1>7 DEF CompleteProbe, IInv, ThreadsInv, Holding
  <2>2. heap[data[t].ref] \in SoundHealth /\ flag[t] \in BOOLEAN
    BY <2>1 DEF IInv, RecordsInv, RestInv, Dict
  <2>3. Finish(heap[data[t].ref], flag[t]) \in SoundHealth
    BY <2>2, Operations
  <2>4. heap' \in [Obj -> SoundHealth] /\ ThreadsInv'
    BY <1>0, <1>7, <2>1, <2>3, SaveKeeps DEF CompleteProbe
  <2> QED BY <1>7, <2>4 DEF CompleteProbe, IInv, RecordsInv, RestInv
<1> QED BY <1>1, <1>2, <1>3, <1>4, <1>5, <1>6, <1>7

(* The steps of the web interface *)
LEMMA AdminKeeps ==
    ASSUME IInv, NEW t \in Threads,
           \/ TogglePause(t) \/ SetHealthPaused(t) \/ SetEnabled(t)
           \/ ResetHealth(t) \/ DeleteFile(t) \/ RemoveFromCache(t)
           \/ Create(t)
    PROVE  IInv'
<1>0. /\ "idle" \in Continuations
      /\ {"idle", "pause", "forget"} \subseteq Places \ Holding
  BY DEF Continuations, Places, Holding
<1>a. Request(t) => admin' \in 0..MaxAdmin
  BY BoundsAssumption DEF Request, IInv, RestInv
<1>1. CASE TogglePause(t)
  <2>1. ThreadsInv'
    BY <1>0, <1>1, GotoKeeps DEF TogglePause
  <2>2. cache # None => heap[cache.ref] \in SoundHealth
    BY DEF IInv, RecordsInv, RestInv, Dict
  <2>3. cache = None => disk.health \in SoundHealth
    BY <1>1, ReadableIsSound DEF TogglePause, Readable, IInv, RecordsInv, SoundFile
  <2>4. \A h \in SoundHealth : h.paused \in BOOLEAN
    BY DEF SoundHealth, Health
  <2>5. flag' \in [Threads -> BOOLEAN]
    <3>1. /\ cache # None => (~heap[cache.ref].paused) \in BOOLEAN
          /\ cache = None => (~disk.health.paused) \in BOOLEAN
      <4>1. \A h \in SoundHealth : (~h.paused) \in BOOLEAN
        OBVIOUS
      <4> QED BY <2>2, <2>3, <4>1, Zenon
    <3> QED BY <1>1, <3>1 DEF TogglePause, IInv, RestInv
  <2> QED
    BY <1>1, <1>a, <2>1, <2>5 DEF TogglePause, IInv, RecordsInv, RestInv
<1>2. CASE SetHealthPaused(t)
  <2>1. CASE SaveLoaded(t, SetPaused(disk.health, flag[t]), "idle")
    <3>1. flag[t] \in BOOLEAN
      BY DEF IInv, RestInv
    <3>2. SetPaused(disk.health, flag[t]) \in SoundHealth
      BY <2>1, <3>1, LoadedIsSound, Operations DEF SaveLoaded
    <3>3. heap' \in [Obj -> SoundHealth] /\ ThreadsInv'
      BY <1>0, <2>1, <3>2, LoadedIsSound, SaveKeeps DEF SaveLoaded
    <3> QED BY <1>2, <3>3 DEF SetHealthPaused, IInv, RecordsInv, RestInv
  <2>2. CASE Goto(t, "idle") /\ UNCHANGED <<heap, after, data>>
    <3>1. ThreadsInv'
      BY <1>0, <2>2, GotoKeeps
    <3> QED BY <1>2, <2>2, <3>1 DEF SetHealthPaused, IInv, RecordsInv, RestInv
  <2> QED BY <1>2, <2>1, <2>2 DEF SetHealthPaused
<1>3. CASE SetEnabled(t)
  <2>1. PICK enabled \in BOOLEAN :
          Save(t, [Loaded EXCEPT !.enabled = enabled], disk.health, "idle")
    BY <1>3 DEF SetEnabled
  <2>2. Loaded \in Dict /\ disk.health \in SoundHealth
    BY <1>3, LoadedIsSound DEF SetEnabled
  <2>3. [Loaded EXCEPT !.enabled = enabled] \in Dict
    BY <2>2 DEF Dict
  <2>4. heap' \in [Obj -> SoundHealth] /\ ThreadsInv'
    BY <1>0, <2>1, <2>2, <2>3, SaveKeeps
  <2> QED BY <1>3, <1>a, <2>4 DEF SetEnabled, IInv, RecordsInv, RestInv
<1>4. CASE ResetHealth(t)
  <2>1. heap' \in [Obj -> SoundHealth] /\ ThreadsInv'
    BY <1>0, <1>4, GotIsSound, Operations, SaveKeeps DEF ResetHealth
  <2> QED BY <1>4, <1>a, <2>1 DEF ResetHealth, IInv, RecordsInv, RestInv
<1>5. CASE DeleteFile(t)
  <2>1. ThreadsInv'
    BY <1>0, <1>5, GotoKeeps DEF DeleteFile
  <2>2. handle' \in [Threads -> {"tmp", "disk", "gone"}]
    BY <1>5 DEF DeleteFile, IInv, RestInv
  <2> QED BY <1>5, <1>a, <2>1, <2>2 DEF DeleteFile, IInv, RecordsInv, RestInv
<1>6. CASE RemoveFromCache(t)
  <2>1. ThreadsInv'
    BY <1>0, <1>6, GotoKeeps DEF RemoveFromCache
  <2>2. heap' \in [Obj -> SoundHealth]
    BY <1>6, ReclaimKeeps DEF RemoveFromCache
  <2> QED BY <1>6, <2>1, <2>2 DEF RemoveFromCache, IInv, RecordsInv, RestInv
<1>7. CASE Create(t)
  <2>1. Fresh \in Obj
    BY <1>7 DEF Create, Fresh, Free
  <2>2. [enabled |-> TRUE, ref |-> Fresh] \in Dict
    BY <2>1 DEF Dict
  <2>3. heap' \in [Obj -> SoundHealth] /\ ThreadsInv'
    BY <1>0, <1>7, <2>2, StartHealthsAreSound, SaveKeeps DEF Create
  <2> QED BY <1>7, <1>a, <2>3 DEF Create, IInv, RecordsInv, RestInv
<1> QED BY <1>1, <1>2, <1>3, <1>4, <1>5, <1>6, <1>7

(* The passing of time, and a restart *)
LEMMA EnvironmentKeeps ==
    ASSUME IInv, Tick \/ Restart
    PROVE  IInv'
<1>1. CASE Tick
  <2>1. ASSUME NEW f \in SoundContent \cup {None}
        PROVE  Age(f) \in SoundContent \cup {None}
    <3>1. CASE f \notin File
      BY <3>1 DEF Age
    <3>2. CASE f \in File
      <4>1. f \in SoundFile /\ f.health \in SoundHealth
        BY <3>2, ReadableIsSound DEF SoundFile
      <4>2. Older(f.health) \in SoundHealth
        BY <4>1, Operations
      <4>3. Age(f) \in SoundFile
        BY <3>2, <4>1, <4>2 DEF Age, SoundFile
      <4> QED BY <4>3 DEF SoundContent
    <3> QED BY <3>1, <3>2
  <2>2. heap' \in [Obj -> SoundHealth]
    BY <1>1, Operations DEF Tick, IInv, RecordsInv
  <2>3. RecordsInv'
    BY <1>1, <2>1, <2>2 DEF Tick, IInv, RecordsInv
  <2> QED BY <1>1, <2>3 DEF Tick, IInv, ThreadsInv, RestInv
<1>2. CASE Restart
  <2>1. PICK o \in Obj :
          /\ cache' = IF Readable THEN [enabled |-> disk.enabled, ref |-> o] ELSE None
          /\ heap' = [x \in Obj |-> IF Readable /\ x = o THEN disk.health
                                    ELSE NewHealth]
    BY <1>2 DEF Restart
  <2>2. Readable =>
          disk.enabled \in BOOLEAN /\ disk.health \in SoundHealth
    BY ReadableIsSound DEF Readable, IInv, RecordsInv, SoundFile
  <2>3. RecordsInv'
    BY <1>2, <2>1, <2>2, StartHealthsAreSound DEF Restart, IInv, RecordsInv
  <2>4. cache' \in Dict \cup {None}
    BY <2>1, <2>2 DEF Dict
  <2>5. ThreadsInv'
    BY <1>2 DEF Restart, ThreadsInv, Places, Continuations, Holding
  <2>6. /\ flag' \in [Threads -> BOOLEAN] /\ restarts' \in 0..MaxRestart
        /\ handle' \in [Threads -> {"tmp", "disk", "gone"}]
    BY <1>2, BoundsAssumption DEF Restart, IInv, RestInv
  <2> QED BY <1>2, <2>3, <2>4, <2>5, <2>6 DEF Restart, IInv, RestInv
<1> QED BY <1>1, <1>2

(* IInv is an invariant of the specification. *)
THEOREM IInvInvariant == Spec => []IInv
<1>1. IInv /\ [Next]_vars => IInv'
  <2> SUFFICES ASSUME IInv, [Next]_vars PROVE IInv'
    OBVIOUS
  <2>1. CASE \E t \in Threads : Continue(t) \/ Start(t) \/ Check(t) \/ Scan(t)
    BY <2>1, SavingKeeps, QueryKeeps, ProbeKeeps, AdminKeeps
       DEF Continue, Start
  <2>2. CASE Tick \/ Restart
    BY <2>2, EnvironmentKeeps
  <2>3. CASE UNCHANGED vars
    BY <2>3 DEF vars, IInv, RecordsInv, ThreadsInv, RestInv
  <2> QED BY <2>1, <2>2, <2>3 DEF Next
<1> QED BY <1>1, InitIInv, PTL DEF Spec

(* Every variable keeps its type. *)
THEOREM TypeCorrect == Spec => []TypeOK
<1>1. SoundHealth \subseteq Health /\ SoundContent \subseteq Content
  BY DEF SoundHealth, SoundFile, SoundContent, Content, File
<1>2. Continuations \subseteq Places
  BY DEF Continuations, Places
<1>3. IInv => TypeOK
  BY <1>1, <1>2 DEF IInv, RecordsInv, ThreadsInv, RestInv, TypeOK
<1> QED BY <1>3, IInvInvariant, PTL

(* Whatever the interleaving of the threads and wherever the process crashes,
   the file, the file being written, the cached record and every record a
   thread works on are consistent: what is paused has an open circuit. *)
THEOREM PausedAreOpenAlways == Spec => []PausedAreOpen
<1>1. IInv => Records \subseteq SoundHealth
  BY ReadableIsSound DEF IInv, RecordsInv, Records, SoundFile
<1>2. IInv /\ TypeOK => PausedAreOpen
  BY <1>1 DEF PausedAreOpen, SoundHealth, Sound
<1> QED BY <1>2, TypeCorrect, IInvInvariant, PTL

(* And no copy of the record is paused automatically without an end. *)
THEOREM AutoPausesAlwaysEnd == Spec => []AutoPausesEnd
<1>1. IInv => Records \subseteq SoundHealth
  BY ReadableIsSound DEF IInv, RecordsInv, Records, SoundFile
<1>2. IInv => AutoPausesEnd
  BY <1>1 DEF AutoPausesEnd, SoundHealth, Sound
<1> QED BY <1>2, IInvInvariant, PTL

-----------------------------------------------------------------------------
(* Probes exclude each other because whoever is let through holds the lock
   until it calls finish_probe.  (Nothing is said of the converse: a lock can
   be held by nobody.) *)
LockInv == (\A t \in Threads : Probing(t) => probeLock) /\ ProbeExclusive

(* A step that leaves the lock alone and begins no probe *)
LEMMA LockUntouched ==
    ASSUME IInv, LockInv, NEW t \in Threads, UNCHANGED probeLock,
           \A u \in Threads \ {t} : pc'[u] = pc[u] /\ after'[u] = after[u],
           Probing(t)' => Probing(t)
    PROVE  LockInv'
<1>1. \A u \in Threads : Probing(u)' => Probing(u)
  BY DEF Probing
<1> QED BY <1>1 DEF LockInv, ProbeExclusive

(* A step that leaves the lock free *)
LEMMA LockReleased ==
    ASSUME IInv, LockInv, NEW t \in Threads, Probing(t), ~Probing(t)',
           \A u \in Threads \ {t} : pc'[u] = pc[u] /\ after'[u] = after[u]
    PROVE  LockInv'
<1>1. \A u \in Threads : ~Probing(u)'
  BY DEF Probing, LockInv, ProbeExclusive
<1> QED BY <1>1 DEF LockInv, ProbeExclusive

(* Every action of a thread keeps the lock's invariant. *)
LEMMA LockKept ==
    ASSUME IInv, LockInv, NEW t \in Threads,
           Continue(t) \/ Start(t) \/ Check(t) \/ Scan(t)
    PROVE  LockInv'
<1>0. /\ pc \in [Threads -> Places] /\ after \in [Threads -> Continuations]
      /\ after[t] \in {"idle", "report", "begin", "probe"}
  BY DEF IInv, ThreadsInv, Continuations
<1>1. CASE OpenTmp(t) \/ WriteTmp(t) \/ Replace(t)
  BY <1>0, <1>1, LockUntouched DEF OpenTmp, WriteTmp, Replace, Goto, Probing
<1>2. CASE ReplaceFails(t)
  BY <1>0, <1>2, LockUntouched DEF ReplaceFails, Goto, Probing
<1>3. CASE Publish(t)
  BY <1>0, <1>3, LockUntouched DEF Publish, Goto, Probing
<1>4. CASE Answer(t) \/ UpdateLatency(t) \/ UpdateHealth(t)
  BY <1>0, <1>4, LockUntouched
     DEF Answer, UpdateLatency, UpdateHealth, SaveLoaded, Save, Goto, Probing
<1>5. CASE RefreshProbe(t)
  BY <1>0, <1>5, LockUntouched DEF RefreshProbe, Save, Goto, Probing
<1>6. CASE BeginProbe(t)
  <2>1. CASE probeLock' = TRUE /\ ~probeLock /\ Goto(t, "mark")
    <3>1. \A u \in Threads : ~Probing(u)
      BY <2>1 DEF LockInv
    <3>2. \A u \in Threads \ {t} : ~Probing(u)'
      BY <1>0, <1>6, <2>1, <3>1 DEF BeginProbe, Goto, Probing
    <3> QED BY <2>1, <3>2 DEF LockInv, ProbeExclusive
  <2>2. CASE Goto(t, "idle") /\ UNCHANGED probeLock
    BY <1>0, <1>6, <2>2, LockUntouched DEF BeginProbe, Goto, Probing
  <2> QED BY <1>6, <2>1, <2>2 DEF BeginProbe
<1>7. CASE MarkInFlight(t)
  <2>1. Probing(t)
    BY <1>7 DEF MarkInFlight, Probing
  <2>2. CASE Save(t, Got, MarkProbe(GotHealth), "probe") /\ UNCHANGED probeLock
    BY <1>0, <1>7, <2>1, <2>2, LockUntouched DEF Save, Goto, Probing
  <2>3. CASE Goto(t, "idle") /\ UNCHANGED after
    BY <1>0, <2>1, <2>3, LockReleased DEF Goto, Probing
  <2> QED BY <1>7, <2>2, <2>3 DEF MarkInFlight
<1>8. CASE ExecuteProbe(t)
  BY <1>0, <1>8, LockUntouched DEF ExecuteProbe, Goto, Probing
<1>9. CASE FinishProbe(t)
  <2>1. Probing(t)
    BY <1>9 DEF FinishProbe, Probing
  <2> QED BY <1>0, <1>9, <2>1, LockReleased DEF FinishProbe, Goto, Probing
<1>10. CASE CompleteProbe(t) \/ SetHealthPaused(t) \/ RemoveFromCache(t)
  BY <1>0, <1>10, LockUntouched
     DEF CompleteProbe, SetHealthPaused, RemoveFromCache, SaveLoaded, Save,
         Goto, Probing
<1>11. CASE Select(t) \/ SelectExpired(t) \/ Check(t) \/ Scan(t)
  BY <1>0, <1>11, LockUntouched
     DEF Select, SelectExpired, Check, Scan, Save, Goto, Probing
<1>12. CASE TogglePause(t) \/ DeleteFile(t)
  BY <1>0, <1>12, LockUntouched
     DEF TogglePause, DeleteFile, Goto, Probing
<1>13. CASE SetEnabled(t) \/ ResetHealth(t) \/ Create(t)
  BY <1>0, <1>13, LockUntouched
     DEF SetEnabled, ResetHealth, Create, Save, Goto, Probing
<1> QED
  BY <1>1, <1>2, <1>3, <1>4, <1>5, <1>6, <1>7, <1>8, <1>9, <1>10, <1>11,
     <1>12, <1>13 DEF Continue, Start

(* However many recovery workers, probe-all requests and crashes there are, no
   two threads are ever probing the upstream at once. *)
THEOREM ProbesExcludeEachOther == Spec => []ProbeExclusive
<1>1. Init => LockInv
  BY DEF Init, LockInv, ProbeExclusive, Probing
<1>2. IInv /\ LockInv /\ [Next]_vars => LockInv'
  <2> SUFFICES ASSUME IInv, LockInv, [Next]_vars PROVE LockInv'
    OBVIOUS
  <2>1. CASE \E t \in Threads : Continue(t) \/ Start(t) \/ Check(t) \/ Scan(t)
    BY <2>1, LockKept
  <2>2. CASE Tick \/ UNCHANGED vars
    BY <2>2 DEF Tick, vars, LockInv, ProbeExclusive, Probing
  <2>3. CASE Restart
    BY <2>3 DEF Restart, LockInv, ProbeExclusive, Probing
  <2> QED BY <2>1, <2>2, <2>3 DEF Next
<1>3. LockInv => ProbeExclusive
  BY DEF LockInv
<1> QED BY <1>1, <1>2, <1>3, IInvInvariant, PTL DEF Spec
-----------------------------------------------------------------------------
(* Where only one recovery probe is at work, the cached circuit and the one in
   the file differ only while the probe saves the record, and then by a step
   of the circuit breaker: BreakerInv says at which place they may differ, and
   how. *)

Stored == disk.health.circuit
Cached == heap[cache.ref].circuit

(* The circuit in the file, the one that is being saved over it, and what the
   probe does next. *)
Moves == {<<"open", "half_open", "begin">>,
          <<"half_open", "half_open", "probe">>,
          <<"half_open", "closed", "idle">>,
          <<"half_open", "open", "idle">>}

Agreeing == {"off", "idle", "refresh", "begin", "mark"}
Busy == {"probe", "finish", "complete"}
Saving == {"open", "write", "replace", "publish"}
Before == {"open", "write", "replace"}

ProbeInv(t) ==
    /\ pc[t] \in Agreeing \cup Busy \cup Saving
    /\ pc[t] \notin Before => Cached = Stored
    /\ pc[t] \in Busy => Stored = "half_open"
    /\ pc[t] \in Saving \cup {"complete"} => data[t] = cache
    /\ pc[t] \in Before => <<Stored, Cached, after[t]>> \in Moves
    /\ pc[t] = "write" => handle[t] = "tmp" /\ tmp = Empty
    /\ pc[t] = "replace" => tmp \in File /\ tmp.health.circuit = Cached
    /\ pc[t] = "publish" => \/ after[t] \in {"idle", "begin"}
                            \/ after[t] = "probe" /\ Stored = "half_open"

BreakerInv ==
    ProbesAlone =>
        /\ Readable /\ cache # None
        /\ \A t \in Probers : ProbeInv(t)

(* A step of a thread is taken by one that is at work, and leaves it at work. *)
LEMMA StepMovesOne ==
    ASSUME IInv, NEW t \in Threads,
           Continue(t) \/ Start(t) \/ Check(t) \/ Scan(t)
    PROVE  /\ pc[t] # "off"
           /\ \E place \in Places \ {"off"} : pc' = [pc EXCEPT ![t] = place]
<1>0. /\ after[t] \in Continuations
      /\ Continuations \subseteq Places \ {"off"}
      /\ {"open", "write", "replace", "publish", "idle", "asked", "latency", "report",
          "refresh", "begin", "mark", "probe", "finish", "complete", "pause",
          "forget"} \subseteq Places \ {"off"}
  BY DEF IInv, ThreadsInv, Continuations, Places
<1>1. CASE OpenTmp(t) \/ WriteTmp(t) \/ Replace(t) \/ ReplaceFails(t)
  BY <1>0, <1>1 DEF OpenTmp, WriteTmp, Replace, ReplaceFails, Goto
<1>2. CASE Publish(t)
  BY <1>0, <1>2 DEF Publish, Goto
<1>3. CASE Answer(t) \/ UpdateLatency(t) \/ UpdateHealth(t)
  BY <1>0, <1>3 DEF Answer, UpdateLatency, UpdateHealth, SaveLoaded, Save, Goto
<1>4. CASE RefreshProbe(t) \/ BeginProbe(t) \/ MarkInFlight(t)
  BY <1>0, <1>4 DEF RefreshProbe, BeginProbe, MarkInFlight, Save, Goto
<1>5. CASE ExecuteProbe(t) \/ FinishProbe(t) \/ CompleteProbe(t)
  BY <1>0, <1>5 DEF ExecuteProbe, FinishProbe, CompleteProbe, Save, Goto
<1>6. CASE SetHealthPaused(t) \/ RemoveFromCache(t)
  BY <1>0, <1>6 DEF SetHealthPaused, RemoveFromCache, SaveLoaded, Save, Goto
<1>7. CASE Select(t) \/ SelectExpired(t) \/ Check(t) \/ Scan(t)
  BY <1>0, <1>7 DEF Select, SelectExpired, Check, Scan, Save, Goto
<1>8. CASE TogglePause(t) \/ DeleteFile(t)
  BY <1>0, <1>8 DEF TogglePause, DeleteFile, Request, Goto
<1>9. CASE SetEnabled(t) \/ ResetHealth(t) \/ Create(t)
  BY <1>0, <1>9 DEF SetEnabled, ResetHealth, Create, Request, Save, Goto
<1> QED
  BY <1>1, <1>2, <1>3, <1>4, <1>5, <1>6, <1>7, <1>8, <1>9 DEF Continue, Start

(* Nobody joins the probes, and nobody leaves. *)
LEMMA CompanyKept == ASSUME IInv, [Next]_vars PROVE ProbesAlone' <=> ProbesAlone
<1>0. pc \in [Threads -> Places]
  BY DEF IInv, ThreadsInv
<1>1. CASE \E t \in Threads : Continue(t) \/ Start(t) \/ Check(t) \/ Scan(t)
  <2>1. PICK t \in Threads :
          /\ pc[t] # "off"
          /\ \E place \in Places \ {"off"} : pc' = [pc EXCEPT ![t] = place]
    BY <1>1, StepMovesOne
  <2> QED BY <1>0, <2>1 DEF ProbesAlone
<1>2. CASE Tick \/ UNCHANGED vars
  BY <1>2 DEF Tick, vars, ProbesAlone
<1>3. CASE Restart
  BY <1>0, <1>3 DEF Restart, ProbesAlone
<1> QED BY <1>1, <1>2, <1>3 DEF Next

Followed ==
    \/ Stored' = Stored
    \/ Stored = "open" /\ Stored' = "half_open"
    \/ Stored = "half_open" /\ Stored' \in {"closed", "open"}

(* What the operations of a recovery probe make of the circuit *)
LEMMA Circuit ==
    ASSUME NEW h \in SoundHealth
    PROVE  /\ BackoffExpired(h) => h.circuit = "open"
           /\ BackoffExpired(h) => Refresh(h).circuit = "half_open"
           /\ MarkProbe(h).circuit = h.circuit
           /\ \A b \in BOOLEAN : Finish(h, b).circuit \in {"closed", "open"}
           /\ Older(h).circuit = h.circuit
<1>1. h \in Health /\ PausedIsOpen(h)
  BY DEF SoundHealth, Sound
<1>2. /\ BackoffExpired(h) => h.circuit = "open"
      /\ BackoffExpired(h) => Refresh(h).circuit = "half_open"
  BY <1>1 DEF PausedIsOpen, BackoffExpired, Refresh, Health
<1>3. MarkProbe(h).circuit = h.circuit /\ Older(h).circuit = h.circuit
  BY <1>1 DEF MarkProbe, Older, Health
<1>4. ProbeSucceeded(h).circuit = "closed" /\ ProbeFailed(h).circuit = "open"
  BY <1>1 DEF ProbeSucceeded, ProbeFailed, Health
<1> QED BY <1>2, <1>3, <1>4 DEF Finish

(* A probe that saves the cached record with another circuit *)
LEMMA ProbeSaves ==
    ASSUME IInv, NEW t \in Threads, NEW h \in SoundHealth, NEW continuation,
           cache # None, Readable, UNCHANGED <<disk, cache>>,
           Save(t, cache, h, continuation),
           <<Stored, h.circuit, continuation>> \in Moves
    PROVE  ProbeInv(t)' /\ Stored' = Stored /\ Readable'
<1>1. cache \in Dict /\ cache.ref \in Obj /\ heap \in [Obj -> SoundHealth]
  BY DEF IInv, RecordsInv, RestInv, Dict
<1>2. Cached' = h.circuit /\ Stored' = Stored
  BY <1>1 DEF Save, Cached, Stored
<1>3. pc'[t] = "open" /\ after'[t] = continuation /\ data'[t] = cache'
  BY DEF Save, Goto, IInv, ThreadsInv
<1> QED
  BY <1>2, <1>3 DEF ProbeInv, Readable, Agreeing, Busy, Saving, Before

(* A probe that goes on without a change of the record *)
LEMMA ProbeGoesOn ==
    ASSUME IInv, NEW t \in Threads, NEW place, Goto(t, place),
           Readable, UNCHANGED <<disk, cache, heap>>, Cached = Stored,
           \/ place \in Agreeing
           \/ place \in {"probe", "finish"} /\ Stored = "half_open"
    PROVE  ProbeInv(t)' /\ Stored' = Stored /\ Readable'
<1>1. pc'[t] = place
  BY DEF Goto, IInv, ThreadsInv
<1>2. Cached' = Cached /\ Stored' = Stored
  BY DEF Cached, Stored
<1> QED BY <1>1, <1>2 DEF ProbeInv, Readable, Agreeing, Busy, Saving, Before

(* Every step of the only probe keeps the invariant, and moves the circuit in
   the file as the circuit breaker does. *)
LEMMA ProbeFollows ==
    ASSUME IInv, NEW t \in Threads, t \in Probers, ProbeInv(t),
           Readable, cache # None,
           Continue(t) \/ Start(t) \/ Check(t) \/ Scan(t)
    PROVE  Readable' /\ cache' # None /\ ProbeInv(t)' /\ Followed
<1>0. /\ pc \in [Threads -> Places] /\ after \in [Threads -> Continuations]
      /\ data \in [Threads -> Dict \cup {None}]
      /\ cache \in Dict /\ cache.ref \in Obj
      /\ heap \in [Obj -> SoundHealth] /\ heap[cache.ref] \in SoundHealth
  BY DEF IInv, ThreadsInv, RecordsInv, RestInv, Dict
<1>1. pc[t] \in Agreeing \cup Busy \cup Saving
  BY DEF ProbeInv
<1>2. t \notin Forwarders /\ t \notin Checkers /\ t \notin Admins
  BY ThreadsAssumption
<1>3. Gettable => Got = cache /\ GotHealth = heap[cache.ref]
  BY DEF Got, GotHealth
<1>4. CASE OpenTmp(t)
  <2>1. pc[t] = "open" /\ pc'[t] = "write" /\ data[t] = cache
    BY <1>0, <1>4 DEF OpenTmp, Goto, ProbeInv, Saving
  <2>2. tmp' = Empty /\ handle'[t] = "tmp"
    BY <1>4 DEF OpenTmp, IInv, RestInv
  <2>3. Cached' = Cached /\ Stored' = Stored
    BY <1>4 DEF OpenTmp, Cached, Stored
  <2>4. <<Stored, Cached, after[t]>> \in Moves
    BY <2>1 DEF ProbeInv, Before
  <2>5. ProbeInv(t)'
    BY <1>4, <2>1, <2>2, <2>3, <2>4
       DEF OpenTmp, ProbeInv, Agreeing, Busy, Saving, Before
  <2> QED BY <1>4, <2>3, <2>5 DEF OpenTmp, Readable, Followed
<1>5. CASE WriteTmp(t) \/ Replace(t)
  <2>1. CASE WriteTmp(t)
    <3>1. pc[t] = "write" /\ pc'[t] = "replace" /\ data[t] = cache
      BY <1>0, <2>1 DEF WriteTmp, Goto, ProbeInv, Saving
    <3>2. handle[t] = "tmp" /\ tmp = Empty
      BY <3>1 DEF ProbeInv
    <3>3. disk' = disk /\ tmp' = [enabled |-> cache.enabled, health |-> heap[cache.ref]]
      BY <2>1, <3>1, <3>2 DEF WriteTmp, Overwritten
    <3>4. tmp' \in File /\ tmp'.health.circuit = Cached
      BY <1>0, <3>3 DEF File, Dict, SoundHealth, Cached
    <3>5. Cached' = Cached /\ Stored' = Stored
      BY <2>1, <3>3 DEF WriteTmp, Cached, Stored
    <3>6. <<Stored, Cached, after[t]>> \in Moves
      BY <3>1 DEF ProbeInv, Before
    <3>7. ProbeInv(t)'
      BY <2>1, <3>1, <3>4, <3>5, <3>6
         DEF WriteTmp, ProbeInv, Agreeing, Busy, Saving, Before
    <3> QED BY <2>1, <3>3, <3>5, <3>7 DEF WriteTmp, Readable, Followed
  <2>2. CASE Replace(t)
    <3>1. pc[t] = "replace" /\ pc'[t] = "publish"
      BY <1>0, <2>2 DEF Replace, Goto
    <3>2. Stored' = Cached /\ Cached' = Cached /\ disk' \in File
      BY <2>2, <3>1 DEF Replace, ProbeInv, Stored, Cached
    <3>3. <<Stored, Cached, after[t]>> \in Moves /\ data[t] = cache
      BY <3>1 DEF ProbeInv, Saving, Before
    <3>4. ProbeInv(t)'
      BY <2>2, <3>1, <3>2, <3>3
         DEF Replace, ProbeInv, Moves, Agreeing, Busy, Saving, Before
    <3> QED BY <2>2, <3>2, <3>3, <3>4 DEF Replace, Readable, Followed, Moves
  <2> QED BY <1>5, <2>1, <2>2
<1>6. CASE ReplaceFails(t)
  BY <1>6, NoneAssumption DEF ReplaceFails, ProbeInv, Content
<1>7. CASE Publish(t)
  <2>1. pc[t] = "publish" /\ pc'[t] = after[t] /\ data[t] = cache
    BY <1>0, <1>7 DEF Publish, Goto, ProbeInv, Saving
  <2>2. cache' = cache /\ Stored' = Stored
    BY <1>7, <2>1 DEF Publish, Stored
  <2>3. heap'[cache.ref] = heap[cache.ref]
    <3>1. cache.ref \in Live'
      BY <1>0, <2>2 DEF Live
    <3> QED BY <1>0, <1>7, <3>1 DEF Publish, Reclaim
  <2>4. Cached' = Cached
    BY <2>2, <2>3 DEF Cached
  <2>5. Cached = Stored /\ \/ after[t] \in {"idle", "begin"}
                           \/ after[t] = "probe" /\ Stored = "half_open"
    BY <2>1 DEF ProbeInv, Before
  <2> QED
    BY <1>7, <2>1, <2>2, <2>4, <2>5
       DEF Publish, ProbeInv, Readable, Followed, Agreeing, Busy, Saving, Before
<1>8. CASE Scan(t) \/ BeginProbe(t)
  <2>1. PICK place \in Agreeing : Goto(t, place)
    BY <1>8 DEF Scan, BeginProbe, Agreeing
  <2>2. UNCHANGED <<disk, cache, heap>> /\ Cached = Stored
    BY <1>8 DEF Scan, BeginProbe, ProbeInv, Before
  <2> QED BY <2>1, <2>2, ProbeGoesOn DEF Followed
<1>9. CASE RefreshProbe(t)
  <2>1. Cached = Stored /\ UNCHANGED <<disk, cache>>
    BY <1>9 DEF RefreshProbe, ProbeInv, Before
  <2>2. CASE /\ Gettable /\ BackoffExpired(GotHealth)
             /\ Save(t, Got, Refresh(GotHealth), "begin")
    <3>1. /\ Stored = "open"
          /\ Refresh(heap[cache.ref]).circuit = "half_open"
          /\ Refresh(heap[cache.ref]) \in SoundHealth
      BY <1>0, <1>3, <2>1, <2>2, Circuit, Operations DEF Cached
    <3>2. <<Stored, Refresh(heap[cache.ref]).circuit, "begin">> \in Moves
      BY <3>1 DEF Moves
    <3> QED BY <1>3, <2>1, <2>2, <3>1, <3>2, ProbeSaves DEF Followed
  <2>3. CASE Goto(t, "begin") /\ UNCHANGED <<heap, after, data>>
    BY <2>1, <2>3, ProbeGoesOn DEF Agreeing, Followed
  <2> QED BY <1>9, <2>2, <2>3 DEF RefreshProbe, NothingToGet
<1>10. CASE MarkInFlight(t)
  <2>1. Cached = Stored /\ UNCHANGED <<disk, cache>>
    BY <1>10 DEF MarkInFlight, ProbeInv, Before
  <2>2. CASE MayProbe /\ Save(t, Got, MarkProbe(GotHealth), "probe")
    <3>1. /\ Stored = "half_open"
          /\ MarkProbe(heap[cache.ref]).circuit = "half_open"
          /\ MarkProbe(heap[cache.ref]) \in SoundHealth
      <4>1. Stored = "half_open" /\ heap[cache.ref].circuit = "half_open"
        BY <1>3, <2>1, <2>2 DEF MayProbe, Cached
      <4> QED BY <1>0, <4>1, Circuit, Operations
    <3>2. <<Stored, MarkProbe(heap[cache.ref]).circuit, "probe">> \in Moves
      BY <3>1 DEF Moves
    <3> QED BY <1>3, <2>1, <2>2, <3>1, <3>2, ProbeSaves DEF MayProbe, Followed
  <2>3. CASE Goto(t, "idle") /\ UNCHANGED <<heap, after, data>>
    BY <2>1, <2>3, ProbeGoesOn DEF Agreeing, Followed
  <2> QED BY <1>10, <2>2, <2>3 DEF MarkInFlight
<1>11. CASE ExecuteProbe(t)
  <2>1. /\ Goto(t, "finish") /\ UNCHANGED <<disk, cache, heap>>
        /\ Cached = Stored /\ Stored = "half_open"
    BY <1>11 DEF ExecuteProbe, ProbeInv, Busy, Before
  <2> QED BY <2>1, ProbeGoesOn DEF Followed
<1>12. CASE FinishProbe(t)
  <2>1. /\ Cached = Stored /\ Stored = "half_open"
        /\ UNCHANGED <<disk, cache>>
    BY <1>12 DEF FinishProbe, ProbeInv, Busy, Before
  <2>2. /\ Gettable /\ data' = [data EXCEPT ![t] = Got]
        /\ heap' = [heap EXCEPT ![Got.ref] = GotHealth]
        /\ Goto(t, "complete")
    BY <1>12 DEF FinishProbe, NothingToGet
  <2>3. pc'[t] = "complete" /\ data'[t] = cache'
    BY <1>0, <1>3, <2>1, <2>2 DEF Goto
  <2>4. Cached' = Cached /\ Stored' = Stored
    BY <1>0, <1>3, <2>1, <2>2 DEF Cached, Stored
  <2> QED
    BY <2>1, <2>3, <2>4
       DEF ProbeInv, Readable, Followed, Agreeing, Busy, Saving, Before
<1>13. CASE CompleteProbe(t)
  <2>1. /\ Stored = "half_open" /\ data[t] = cache
        /\ UNCHANGED <<disk, cache>>
    BY <1>13 DEF CompleteProbe, ProbeInv, Busy
  <2> DEFINE h == Finish(heap[cache.ref], flag[t])
  <2>2. h \in SoundHealth /\ h.circuit \in {"closed", "open"}
    BY <1>0, Circuit, Operations DEF IInv, RestInv
  <2>3. Save(t, cache, h, "idle")
    BY <1>13, <2>1 DEF CompleteProbe
  <2> HIDE DEF h
  <2>4. <<Stored, h.circuit, "idle">> \in Moves
    BY <2>1, <2>2 DEF Moves
  <2> QED BY <2>1, <2>2, <2>3, <2>4, ProbeSaves DEF Followed
<1>14. CASE \/ Answer(t) \/ UpdateLatency(t) \/ UpdateHealth(t)
            \/ SetHealthPaused(t) \/ RemoveFromCache(t)
  BY <1>1, <1>14
     DEF Answer, UpdateLatency, UpdateHealth, SetHealthPaused, RemoveFromCache,
         Agreeing, Busy, Saving
<1>15. CASE Start(t) \/ Check(t)
  BY <1>2, <1>15
     DEF Start, Select, SelectExpired, Check, TogglePause, SetEnabled,
         ResetHealth, DeleteFile, Create, Request
<1> QED
  BY <1>4, <1>5, <1>6, <1>7, <1>8, <1>9, <1>10, <1>11, <1>12, <1>13, <1>14,
     <1>15 DEF Continue

(* Every step of the system does, where one probe is at work alone. *)
LEMMA BreakerKept ==
    ASSUME \A t, u \in Probers : t = u,
           IInv, ProbesAlone, BreakerInv, [Next]_vars
    PROVE  BreakerInv' /\ Readable' /\ Followed
<1>0. Readable /\ cache # None /\ \A t \in Probers : ProbeInv(t)
  BY DEF BreakerInv
<1>1. CASE \E t \in Threads : Continue(t) \/ Start(t) \/ Check(t) \/ Scan(t)
  <2>1. PICK t \in Threads : Continue(t) \/ Start(t) \/ Check(t) \/ Scan(t)
    BY <1>1
  <2>2. t \in Probers
    BY <2>1, StepMovesOne DEF ProbesAlone
  <2>3. Readable' /\ cache' # None /\ ProbeInv(t)' /\ Followed
    BY <1>0, <2>1, <2>2, ProbeFollows
  <2>4. \A u \in Probers : ProbeInv(u)'
    BY <2>2, <2>3
  <2> QED BY <2>3, <2>4 DEF BreakerInv
<1>2. CASE Tick
  <2>1. ASSUME NEW f \in SoundContent \cup {None}
        PROVE  /\ f \in File => /\ f.health \in SoundHealth /\ Age(f) \in File
                               /\ Age(f).health.circuit = f.health.circuit
               /\ f = Empty => Age(f) = Empty
    <3>1. CASE f \in File
      <4>1. f \in SoundFile /\ f.health \in SoundHealth
        BY <3>1, ReadableIsSound DEF SoundFile
      <4>2. Older(f.health) \in SoundHealth /\ Older(f.health).circuit = f.health.circuit
        BY <4>1, Operations, Circuit
      <4>3. Age(f) = [f EXCEPT !.health = Older(f.health)]
        BY <3>1 DEF Age
      <4>4. Age(f) \in File /\ Age(f).health = Older(f.health)
        BY <4>1, <4>2, <4>3 DEF SoundFile, File, SoundHealth
      <4> QED BY <3>1, <4>1, <4>2, <4>4, ContentAssumption
    <3>2. CASE f \notin File
      BY <3>2 DEF Age
    <3> QED BY <3>1, <3>2
  <2>2. disk \in SoundContent \cup {None} /\ tmp \in SoundContent \cup {None}
    BY DEF IInv, RecordsInv
  <2>3. /\ disk' = Age(disk) /\ tmp' = Age(tmp) /\ cache' = cache
        /\ heap' = [o \in Obj |-> Older(heap[o])]
    BY <1>2 DEF Tick
  <2>4. /\ Readable' /\ Stored' = Stored
        /\ tmp \in File => tmp' \in File /\ tmp'.health.circuit = tmp.health.circuit
        /\ tmp = Empty => tmp' = Empty
    BY <1>0, <2>1, <2>2, <2>3 DEF Readable, Stored
  <2>5. Cached' = Cached
    <3>1. cache.ref \in Obj /\ heap[cache.ref] \in SoundHealth
      BY <1>0 DEF IInv, RecordsInv, RestInv, Dict
    <3> QED BY <2>3, <3>1, Circuit DEF Cached
  <2>6. ASSUME NEW t \in Probers PROVE ProbeInv(t)'
    <3>1. ProbeInv(t)
      BY <1>0
    <3>2. pc' = pc /\ data' = data /\ after' = after /\ handle' = handle
      BY <1>2 DEF Tick
    <3> QED BY <2>3, <2>4, <2>5, <3>1, <3>2 DEF ProbeInv
  <2> QED
    BY <1>0, <2>3, <2>4, <2>6 DEF BreakerInv, Followed
<1>3. CASE Restart
  <2>1. PICK o \in Obj :
          /\ cache' = [enabled |-> disk.enabled, ref |-> o]
          /\ heap' = [x \in Obj |-> IF x = o THEN disk.health ELSE NewHealth]
    BY <1>0, <1>3 DEF Restart
  <2>2. Readable' /\ Stored' = Stored /\ Cached' = Stored
    <3>1. disk' = disk
      BY <1>3 DEF Restart
    <3> QED BY <1>0, <2>1, <3>1 DEF Readable, Stored, Cached
  <2>3. cache' # None
    <3>1. cache' \in Dict
      BY <1>0, <2>1 DEF Dict, Readable, File
    <3> QED BY <3>1, NoneAssumption
  <2>4. \A t \in Probers : t \in Threads /\ pc'[t] \in {"off", "idle"}
    BY <1>3 DEF Restart, Threads
  <2>5. \A t \in Probers : ProbeInv(t)'
    BY <2>2, <2>4 DEF ProbeInv, Agreeing, Busy, Saving, Before
  <2> QED BY <2>2, <2>3, <2>5 DEF BreakerInv, Followed
<1>4. CASE UNCHANGED vars
  <2>1. Stored' = Stored /\ Readable'
    BY <1>0, <1>4 DEF vars, Stored, Readable
  <2>2. BreakerInv'
    BY <1>4 DEF vars, BreakerInv, ProbesAlone, ProbeInv, Stored, Cached, Readable
  <2> QED BY <2>1, <2>2 DEF Followed
<1> QED BY <1>1, <1>2, <1>3, <1>4 DEF Next

(* Where a recovery probe is at work alone, the circuit in the file implements
   the circuit breaker: every step of the system, a crash between the two
   halves of a save included, is one of its steps or leaves the circuit as it
   is.  (Two probes may interfere: between the release of the lock and the last
   save of one, the other gets through, and both change one cached object.) *)
THEOREM ProbesFollow ==
    ASSUME \A t, u \in Probers : t = u
    PROVE  Spec => ProbesFollowBreaker
<1> DEFINE circuit == IF ~Readable \/ ~ProbesAlone THEN "closed" ELSE Stored
<1>1. Init => BreakerInv /\ Breaker!Init
  <2> SUFFICES ASSUME Init PROVE BreakerInv /\ Breaker!Init
    OBVIOUS
  <2>a. PICK o \in Obj :
          /\ cache = [enabled |-> TRUE, ref |-> o]
          /\ heap = [x \in Obj |-> IF x = o THEN disk.health ELSE NewHealth]
    BY DEF Init
  <2>b. disk \in [enabled: {TRUE}, health: StartHealths]
    BY DEF Init
  <2>1. Readable /\ cache # None
    <3>1. disk \in File
      BY <2>b, StartHealthsAreSound DEF File, SoundHealth
    <3>2. cache \in Dict
      BY <2>a DEF Dict
    <3> QED BY <3>1, <3>2, NoneAssumption DEF Readable
  <2>2. Cached = Stored /\ Stored \in {"closed", "open"}
    <3>1. Cached = Stored
      BY <2>a DEF Cached, Stored
    <3>2. \A n : Failed(n).circuit \in {"closed", "open"}
      BY DEF Failed, NewHealth
    <3>3. PICK n \in Streaks : disk.health = Failed(n)
      BY <2>b DEF StartHealths
    <3> QED BY <3>1, <3>2, <3>3 DEF Stored
  <2>3. \A t \in Probers : pc[t] \in {"off", "idle"}
    BY DEF Init, Threads
  <2>4. BreakerInv
    BY <2>1, <2>2, <2>3 DEF BreakerInv, ProbeInv, Agreeing, Busy, Saving, Before
  <2> QED BY <2>2, <2>4 DEF Breaker!Init, Stored
<1>2. IInv /\ BreakerInv /\ [Next]_vars => BreakerInv' /\ [Breaker!Next]_circuit
  <2> SUFFICES ASSUME IInv, BreakerInv, [Next]_vars
               PROVE  BreakerInv' /\ [Breaker!Next]_circuit
    OBVIOUS
  <2>1. ProbesAlone' <=> ProbesAlone
    BY CompanyKept
  <2>2. CASE ProbesAlone
    <3>1. BreakerInv' /\ Readable' /\ Followed
      BY <2>2, BreakerKept
    <3>2. Readable
      BY <2>2 DEF BreakerInv
    <3> QED
      BY <2>1, <2>2, <3>1, <3>2
         DEF Followed, Stored, Breaker!Next, Breaker!BackoffOver,
             Breaker!ProbeAnswered, Breaker!ProbeUnanswered
  <2>3. CASE ~ProbesAlone
    BY <2>1, <2>3 DEF BreakerInv
  <2> QED BY <2>2, <2>3
<1>3. Spec => [](IInv /\ BreakerInv)
  BY <1>1, <1>2, IInvInvariant, PTL DEF Spec
<1> QED
  BY <1>1, <1>2, <1>3, PTL DEF Spec, ProbesFollowBreaker, Breaker!Spec, Stored
=============================================================================
