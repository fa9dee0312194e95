---------------------------- MODULE UpstreamHealth ----------------------------
(***************************************************************************)
(* The health record of one upstream resolver (upstream_manager.py, the    *)
(* "health" dictionary of a file data/upstreams/<id>.json) and the pure    *)
(* part of every operation on it: what each operation makes of a record,   *)
(* leaving out how the record was read and where it is written back.       *)
(*                                                                         *)
(* Abstractions.                                                           *)
(*  - Absolute times are kept as the time that is left: "left" counts down *)
(*    to 0 where the code compares now with backoff_until, and "fresh"     *)
(*    counts down to 0 where it compares now with probe_started_at.        *)
(*  - consecutive_failures saturates at 10, the last value the code tells  *)
(*    apart from smaller ones.                                             *)
(*  - Latencies, EWMAs, counters and texts are left out: no condition that *)
(*    is modelled reads them.  probe_required is written and displayed but *)
(*    never read by a decision.                                            *)
(***************************************************************************)
EXTENDS Integers

CONSTANTS
    Backoff,      \* how long a pause of each backoff level 1..4 lasts
    StaleAfter    \* how long an unfinished probe keeps others away

ASSUME BackoffAssumption == Backoff \in [1..4 -> Nat \ {0}]
ASSUME StaleAfterAssumption == StaleAfter \in Nat \ {0}

NoBackoff == -1                      \* backoff_until = 0
ManyFailures == 10
Reasons == {"", "health_backoff", "manual"}
Circuits == {"closed", "open", "half_open"}

(***************************************************************************)
(* left >= 0 stands for a positive backoff_until; left = 0 for one that    *)
(* has passed.                                                             *)
(***************************************************************************)
Health ==
    [paused: BOOLEAN, reason: Reasons, circuit: Circuits, level: 0..4,
     left: Int, failures: 0..ManyFailures, inFlight: BOOLEAN,
     fresh: 0..StaleAfter]

NewHealth ==
    [paused |-> FALSE, reason |-> "", circuit |-> "closed", level |-> 0,
     left |-> NoBackoff, failures |-> 0, inFlight |-> FALSE, fresh |-> 0]

ManuallyPaused(h) == h.paused /\ h.reason = "manual"

BackoffExpired(h) == h.paused /\ h.reason = "health_backoff" /\ h.left = 0

ProbeBlocked(h) == h.inFlight /\ h.fresh > 0

(* The level a streak of n failures puts an upstream on. *)
LevelOf(n, level) ==
    CASE n = 1 -> 0
      [] n >= 10 -> 4
      [] n \in 7..9 -> 3
      [] n \in 4..6 -> 2
      [] OTHER -> level

(***************************************************************************)
(* update_health: one answered or failed query.                            *)
(***************************************************************************)
(* A bug: a success is left to the probes when the circuit is not closed. *)
ReportSuccessClosedOnly(h) ==
    IF ManuallyPaused(h) \/ h.circuit # "closed"
    THEN [h EXCEPT !.failures = 0]
    ELSE [h EXCEPT !.failures = 0, !.level = 0, !.left = NoBackoff]

ReportSuccess(h) ==
    IF ManuallyPaused(h)
    THEN [h EXCEPT !.failures = 0]
    ELSE [h EXCEPT !.failures = 0, !.paused = FALSE, !.reason = "",
                   !.level = 0, !.left = NoBackoff, !.circuit = "closed",
                   !.inFlight = FALSE]

(* A bug: the failure is counted, but the circuit is left as it is. *)
ReportFailureCircuitKept(h) ==
    LET n == IF h.failures < ManyFailures THEN h.failures + 1
                                          ELSE ManyFailures
        level == LevelOf(n, h.level)
    IN  IF ManuallyPaused(h) \/ level = 0 THEN [h EXCEPT !.failures = n]
        ELSE [h EXCEPT !.failures = n, !.level = level,
                       !.left = Backoff[level], !.paused = TRUE,
                       !.reason = "health_backoff"]

ReportFailure(h) ==
    LET n == IF h.failures < ManyFailures THEN h.failures + 1
                                          ELSE ManyFailures
        level == LevelOf(n, h.level)
        backedOff == [h EXCEPT !.failures = n, !.level = level,
                               !.left = Backoff[level], !.paused = TRUE,
                               !.reason = IF @ = "manual" THEN @
                                          ELSE "health_backoff",
                               !.circuit = "open"]
        tolerated == [h EXCEPT !.failures = n, !.level = level,
                               !.left = NoBackoff, !.paused = FALSE]
    IN  IF ManuallyPaused(h) THEN [h EXCEPT !.failures = n]
        ELSE IF level > 0 THEN backedOff ELSE tolerated

Report(h, success) == IF success THEN ReportSuccess(h) ELSE ReportFailure(h)

(* A bug: an expired pause puts the upstream straight back into use. *)
RefreshToClosed(h) ==
    IF BackoffExpired(h)
    THEN [h EXCEPT !.paused = FALSE, !.circuit = "closed", !.reason = ""]
    ELSE h

(* refresh_backoff_state: an expired pause becomes a half-open circuit. *)
Refresh(h) ==
    IF BackoffExpired(h)
    THEN [h EXCEPT !.paused = FALSE, !.circuit = "half_open",
                   !.inFlight = FALSE, !.reason = ""]
    ELSE h

(* begin_probe, the part that marks the record. *)
MarkProbe(h) == [h EXCEPT !.inFlight = TRUE, !.fresh = StaleAfter]

(* finish_probe *)
ProbeSucceeded(h) ==
    [h EXCEPT !.circuit = "closed", !.paused = FALSE, !.reason = "",
              !.inFlight = FALSE, !.level = 0, !.left = NoBackoff,
              !.failures = 0]

(* A bug: the backoff level rises, but no new end of the pause is set. *)
ProbeFailedNoEnd(h) ==
    [h EXCEPT !.circuit = "open", !.paused = TRUE,
              !.reason = "health_backoff", !.inFlight = FALSE,
              !.level = IF @ < 4 THEN @ + 1 ELSE 4, !.left = NoBackoff]

ProbeFailed(h) ==
    LET level == IF h.level < 4 THEN h.level + 1 ELSE 4
    IN  [h EXCEPT !.circuit = "open", !.paused = TRUE,
                  !.reason = "health_backoff", !.inFlight = FALSE,
                  !.level = level, !.left = Backoff[level]]

Finish(h, success) == IF success THEN ProbeSucceeded(h) ELSE ProbeFailed(h)

(* set_health_paused with the reason the pause button sends. *)
SetPaused(h, paused) ==
    IF paused
    THEN [h EXCEPT !.paused = TRUE, !.reason = "manual", !.circuit = "open"]
    ELSE [h EXCEPT !.paused = FALSE, !.reason = "", !.circuit = "closed"]

(* POST /api/recovery/reset-health *)
Reset(h) ==
    [h EXCEPT !.paused = FALSE, !.reason = "", !.level = 0,
              !.left = NoBackoff, !.circuit = "closed", !.inFlight = FALSE,
              !.failures = 0]

(* A record one unit of time later. *)
Older(h) ==
    [h EXCEPT !.left = IF @ > 0 THEN @ - 1 ELSE @,
              !.fresh = IF @ > 0 THEN @ - 1 ELSE @]

-----------------------------------------------------------------------------
(***************************************************************************)
(* What every copy of a record satisfies, whoever wrote it last.           *)
(***************************************************************************)

(***************************************************************************)
(* active_upstreams keeps traffic away from a backed-off upstream by its   *)
(* circuit alone and active_dnscrypt_relays by "paused" alone: the two     *)
(* agree only if a paused record always has an open circuit.               *)
(***************************************************************************)
PausedIsOpen(h) == h.paused => h.circuit = "open"

(***************************************************************************)
(* An automatic pause always has an end, and one no later than its level   *)
(* allows; refresh_backoff_state ends no other pause.                      *)
(***************************************************************************)
AutoPauseEnds(h) ==
    h.paused /\ h.reason = "health_backoff" =>
        /\ h.level \in 1..4
        /\ h.left \in 0..Backoff[h.level]

(* Only a record that is paused says that a person paused it. *)
ManualIsPaused(h) == h.reason = "manual" => h.paused
=============================================================================
