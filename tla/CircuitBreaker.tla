---------------------------- MODULE CircuitBreaker ----------------------------
(***************************************************************************)
(* What the recovery probes promise of the circuit of one upstream, as one *)
(* variable and without threads, files or caches (the "Circuit breaker"    *)
(* part of upstream_manager.py): a circuit that is open first waits until  *)
(* its backoff is over, then becomes half open, and only the outcome of a  *)
(* probe moves it on.                                                      *)
(***************************************************************************)
VARIABLE circuit

Init == circuit \in {"closed", "open"}

BackoffOver == circuit = "open" /\ circuit' = "half_open"
ProbeAnswered == circuit = "half_open" /\ circuit' = "closed"
ProbeUnanswered == circuit = "half_open" /\ circuit' = "open"

Next == BackoffOver \/ ProbeAnswered \/ ProbeUnanswered

Spec == Init /\ [][Next]_circuit
=============================================================================
