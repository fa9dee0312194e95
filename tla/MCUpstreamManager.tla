--------------------------- MODULE MCUpstreamManager ---------------------------
(***************************************************************************)
(* Values for the constants of UpstreamManager.  A backoff lasts one unit  *)
(* of time at every level (30, 60, 300 and 900 s in the code), and so does *)
(* the time after which an unfinished probe counts as stale (20 s).        *)
(***************************************************************************)
EXTENDS UpstreamManager
ShortBackoff == [level \in 1..4 |-> 1]
=============================================================================
