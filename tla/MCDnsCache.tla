------------------------------- MODULE MCDnsCache -------------------------------
(* Instances of DnsCache for TLC. *)
EXTENDS DnsCache

\* The answer to "alias" has a CNAME record; both do not fit into the shard.
OneAlias == {"alias"}
TwoNames == {"alias", "plain"}
Sizes == [k \in Keys |-> IF k = "alias" THEN 2 ELSE 1]

Plain == [prefetch |-> FALSE, stale |-> FALSE, optimistic |-> FALSE]
AllModes == {Plain, [Plain EXCEPT !.prefetch = TRUE],
             [Plain EXCEPT !.stale = TRUE], [Plain EXCEPT !.optimistic = TRUE]}

\* Either the rules change or names do.
SomeChange == {[reloads |-> 1, news |-> 0], [reloads |-> 0, news |-> 2]}
=============================================================================
