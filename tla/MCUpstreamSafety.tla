---------------------------- MODULE MCUpstreamSafety ----------------------------
(***************************************************************************)
(* UpstreamManager with threads of every kind.  What they do to each other *)
(* they do in pairs, so two of them are at work in every behaviour.        *)
(***************************************************************************)
EXTENDS MCUpstreamManager

TheForwarders == {"forwarder"}
TheProbers == {"recovery worker", "probe-all"}
TheAdmins == {"web request"}

Pairs ==
    {{"recovery worker", "probe-all"},
     {"forwarder", "recovery worker"},
     {"web request", "recovery worker"}}
=============================================================================
