--------------------------- MODULE MCNodeServices ---------------------------
(* Small configurations for NodeServices. *)
EXTENDS NodeServices

L(name, n) == [name |-> name, n |-> n]

\* No file to speak of; a lifetime with checkpoints that do not divide it,
\* repeated entries; a lifetime without checkpoints.
SmallConfigs ==
    {<<>>,
     <<L("checkpoint", 2), L("timeout", 5), L("power", 3), L("np", 2),
       L("power", 1), L("maxjobs", 7), L("maxjobs", -1)>>,
     <<L("checkpoint", -1), L("timeout", 2), L("ram", 4), L("np", -1)>>}

NoConfig == <<L("none", 0)>>
=============================================================================
