-------------------------- MODULE MCInterconnector --------------------------
(* Parameters for Interconnector. *)
EXTENDS Interconnector, TLC

CONSTANTS c1, c2
Client(home, makes, node, calls) == [home |-> home, makes |-> makes, node |-> node, calls |-> calls]
\* Two clients of node 0 share an object of node 1; two call across; an object
\* on the node of its client, called from the other; two objects at once; a
\* group of node 0 and one of node 1.
MCDeployments ==
    {c1 :> Client(0, "object", 1, 2) @@ c2 :> Client(0, "nothing", 0, 2),
     c1 :> Client(0, "object", 1, 2) @@ c2 :> Client(1, "object", 0, 1),
     c1 :> Client(0, "object", 2, 0) @@ c2 :> Client(1, "nothing", 0, 3),
     c1 :> Client(0, "object", 1, 0) @@ c2 :> Client(0, "object", 1, 1),
     c1 :> Client(0, "group", 0, 2),
     c1 :> Client(1, "group", 0, 1)}
=============================================================================
