--------------------------- MODULE MCApplication ---------------------------
(* Model values for Application. *)
EXTENDS Application

CONSTANTS o1, o2

Plan(protocol, objects, c, r) ==
    [mode |-> protocol, objs |-> objects, args |-> objects, calls |-> c, refs |-> r,
     marked |-> {}, abnormal |-> FALSE, watch |-> FALSE]

\* Two objects over sockets, one of which may be passed to the other or to
\* itself (the objects are alike, so it is enough to pass o2); the same over Unix
\* domain sockets with the pings watched; and one object that is copied, called
\* and passed, that may call itself and pass `this`, while main may fail; and one
\* whose access point the monitor reads as marked.
MCPlans == {[Plan("socket", {o1, o2}, 1, 1) EXCEPT !.args = {o2}],
            [Plan("uds", {o1, o2}, 1, 1) EXCEPT !.args = {o2}, !.watch = TRUE],
            [Plan("socket", {o1}, 2, 2) EXCEPT !.abnormal = TRUE, !.watch = TRUE],
            [Plan("socket", {o1}, 1, 1) EXCEPT !.marked = {o1}, !.abnormal = TRUE]}
=============================================================================
