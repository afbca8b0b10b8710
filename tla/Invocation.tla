----------------------------- MODULE Invocation -----------------------------
(***************************************************************************)
(* What a parallel object promises its callers, without brokers, threads   *)
(* or queues: the invocation semantics of the three kinds of method that   *)
(* test/method/main.cc illustrates with the time line of eight calls.      *)
(*   mutex  executes alone;                                                *)
(*   seq    executes with no other seq;                                    *)
(*   conc   executes with any conc and with a seq.                         *)
(***************************************************************************)
CONSTANTS Req, Kind

VARIABLES
    active,  \* the invocations that are executing
    ended    \* the requests that will not execute (any more)

\* May two invocations execute at the same time?
Compatible(p, q) ==
    /\ Kind[p] # "mutex"
    /\ Kind[q] # "mutex"
    /\ "conc" \in {Kind[p], Kind[q]}

Init == active = {} /\ ended = {}

Start(q) ==
    /\ q \notin active \cup ended
    /\ \A p \in active : Compatible(p, q)
    /\ active' = active \cup {q}
    /\ UNCHANGED ended

End(q) ==
    /\ q \in active
    /\ active' = active \ {q}
    /\ ended' = ended \cup {q}

\* A request that is answered without executing a method: a core call, or a
\* concurrent call for which no thread could be created.
Refuse(q) ==
    /\ q \notin active \cup ended
    /\ ended' = ended \cup {q}
    /\ UNCHANGED active

Next == \E q \in Req : Start(q) \/ End(q) \/ Refuse(q)

Spec == Init /\ [][Next]_<<active, ended>>
=============================================================================
