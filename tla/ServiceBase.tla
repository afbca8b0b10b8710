---------------------------- MODULE ServiceBase ----------------------------
(***************************************************************************)
(* pop_service_base: the object every runtime service derives from.  A     *)
(* service in daemon mode is not counted: it lives without references and  *)
(* cannot be killed.  Start enters the mode, Stop leaves it.               *)
(*                                                                         *)
(* A service is a record: phase is the life of its process ("building"     *)
(* while its constructor runs, when the broker has no object yet), refs    *)
(* and daemon are refcount and daemonMode, challenge is mychallenge.       *)
(***************************************************************************)
EXTENDS Integers

Phases == {"none", "building", "alive", "ending", "gone"}

NoService == [phase |-> "none", refs |-> 0, daemon |-> FALSE, challenge |-> ""]

\* The constructor begins: pop_object counts its creator.
NewService(challenge) ==
    [phase |-> "building", refs |-> 1, daemon |-> FALSE, challenge |-> challenge]

\* Mutant of AddRef: a service in daemon mode is counted up.
AddRefAlways(s) == [s EXCEPT !.refs = @ + 1]

AddRef(s) == IF s.daemon THEN s ELSE [s EXCEPT !.refs = @ + 1]

DecRef(s) == IF s.daemon THEN s ELSE [s EXCEPT !.refs = @ - 1]

CanKill(s) == ~s.daemon

\* Start drops the references held so far, then enters the mode.
Start(s) == [s EXCEPT !.refs = IF @ > 1 THEN 1 ELSE @, !.daemon = TRUE]

Accepts(s, challenge) == s.challenge \in {challenge, ""}

\* Stop leaves the mode; it drops no reference.
Stop(s, challenge) ==
    IF Accepts(s, challenge) THEN [s EXCEPT !.daemon = FALSE] ELSE s

\* The broker counts a connection only once it has the object.
OnNewConnection(s) == IF s.phase = "alive" THEN AddRef(s) ELSE s

OnCloseConnection(s) == IF s.phase = "alive" THEN DecRef(s) ELSE s

\* A process with an open combox, whether its object exists or not.
Connectable(s) == s.phase \in {"building", "alive"}

=============================================================================
