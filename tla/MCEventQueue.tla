--------------------------- MODULE MCEventQueue ---------------------------
(* An instance of EventQueue: three threads, two events. *)
EXTENDS EventQueue

MCTimeouts == {-1, 0, 500}
=============================================================================
