---------------------------- MODULE MCInterface -----------------------------
(* Parameters for Interface. *)
EXTENDS Interface

MCODs == {[protocol |-> <<>>, local |-> TRUE], [protocol |-> <<"uds">>, local |-> TRUE],
          [protocol |-> <<"uds", "socket">>, local |-> TRUE]}
MCAccess == <<"mpi", "socket", "uds">>
=============================================================================
