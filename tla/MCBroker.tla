------------------------------ MODULE MCBroker ------------------------------
(* Instances of Broker for TLC.  A request is named after its kind. *)
EXTENDS Broker

\* Two comboxes, hence two receive threads; a client on each.
MCRcv == {"r1", "r2"}
MCConn == {"a", "b"}
MCVia == [c \in MCConn |-> IF c = "a" THEN "r1" ELSE "r2"]

\* Every request a configuration may name, with its constants.
AllKind == [q \in Req |->
    CASE q \in {"conc1", "conc2", "conc3"}     -> "conc"
      [] q \in {"mutex1", "mutex2", "ctor"}    -> "mutex"
      [] OTHER                                 -> "seq"]
AllCall == [q \in Req |->
    CASE q = "ctor"   -> "constructor"
      [] q = "addref" -> "AddRef"
      [] q = "decref" -> "DecRef"
      [] q = "kill"   -> "Kill"
      [] OTHER        -> "method"]
AllFrom == [q \in Req |->
    IF q \in {"conc1", "mutex1", "seq1", "ctor", "addref"} THEN "a" ELSE "b"]

\* Calls of every kind from two clients; the reference calls and the end of an
\* object; two mutex calls around others.
MCBatches == {{"conc1", "conc2", "mutex1", "seq2"},
              {"ctor", "addref", "decref", "kill", "conc2"},
              {"conc2", "mutex1", "mutex2", "seq2"}}
=============================================================================
