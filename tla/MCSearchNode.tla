---------------------------- MODULE MCSearchNode ----------------------------
(* An instance of SearchNode for TLC. *)
EXTENDS SearchNode

\* A discovery on a cycle of four nodes, where opposite nodes have two ways and one
\* may die; two discoveries, at once on a path and one after the other on a cycle;
\* a discovery and the end of an application on a triangle, where a node registers
\* again.
Far == -20
Square == (1 :> <<2, 3>>) @@ (2 :> <<1, 4>>) @@ (3 :> <<1, 4>>) @@ (4 :> <<2, 3>>)
Path == (1 :> <<2>>) @@ (2 :> <<1, 4>>) @@ (3 :> <<>>) @@ (4 :> <<2>>)
Triangle == (1 :> <<2, 3>>) @@ (2 :> <<1, 3>>) @@ (3 :> <<1, 2>>) @@ (4 :> <<>>)
Ring == (1 :> <<2, 4>>) @@ (2 :> <<1, 4>>) @@ (3 :> <<>>) @@ (4 :> <<2, 1>>)
Nobody == [n \in Node |-> {}]
MCWorlds == {[graph |-> Square, parents |-> Nobody, calls |-> {"first"}, crash |-> {3},
              apart |-> FALSE],
             [graph |-> Ring, parents |-> Nobody, calls |-> {"first", "near"}, crash |-> {},
              apart |-> TRUE],
             [graph |-> Path, parents |-> Nobody, calls |-> {"first", "near"}, crash |-> {},
              apart |-> FALSE],
             [graph |-> Triangle, parents |-> [Nobody EXCEPT ![2] = {1}],
              calls |-> {"first", "end"}, crash |-> {}, apart |-> FALSE]}
AllOrigin == [r \in Req |-> IF r = "near" THEN 4 ELSE 1]
AllHops == [r \in Req |-> IF r = "near" THEN 1 ELSE Unlimited]
Nothing == [minPower |-> 0, expPower |-> 0, minMem |-> 0, expMem |-> 0, minBw |-> 0,
            expBw |-> 0, minCpu |-> 0, expCpu |-> 0, minDisk |-> 0]
AllWant == [r \in Req |-> IF r = "near" THEN Nothing
                          ELSE [Nothing EXCEPT !.minPower = 2, !.expPower = 2, !.expMem = 1]]
\* Node 2 is too weak, node 3 has too little memory.
AllInfo == [n \in Node |-> [power |-> IF n = 2 THEN 1 ELSE 2, mem |-> IF n = 3 THEN 1 ELSE 2,
                            bandwidth |-> 0, cpu |-> 0, disk |-> 0, jobs |-> 0]]
=============================================================================
