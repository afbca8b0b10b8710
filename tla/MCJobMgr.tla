------------------------------ MODULE MCJobMgr ------------------------------
(* Instances of JobMgr for TLC. *)
EXTENDS JobMgr

\* Object descriptions: nothing specified; power only; power and memory, less
\* of both accepted; a search on the grid without a local match, for more time
\* than node n2 gives.
Plain == [flops |-> 0, minflops |-> 0, mem |-> 0, minmem |-> 0, walltime |-> 0,
          search |-> FALSE]
Power == [Plain EXCEPT !.flops = 1, !.minflops = 1, !.walltime = 1]
Large == [Plain EXCEPT !.flops = 2, !.minflops = 1, !.mem = 1, !.minmem = 1,
                         !.walltime = 1]
Search == [Power EXCEPT !.walltime = 2, !.search = TRUE]

AllHome == [c \in Creations |-> IF c = "c2" THEN "n2" ELSE "n1"]
AllHowMany == [c \in Creations |-> IF c \in {"c1", "s1"} THEN 2 ELSE 1]
AllOd == [c \in Creations |-> CASE c = "c1" -> Power
                                 [] c = "c2" -> Large
                                 [] c = "s1" -> Search
                                 [] OTHER    -> Plain]
OneApp == [c \in Creations |-> "a"]
TwoApps == [c \in Creations |-> IF c \in {"c2", "s1"} THEN "b" ELSE "a"]
AllTotal == [n \in Nodes |-> [flops |-> 2, mem |-> 2]]
AllLimit == [n \in Nodes |-> 2]
AllWall == [n \in Nodes |-> IF n = "n2" THEN 1 ELSE -1]
\* Answers of a discovery: none, or both nodes.
FewResponses == {<<>>, <<"n2", "n1">>}
\* Two creations of two applications whose executions fail; one of two objects
\* with every other failure; a search node that dies, an application that ends.
Mix(calls, faults) == [calls |-> calls, faults |-> faults]
MCMixes == {Mix({"c1", "c2"}, {"noanswer"}),
            Mix({"c1"}, {"nocode", "nocodemgr", "jobmgr"}),
            Mix({"c1"}, {"nofork", "noexec", "search"}),
            Mix({"c2", "s1"}, {"search", "end"}),
            Mix({"s1"}, {"jobmgr", "search", "noanswer"})}
=============================================================================
