--------------------------- MODULE MCAllocation ---------------------------
(* An instance of Allocation: two creations of one program, one of another. *)
EXTENDS Allocation

Here == [batch |-> "", local |-> FALSE, cwd |-> "home"]

Local == Url(NewOd(Here), "", "localhost", "")
Unix == [NewOd(Here) EXCEPT !.proto = <<"uds">>]
Typed == Manual(NewOd(Here), TRUE)
Grid == Bandwidth(Memory(Power([NewOd(Here) EXCEPT !.attributes = <<<<"k", "v">>>>],
                               2, 5), 4, -1), 7, 3)

Plugin(h, n, k) == [handle |-> h, name |-> n, metric |-> k, ok |-> TRUE]

\* Two creations of one program unless stated otherwise.
Scenario(od1, od2) ==
    [owner |-> <<11, 11>>, od |-> <<od1, od2>>, class |-> <<"A", "B">>,
     port |-> <<0, 0>>, pattern |-> [m \in {11, 12} |-> ""], mayDie |-> {},
     plugins |-> <<>>, last |-> 2]
TwoPrograms(od1, od2) == [Scenario(od1, od2) EXCEPT !.owner = <<11, 12>>]
MCScenarios ==
    {\* Code is registered meanwhile.
     [Scenario(Local, Unix) EXCEPT !.last = 3],
     \* No code for the platform.
     Scenario([Local EXCEPT !.arch = "pc"], Local),
     \* Both ask for the same port; one of them for a class its code lacks.
     [Scenario([Local EXCEPT !.executable = "a0"], Local) EXCEPT
         !.port = <<1, 1>>, !.class = <<"B", "B">>],
     \* A platform with code of its own, a directory of its own, a crash.
     [Scenario([Local EXCEPT !.arch = "sun"], [Unix EXCEPT !.cwd = "away"]) EXCEPT
         !.mayDie = {1}, !.last = 3],
     \* Two protocols in the description.
     TwoPrograms([Unix EXCEPT !.proto = <<"uds", "socket">>], Local),
     \* Late answers meet the addresses of another program.
     [TwoPrograms(Local, Local) EXCEPT !.mayDie = {11}],
     [TwoPrograms(Unix, Unix) EXCEPT !.mayDie = {11}],
     TwoPrograms(Typed, Local),
     \* Addresses are reordered by the environment; with a plugin there are three.
     [TwoPrograms(Local, Local) EXCEPT !.pattern[11] = "uds", !.pattern[12] = "socket"],
     [TwoPrograms(Local, Local) EXCEPT !.pattern[11] = "uds", !.pattern[12] = "socket",
         !.plugins = <<Plugin("g", "gm", -1)>>],
     \* Through the job manager, with and without a preference.
     [TwoPrograms(Grid, [Grid EXCEPT !.proto = <<"socket">>]) EXCEPT
         !.plugins = <<Plugin("g", "gm", -1)>>]}
MCCodes == "a0" :> <<"A">> @@ "a1" :> <<"A", "B", "A">> @@ "b0" :> <<"B">>
MCConfig == <<[cls |-> "A", platform |-> <<"l", "*">>, code |-> "a0"],
              [cls |-> "B", platform |-> <<"*">>, code |-> "b0"],
              [cls |-> "A", platform |-> <<"l", "*">>, code |-> "a1"]>>
MCPlatform == <<"l", "x">>
MCArch == "sun" :> <<"l", "s">> @@ "pc" :> <<"w">>
MCBuiltIn == <<[name |-> "socket", metric |-> 0], [name |-> "uds", metric |-> 0]>>
Libraries == {Plugin("g", "gm", -1), Plugin("h", "hi", 3), Plugin("k", "ka", 1),
              Plugin("u", "uds", 2), [Plugin("b", "bad", 0) EXCEPT !.ok = FALSE]}
MCPluginLists == UNION {[1..n -> Libraries] : n \in 0..3}
MCTexts == UNION {[1..n -> {"a", "b"}] : n \in 0..3}
MCWildcards == UNION {[1..n -> {"a", "b", "?", "*"}] : n \in 0..4}
=============================================================================
