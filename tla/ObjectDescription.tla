------------------------ MODULE ObjectDescription ------------------------
(***************************************************************************)
(* Object descriptions: what a program asks of the place where an object   *)
(* is created (pop_od), how a description is built, assigned from another  *)
(* one and carried to the job manager by Serialize.                        *)
(*                                                                         *)
(* Floats are integers, -1 meaning "not set"; texts are model values or    *)
(* strings, "" the empty one.  A host is already split by url() into its   *)
(* user, its core and the rest.                                            *)
(***************************************************************************)
EXTENDS Integers, Sequences

Env == [batch : STRING, local : BOOLEAN, cwd : STRING]

\* The constructor.  The batch system of the environment is also the host.
NewOd(env) ==
    [power |-> <<-1, -1>>, memory |-> <<-1, -1>>, bandwidth |-> <<-1, -1>>,
     walltime |-> -1, manual |-> FALSE, batch |-> env.batch,
     host |-> env.batch, user |-> "", hostcore |-> "", arch |-> "",
     isLocal |-> env.local, cwd |-> env.cwd, secure |-> FALSE,
     searchSet |-> FALSE, search |-> <<100, 0, 0>>, service |-> FALSE,
     node |-> -1, core |-> -1, joburl |-> "", executable |-> "",
     platforms |-> "", proto |-> <<>>, encode |-> "", attributes |-> <<>>]

Ordered(require, min) == IF min > require THEN <<min, require>> ELSE <<require, min>>

Power(od, require, min) == [od EXCEPT !.power = Ordered(require, min)]
Memory(od, require, min) == [od EXCEPT !.memory = Ordered(require, min)]
Bandwidth(od, require, min) == [od EXCEPT !.bandwidth = Ordered(require, min)]
Walltime(od, t) == [od EXCEPT !.walltime = t]

\* url(): user@host{core}.  A missing user or core leaves the earlier one.
Url(od, user, host, hostcore) ==
    [od EXCEPT !.user     = IF user = "" THEN @ ELSE user,
               !.hostcore = IF hostcore = "" THEN @ ELSE hostcore,
               !.host     = host,
               !.isLocal  = IF host = "localhost" THEN TRUE ELSE @]

Manual(od, a) == [Url(od, "", "localhost", "") EXCEPT !.manual = a]

Search(od, depth, size, wait) ==
    [od EXCEPT !.searchSet = TRUE, !.search = <<depth, size, wait>>]

\* operator=: what is not listed keeps the value it has in the target.
Assign(od, from) ==
    [od EXCEPT !.power = from.power, !.memory = from.memory,
               !.bandwidth = from.bandwidth, !.walltime = from.walltime,
               !.host = from.host, !.joburl = from.joburl,
               !.executable = from.executable, !.proto = from.proto,
               !.encode = from.encode, !.isLocal = from.isLocal]

\* Serialize, packing: the fields in the order of the message.
Pack(od) ==
    <<od.power, od.memory, od.bandwidth, od.walltime, od.manual, od.cwd,
      od.search, od.host, od.user, od.hostcore, od.arch, od.batch, od.joburl,
      od.executable, od.platforms, od.proto, od.encode, od.attributes>>

\* Serialize, unpacking into od: the setters run again, so the limits are
\* ordered and the search is always marked as set; the manual flag is read
\* into a temporary and stays what it is in od.
UnPack(od, b) ==
    LET sized == Bandwidth(Memory(Power(od, b[1][1], b[1][2]), b[2][1], b[2][2]),
                           b[3][1], b[3][2])
    IN [Search(Walltime(sized, b[4]), b[7][1], b[7][2], b[7][3]) EXCEPT
           !.cwd = b[6], !.host = b[8], !.user = b[9], !.hostcore = b[10],
           !.arch = b[11], !.batch = b[12], !.joburl = b[13],
           !.executable = b[14], !.platforms = b[15], !.proto = b[16],
           !.encode = b[17], !.attributes = b[18]]

\* What the job manager of a node with environment env is given.
Transfer(od, env) == UnPack(NewOd(env), Pack(od))
=============================================================================
