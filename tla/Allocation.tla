---------------------------- MODULE Allocation ----------------------------
(***************************************************************************)
(* The creation of objects by the local allocators, from the description   *)
(* to the connected interface: the code manager gives the executable, the  *)
(* creator listens for the answer of the process it starts, the process    *)
(* builds its broker, answers with its addresses and serves, and the       *)
(* interface binds to one of them and constructs the object.               *)
(*                                                                         *)
(* Every creation c has at most one process, also called c.  The owners    *)
(* are the programs the creations belong to; creations of one owner are    *)
(* made by its threads.  Everything happens on one node, so that addresses *)
(* meet: a TCP port is taken while a socket is open on it, a Unix address  *)
(* while its file exists.  A process that is forked inherits every open    *)
(* descriptor of its owner, for RunCmd closes none; a socket is closed     *)
(* when the last of its holders closed it.  The object a process serves    *)
(* counts the connections its comboxes tell it of: those of a Unix socket  *)
(* are opened and closed without a word.  The connection of an object to   *)
(* itself is not here: it is not counted and ends with its process.        *)
(*                                                                         *)
(* Bounds: one creation per c, Ports and Files addresses, Config lines of  *)
(* code, and the Scenarios: who asks for what, with which plugins, up to   *)
(* which line the code is registered meanwhile, and which processes and    *)
(* owners may crash.                                                       *)
(***************************************************************************)
EXTENDS ObjectDescription, Factories, FiniteSetsExt

CONSTANTS
    Creations,      \* creations, integers
    Owners,         \* programs, integers that are no creations
    Scenarios,      \* what the programs ask for; see below
    Codes,          \* [executable -> classes linked into it, as registered]
    Config,         \* lines [cls, platform, code] of the code configuration
    Platform,       \* platform of the node, a text
    ArchText,       \* [od.arch -> text]
    PluginLists,    \* plugins the tables are checked with
    Texts, Wildcards,   \* texts and wildcards the matching is checked with
    Preset,         \* lines registered before the programs run
    Ports, Files,   \* numbers of TCP ports and of Unix addresses
    JmEnv           \* environment of the job manager

ASSUME AllocationAssumption ==
    /\ Creations \subseteq Nat /\ Owners \subseteq Nat
    /\ Creations \cap Owners = {}
    /\ \A s \in Scenarios : /\ s.owner \in [Creations -> Owners]
                            /\ s.last \in Preset..Len(Config)
                            /\ s.mayDie \subseteq Creations \cup Owners
    /\ Ports \subseteq Nat \ {0} /\ Files \subseteq Nat
    /\ Preset \in 0..Len(Config)

None == 0
NoCode == "none"
NoMsg == [from |-> None, status |-> 1, addrs |-> <<>>]

VARIABLES
    asked,      \* the scenario
    protocols,  \* names of the protocols, in order; all processes share
                \* the environment that names the plugins
    info,       \* CodeMgr: [objname, platform |-> <<[platform, codefile]>>]
    line,       \* lines of Config registered so far
    up,         \* owners that are running
    cl,         \* [Creations -> the creating thread]
    cb,         \* [Creations -> its callback socket]
    ps,         \* [Creations -> its process]
    conn,       \* [Creations -> the connection of its interface]
    files,      \* Unix addresses whose file exists
    jobod       \* [Creations -> the description the job manager got]

vars == <<asked, protocols, info, line, up, cl, cb, ps, conn, files, jobod>>

Owner == asked.owner            \* [Creations -> Owners]
Od == asked.od                  \* [Creations -> object description]
Class == asked.class            \* [Creations -> class]
Port == asked.port              \* [Creations -> port asked for in the url, or 0]
CommPattern == asked.pattern    \* [Owners -> POPC_COMM_PATTERN: a protocol or ""]
MayDie == asked.mayDie          \* processes and owners that may crash

Holders == Creations \cup Owners
Final == {"failed", "made", "released"}
Live == {"forked", "connected", "ready", "running", "asleep", "leaving"}

-----------------------------------------------------------------------------
(* Addresses: <<protocol, number>>. *)

Serving(p) == ps[p].st \in {"ready", "running", "asleep"}
TakenPorts ==
    {cb[c].n : c \in {d \in Creations : cb[d].proto = "socket" /\ cb[d].holders # {}}}
      \cup UNION {{a[2] : a \in {b \in Range(ps[p].addrs) : b[1] = "socket"}} :
                     p \in {q \in Creations : Serving(q)}}
FreePorts == Ports \ TakenPorts

\* The port the kernel gives: the lowest free one, so that a port is taken
\* again as soon as it can be.
FreshPort == IF FreePorts = {} THEN {} ELSE {Min(FreePorts)}

\* popc_combox_uds::Create without an address: the first name that can be
\* bound; an existing file, even of a dead process, is passed over.
FreeFile == IF Files \subseteq files THEN {} ELSE {Min(Files \ files)}

FreeAddr(proto) == IF proto = "uds" THEN FreeFile ELSE FreshPort

-----------------------------------------------------------------------------
(* The code manager. *)

RegisterCode(db, objname, platform, codefile) ==
    LET here == {i \in DOMAIN db : db[i].objname = objname}
        new == [platform |-> platform, codefile |-> codefile]
    IN IF here = {}
       THEN Append(db, [objname |-> objname, platform |-> <<new>>])
       ELSE LET i == Min(here)
                same == {j \in DOMAIN db[i].platform : db[i].platform[j].platform = platform}
            IN IF same = {} THEN [db EXCEPT ![i].platform = Append(@, new)]
               ELSE [db EXCEPT ![i].platform[Min(same)].codefile = codefile]

\* The first entry of the class whose wildcard matches the platform.
QueryCode(db, objname, platform) ==
    LET here == {i \in DOMAIN db : db[i].objname = objname}
    IN IF here = {} THEN NoCode
       ELSE LET e == db[Min(here)].platform
                fits == {j \in DOMAIN e : MatchWildcard(platform, e[j].platform)}
            IN IF fits = {} THEN NoCode ELSE e[Min(fits)].codefile

\* The code of an application is registered before its program runs.
Init ==
    /\ asked \in Scenarios
    /\ protocols = ProtocolNames(Protocols(asked.plugins))
    /\ line = Preset
    /\ info = FoldLeft(LAMBDA db, i : RegisterCode(db, Config[i].cls, Config[i].platform,
                                                   Config[i].code),
                       <<>>, [i \in 1..Preset |-> i])
    /\ up = Owners
    /\ cl = [c \in Creations |-> [pc |-> "idle", code |-> NoCode, at |-> 0,
                                  got |-> NoMsg, left |-> <<>>]]
    /\ cb = [c \in Creations |-> [proto |-> "", n |-> 0, linked |-> FALSE,
                                  holders |-> {}, mail |-> <<>>]]
    /\ ps = [c \in Creations |-> [st |-> "none", cb |-> <<"", 0>>, to |-> None,
                                  status |-> 1, addrs |-> <<>>,
                                  obj |-> FALSE, refs |-> 0]]
    /\ conn = [c \in Creations |-> [to |-> None, proto |-> "", holders |-> {}]]
    /\ files = {}
    /\ jobod = [c \in Creations |-> <<>>]

\* InitCodeService, one more line: a launcher that registers code for a
\* service others already use.  The calls are synchronous.
InitCodeService ==
    /\ line < asked.last
    /\ line' = line + 1
    /\ info' = RegisterCode(info, Config[line + 1].cls, Config[line + 1].platform,
                            Config[line + 1].code)
    /\ UNCHANGED <<asked, protocols, up, cl, cb, ps, conn, files, jobod>>

-----------------------------------------------------------------------------
(* The creator: pop_interface::Allocate and the local allocators. *)

\* p is gone: it holds nothing any more.
Drop(p, f) == [c \in Creations |-> [f[c] EXCEPT !.holders = @ \ {p}]]

OwnerGone(m) ==
    /\ up' = up \ {m}
    /\ cb' = Drop(m, cb)
    /\ conn' = Drop(m, conn)

\* The mechanism: Unix sockets and everything with a place of its own are
\* allocated here, the rest through the job manager.  The description may name
\* one protocol of the two or none; anything else, two protocols in a list or
\* the one of a plugin, has no allocator.
Protocol(c) == IF Od[c].proto = <<>> THEN <<"socket">> ELSE Od[c].proto
HasAllocator(c) == Protocol(c) \in {<<"socket">>, <<"uds">>}
LocalAllocator(c) ==
    Protocol(c) = <<"uds">> \/ Od[c].isLocal \/ Od[c].host # "" \/ Od[c].batch # ""
CallbackProto(c) == IF Od[c].proto = <<"uds">> THEN "uds" ELSE "socket"

CodeOf(c) ==
    IF Od[c].executable # "" THEN Od[c].executable
    ELSE QueryCode(info, Class[c],
                   IF Od[c].arch = "" THEN Platform ELSE ArchText[Od[c].arch])

Fail(c) == cl' = [cl EXCEPT ![c].pc = "failed"]

\* The missing allocator is used all the same: the program dies.
NoAllocator(c) ==
    /\ cl[c].pc = "idle" /\ Owner[c] \in up /\ ~HasAllocator(c)
    /\ OwnerGone(Owner[c])
    /\ UNCHANGED <<asked, protocols, info, line, cl, ps, files, jobod>>

\* The executable is looked up and the callback combox created.
Allocate(c) ==
    LET code == CodeOf(c)
        proto == CallbackProto(c)
    IN /\ cl[c].pc = "idle" /\ Owner[c] \in up
       /\ HasAllocator(c) /\ LocalAllocator(c)
       /\ IF code = NoCode \/ FreeAddr(proto) = {}
          THEN /\ cl' = [cl EXCEPT ![c].pc = "failed", ![c].at = line]
               /\ UNCHANGED <<cb, files>>
          ELSE \E n \in FreeAddr(proto) :
                  /\ cl' = [cl EXCEPT ![c].pc = "run", ![c].code = code, ![c].at = line]
                  /\ cb' = [cb EXCEPT ![c] = [proto |-> proto, n |-> n, linked |-> TRUE,
                                              holders |-> {Owner[c]}, mail |-> <<>>]]
                  /\ files' = IF proto = "uds" THEN files \cup {n} ELSE files
       /\ UNCHANGED <<asked, protocols, info, line, up, ps, conn, jobod>>

Inherit(m, p, f) ==
    [c \in Creations |-> IF m \in f[c].holders THEN [f[c] EXCEPT !.holders = @ \cup {p}]
                                               ELSE f[c]]

\* fork: the child holds everything its parent has open.
RunCmd(c) ==
    /\ ps' = [ps EXCEPT ![c].st = "forked", ![c].cb = <<cb[c].proto, cb[c].n>>]
    /\ cb' = Inherit(Owner[c], c, cb)
    /\ conn' = Inherit(Owner[c], c, conn)

\* The process is started, or the command shown for the user to type.
Run(c) ==
    /\ cl[c].pc = "run" /\ Owner[c] \in up
    /\ cl' = [cl EXCEPT ![c].pc = "wait"]
    /\ IF Od[c].manual /\ cb[c].proto = "socket"
       THEN /\ ps' = [ps EXCEPT ![c].st = "typed", ![c].cb = <<cb[c].proto, cb[c].n>>]
            /\ UNCHANGED <<cb, conn>>
       ELSE RunCmd(c)
    /\ UNCHANGED <<asked, protocols, info, line, up, files, jobod>>

\* RunCmd returns the error of a fork that failed, which is not -1: the
\* allocator waits all the same.
RunFails(c) ==
    /\ cl[c].pc = "run" /\ Owner[c] \in up /\ c \in MayDie
    /\ cl' = [cl EXCEPT ![c].pc = "wait"]
    /\ UNCHANGED <<asked, protocols, info, line, up, cb, ps, conn, files, jobod>>

CloseCallback(c) ==
    /\ cb' = [cb EXCEPT ![c].holders = @ \ {Owner[c]},
                        ![c].linked = cb[c].proto = "socket"]
    /\ files' = IF cb[c].proto = "uds" THEN files \ {cb[c].n} ELSE files

\* The answer: a status and the addresses.  Only a good one is followed by
\* the close of the callback combox.
Receive(c) ==
    /\ cl[c].pc = "wait" /\ Owner[c] \in up /\ cb[c].mail # <<>>
    /\ LET msg == Head(cb[c].mail)
       IN IF msg.status # 0
          THEN /\ cl' = [cl EXCEPT ![c].pc = "failed"]
               /\ UNCHANGED <<cb, files>>
          ELSE /\ cl' = [cl EXCEPT ![c].pc = "bind", ![c].got = msg,
                                   ![c].left = msg.addrs]
               /\ CloseCallback(c)
    /\ UNCHANGED <<asked, protocols, info, line, up, ps, conn, jobod>>

\* The time bounds the wait for data.  Over a Unix socket that is the poll
\* only: once somebody has connected, the read waits for what he sends, or for
\* the end of the connection, without a limit.
Overdue(c) ==
    /\ cl[c].pc = "wait" /\ Owner[c] \in up /\ cb[c].mail = <<>>
    /\ cb[c].proto = "uds" => \A p \in Creations :
          ~(ps[p].to = c /\ ps[p].st \in {"connected", "ready"})

\* Mutant of AllocTimeout: the callback combox is closed.
AllocTimeoutCloses(c) ==
    /\ Overdue(c)
    /\ Fail(c) /\ CloseCallback(c)
    /\ UNCHANGED <<asked, protocols, info, line, up, ps, conn, jobod>>

\* Mutant of AllocTimeout: only a process that was started is waited for with
\* a time.
AllocTimeoutStarted(c) ==
    /\ Overdue(c) /\ ps[c].st # "none"
    /\ Fail(c)
    /\ UNCHANGED <<asked, protocols, info, line, up, cb, ps, conn, files, jobod>>

\* ALLOC_TIMEOUT: an exception; the combox stays as it is.
AllocTimeout(c) ==
    /\ Overdue(c)
    /\ Fail(c)
    /\ UNCHANGED <<asked, protocols, info, line, up, cb, ps, conn, files, jobod>>

\* socket_allocator_service: the description goes to the job manager.
ServiceAllocate(c) ==
    /\ cl[c].pc = "idle" /\ Owner[c] \in up
    /\ HasAllocator(c) /\ ~LocalAllocator(c)
    /\ cl' = [cl EXCEPT ![c].pc = "service"]
    /\ jobod' = [jobod EXCEPT ![c] = Transfer(Od[c], JmEnv)]
    /\ UNCHANGED <<asked, protocols, info, line, up, cb, ps, conn, files>>

-----------------------------------------------------------------------------
(* The process: main of an object's executable, and its broker. *)

Ended(p) ==
    /\ ps' = [ps EXCEPT ![p].st = "ended"]
    /\ cb' = Drop(p, cb)
    /\ conn' = Drop(p, conn)

UnixFiles(p) == {a[2] : a \in {b \in Range(ps[p].addrs) : b[1] = "uds"}}

\* The user types the command that was shown; nothing is inherited.
ManualStart(p) ==
    /\ ps[p].st = "typed"
    /\ ps' = [ps EXCEPT ![p].st = "forked"]
    /\ UNCHANGED <<asked, protocols, info, line, up, cl, cb, conn, files, jobod>>

\* The callback sockets an address leads to.
Listening(a) == {c \in Creations : /\ cb[c].holders # {} /\ cb[c].linked
                                   /\ <<cb[c].proto, cb[c].n>> = a}

ConnectCallback(p) ==
    /\ ps[p].st = "forked"
    /\ LET there == Listening(ps[p].cb)
       IN IF there = {} THEN Ended(p)
          ELSE /\ \E l \in there : ps' = [ps EXCEPT ![p].st = "connected", ![p].to = l]
               /\ UNCHANGED <<cb, conn>>
    /\ UNCHANGED <<asked, protocols, info, line, up, cl, files, jobod>>

\* The addresses of a new broker, one per protocol and in their order; a
\* protocol of a plugin has an address of its own.
PortChoice(p) == IF Port[p] = 0 THEN FreshPort ELSE {Port[p]} \cap FreePorts
Addresses(p, port, file) ==
    [i \in DOMAIN protocols |->
        <<protocols[i], CASE protocols[i] = "socket" -> port
                             [] protocols[i] = "uds"    -> file
                             [] OTHER                      -> p>>]

\* pop_broker_factory::Create, then pop_broker::Initialize.
Initialize(p) ==
    /\ ps[p].st = "connected"
    /\ IF HasBroker(Codes[cl[p].code], Class[p]) /\ PortChoice(p) # {} /\ FreeFile # {}
       THEN \E port \in PortChoice(p), file \in FreeFile :
               /\ ps' = [ps EXCEPT ![p].st = "ready", ![p].status = 0,
                                   ![p].addrs = Addresses(p, port, file)]
               /\ files' = files \cup {file}
       ELSE /\ ps' = [ps EXCEPT ![p].st = "ready"]
            /\ UNCHANGED files
    /\ UNCHANGED <<asked, protocols, info, line, up, cl, cb, conn, jobod>>

\* The acknowledgement, then the directory of the object, then Run; a
\* process whose broker failed, or whose answer cannot be sent, ends.
SendAck(p) ==
    LET l == ps[p].to
        sent == cb[l].holders # {}
    IN /\ ps[p].st = "ready"
       /\ IF sent /\ ps[p].status = 0
          THEN /\ ps' = [ps EXCEPT ![p].st = "running"]
               /\ cb' = [cb EXCEPT ![l].mail = Append(@, [from |-> p, status |-> 0,
                                                          addrs |-> ps[p].addrs])]
               /\ UNCHANGED <<conn, files>>
          ELSE /\ ps' = [ps EXCEPT ![p].st = "ended"]
               /\ cb' = Drop(p, IF sent THEN [cb EXCEPT ![l].mail =
                                                 Append(@, [NoMsg EXCEPT !.from = p])]
                                        ELSE cb)
               /\ conn' = Drop(p, conn)
               /\ files' = files \ UnixFiles(p)
       /\ UNCHANGED <<asked, protocols, info, line, up, cl, jobod>>

\* A connection of c was closed.  A combox of Unix sockets has nobody told;
\* the others (a plugin is taken to do as TCP does) call OnCloseConnection,
\* which gives the reference back if there is an object.  The broadcast is made
\* without the mutex: a broker that has looked at the count and is about to
\* wait misses it, and only a later one makes it look again.
NoticeClose(c) ==
    LET p == conn[c].to
        left == ps[p].refs - 1
    IN /\ p # None /\ conn[c].proto \notin {"", "uds"} /\ conn[c].holders = {}
       /\ ps[p].st \in {"running", "asleep"}
       /\ conn' = [conn EXCEPT ![c].proto = ""]
       /\ IF ~ps[p].obj THEN UNCHANGED ps
          ELSE IF left > 0 THEN ps' = [ps EXCEPT ![p].refs = left]
          ELSE \E st \in {"leaving", "asleep"} :
                  ps' = [ps EXCEPT ![p].refs = left, ![p].st = st]
       /\ UNCHANGED <<asked, protocols, info, line, up, cl, cb, files, jobod>>

\* Run has left its loop: the broker closes its comboxes and the process ends.
\* A relative Unix address is not found from another directory.
Leave(p) ==
    /\ ps[p].st = "leaving"
    /\ Ended(p)
    /\ files' = IF Od[p].cwd = JmEnv.cwd THEN files \ UnixFiles(p) ELSE files
    /\ UNCHANGED <<asked, protocols, info, line, up, cl, jobod>>

\* Nobody constructs an object: the alarm ends the process, as it is, be the
\* creator slow or gone.
Expire(p) ==
    /\ ps[p].st = "running" /\ ~ps[p].obj
    /\ Ended(p)
    /\ UNCHANGED <<asked, protocols, info, line, up, cl, files, jobod>>

\* The process dies, or could not be executed.
ProcessDies(p) ==
    /\ ps[p].st \in Live /\ p \in MayDie
    /\ Ended(p)
    /\ UNCHANGED <<asked, protocols, info, line, up, cl, files, jobod>>

\* The job manager answers: it could not, or the object serves.
ServiceAnswer(c) ==
    /\ cl[c].pc = "service" /\ Owner[c] \in up
    /\ \/ /\ Fail(c) /\ UNCHANGED <<ps, files>>
       \/ \E port \in FreshPort, file \in FreeFile :
             LET msg == [from |-> c, status |-> 0, addrs |-> Addresses(c, port, file)]
             IN /\ ps' = [ps EXCEPT ![c].st = "running", ![c].status = 0,
                                    ![c].addrs = msg.addrs]
                /\ files' = files \cup {file}
                /\ cl' = [cl EXCEPT ![c].pc = "bind", ![c].got = msg, ![c].left = msg.addrs]
    /\ UNCHANGED <<asked, protocols, info, line, up, cb, conn, jobod>>

-----------------------------------------------------------------------------
(* The interface: pop_interface::Bind. *)

Capacity(n) == CHOOSE k \in {1, 2, 4, 8} : n <= k /\ \A j \in {1, 2, 4, 8} : n <= j => k <= j
Matches(pattern, a) == pattern # "" /\ a[1] = pattern

\* ApplyCommPattern, one address: a match that is not at the head is inserted
\* there, and what has moved to its old place is erased.
PatternStep(pattern, t, pos) ==
    IF ~Matches(pattern, t.list[pos]) THEN t
    ELSE IF t.head = pos THEN [t EXCEPT !.head = @ + 1]
    ELSE [t EXCEPT !.list = RemoveAt(InsertAt(@, t.head, t.list[pos]), pos)]
ApplyCommPattern(pattern, list) ==
    IF pattern = "" THEN list
    ELSE FoldLeft(LAMBDA t, pos : PatternStep(pattern, t, pos),
                  [list |-> list, head |-> 1], [i \in DOMAIN list |-> i]).list

\* The insertion reallocates a full vector, whose iterators are used after.
PatternCrashes(pattern, list) ==
    /\ \E i, j \in DOMAIN list : i < j /\ Matches(pattern, list[j]) /\ ~Matches(pattern, list[i])
    /\ Len(list) = Capacity(Len(list))

\* A preference admits its protocol only; the factory must know it.
Acceptable(c, a) ==
    /\ a[1] \in Range(protocols)
    /\ Od[c].proto # <<>> => a[1] \in Range(Od[c].proto)

\* Bind(accesspoint): the list is ordered, then tried from the front.
BindOrder(c) ==
    LET pattern == CommPattern[Owner[c]]
    IN /\ cl[c].pc = "bind" /\ Owner[c] \in up
       /\ IF PatternCrashes(pattern, cl[c].left)
          THEN /\ OwnerGone(Owner[c])
               /\ UNCHANGED cl
          ELSE /\ cl' = [cl EXCEPT ![c].pc = "try",
                                   ![c].left = ApplyCommPattern(pattern, @)]
               /\ UNCHANGED <<up, cb, conn>>
       /\ UNCHANGED <<asked, protocols, info, line, ps, files, jobod>>

ServerAt(a) == {p \in Creations : Serving(p) /\ a \in Range(ps[p].addrs)}

\* An object that is there already counts the connection, unless it comes
\* through a Unix socket.
BindNext(c) ==
    /\ cl[c].pc = "try" /\ Owner[c] \in up
    /\ IF cl[c].left = <<>> THEN Fail(c) /\ UNCHANGED <<conn, ps>>
       ELSE LET a == Head(cl[c].left)
            IN IF Acceptable(c, a) /\ ServerAt(a) # {}
               THEN \E p \in ServerAt(a) :
                       /\ cl' = [cl EXCEPT ![c].pc = "bound"]
                       /\ conn' = [conn EXCEPT ![c] = [to |-> p, proto |-> a[1],
                                                       holders |-> {Owner[c]}]]
                       /\ ps' = [ps EXCEPT ![p].refs =
                                    IF ps[p].obj /\ a[1] # "uds" THEN @ + 1 ELSE @]
               ELSE /\ cl' = [cl EXCEPT ![c].left = Tail(@)]
                    /\ UNCHANGED <<conn, ps>>
    /\ UNCHANGED <<asked, protocols, info, line, up, cb, files, jobod>>

CloseInterface(c) == [conn EXCEPT ![c].holders = @ \ {Owner[c]}]

\* The constructor of the object is called, and runs once the broker does.
\* The object is born with one reference.
Construct(c) ==
    LET p == conn[c].to
    IN /\ cl[c].pc = "bound" /\ Owner[c] \in up
       /\ ps[p].st \in {"running", "asleep"} /\ Class[c] = Class[p]
       /\ cl' = [cl EXCEPT ![c].pc = "made"]
       /\ ps' = [ps EXCEPT ![p].st = "running", ![p].obj = TRUE, ![p].refs = 1]
       /\ UNCHANGED <<asked, protocols, info, line, up, cb, conn, files, jobod>>

\* Or it throws, is not found in another class, or the process is gone: an
\* exception destroys the interface.  A broker that has no object after a call
\* of a constructor leaves Run; one that slept looks at its count again.
ConstructFails(c) ==
    LET p == conn[c].to
        served == ps[p].st \in {"running", "asleep"}
    IN /\ cl[c].pc = "bound" /\ Owner[c] \in up
       /\ \/ ps[p].st \in {"ended", "leaving"}
          \/ served /\ (Class[c] # Class[p] \/ c \in MayDie)
       /\ Fail(c)
       /\ conn' = CloseInterface(c)
       /\ ps' = IF served /\ (~ps[p].obj \/ ps[p].refs <= 0)
                THEN [ps EXCEPT ![p].st = "leaving"] ELSE ps
       /\ UNCHANGED <<asked, protocols, info, line, up, cb, files, jobod>>

\* The interface is destroyed: its socket is closed.
Release(c) ==
    /\ cl[c].pc = "made" /\ Owner[c] \in up
    /\ cl' = [cl EXCEPT ![c].pc = "released"]
    /\ conn' = CloseInterface(c)
    /\ UNCHANGED <<asked, protocols, info, line, up, cb, ps, files, jobod>>

\* A program ends, or is killed.
OwnerEnds(m) ==
    /\ m \in up
    /\ m \in MayDie \/ \A c \in Creations : Owner[c] = m => cl[c].pc \in Final
    /\ OwnerGone(m)
    /\ UNCHANGED <<asked, protocols, info, line, cl, ps, files, jobod>>

Creator(c) ==
    \/ NoAllocator(c) \/ Allocate(c) \/ Run(c) \/ RunFails(c) \/ Receive(c) \/ AllocTimeout(c)
    \/ ServiceAllocate(c) \/ ServiceAnswer(c)
    \/ BindOrder(c) \/ BindNext(c) \/ Construct(c) \/ ConstructFails(c) \/ Release(c)

Process(p) ==
    \/ ManualStart(p) \/ ConnectCallback(p) \/ Initialize(p) \/ SendAck(p)
    \/ NoticeClose(p) \/ Leave(p) \/ Expire(p) \/ ProcessDies(p)

Next ==
    \/ InitCodeService
    \/ \E c \in Creations : Creator(c) \/ Process(c)
    \/ \E m \in Owners : OwnerEnds(m)

Spec == Init /\ [][Next]_vars

\* A thread that creates an object and a process that was started run on;
\* nobody has to release, to type a command or to end a program.
Fairness ==
    \A c \in Creations :
       /\ WF_vars(Run(c) \/ Receive(c) \/ AllocTimeout(c) \/ ServiceAnswer(c)
                    \/ BindOrder(c) \/ BindNext(c) \/ Construct(c) \/ ConstructFails(c))
       /\ WF_vars(ConnectCallback(c) \/ Initialize(c) \/ SendAck(c)
                    \/ Leave(c) \/ Expire(c))
       /\ WF_vars(NoticeClose(c))

FairSpec == Spec /\ Fairness

-----------------------------------------------------------------------------
(* Properties. *)

TypeOK ==
    /\ asked \in Scenarios /\ Names(BuiltIn) \subseteq Range(protocols)
    /\ line \in 0..Len(Config) /\ up \subseteq Owners
    /\ \A c \in Creations :
          /\ cl[c].pc \in Final \cup {"idle", "run", "wait", "service", "bind", "try", "bound"}
          /\ cl[c].got.from \in Creations \cup {None}
          /\ cb[c].proto \in {"", "socket", "uds"} /\ cb[c].holders \subseteq Holders
          /\ ps[c].st \in Live \cup {"none", "typed", "ended"}
          /\ ps[c].to \in Creations \cup {None} /\ ps[c].refs \in Int
          /\ conn[c].to \in Creations \cup {None} /\ conn[c].holders \subseteq Holders
    /\ files \subseteq Files

\* An interface is connected to the process its own creation started: the
\* answer it used came from that process, however late the answers of other
\* creations are and although their addresses are taken again.  Two things
\* break the tie: a command typed after the program that asked for it ended,
\* and a process that died between its answer and the binding.
TiedToOwn ==
    \A c \in Creations :
       /\ cl[c].got.from \notin {None, c} => Od[cl[c].got.from].manual
       /\ conn[c].to \notin {None, cl[c].got.from} => ps[cl[c].got.from].st = "ended"

\* A process runs the executable that was registered last for its class and
\* the platform wanted, among what was registered when it was asked for.
RightCode ==
    \A c \in Creations :
       cl[c].code # NoCode /\ Od[c].executable = "" =>
          \E i \in 1..cl[c].at :
             /\ Config[i].cls = Class[c] /\ Config[i].code = cl[c].code
             /\ Denotes(Config[i].platform,
                        IF Od[c].arch = "" THEN Platform ELSE ArchText[Od[c].arch])
             /\ \A j \in (i + 1)..cl[c].at :
                   Config[j].cls = Class[c] => Config[j].platform # Config[i].platform

\* The file of a Unix address that nobody listens on is explained by a
\* creation that failed, a process that died or waited in vain for its object,
\* or one that changed its directory; otherwise names would run out.
FilesAccounted ==
    \A n \in files :
       \/ \E c \in Creations : /\ cb[c].proto = "uds" /\ cb[c].n = n /\ cb[c].linked
                              /\ cl[c].pc \in {"run", "wait", "failed"}
       \/ \E p \in Creations :
             /\ <<"uds", n>> \in Range(ps[p].addrs)
             /\ \/ Serving(p) \/ ps[p].st = "leaving"
                \/ Od[p].cwd # JmEnv.cwd
                \/ p \in MayDie
                \/ ~ps[p].obj

\* An interface that was given addresses fails to bind only when the process
\* has ended or no address is of a protocol it knows and prefers; the order
\* of the addresses and the ones that fail first do not matter.  A program that
\* runs under a POPC_COMM_PATTERN is left out, for the reordering may lose
\* addresses.
BindsWhenPossible ==
    \A c \in Creations :
       /\ cl[c].pc = "failed" /\ cl[c].got.from # None /\ conn[c].to = None
       /\ CommPattern[Owner[c]] = ""
       => \/ ps[cl[c].got.from].st \in {"leaving", "ended"}
          \/ \A a \in Range(cl[c].got.addrs) : ~Acceptable(c, a)

\* A creation gets its own object: every variable keeps its type, the process
\* an interface talks to is its own, it is reached when it can be, and the
\* addresses that are left behind are accounted for.
OwnObject == TypeOK /\ TiedToOwn /\ BindsWhenPossible /\ FilesAccounted

\* What the job manager matches and starts an object with is what the program
\* asked for: the limits, the time, the directory, the platform and the
\* parameters of the search survive the message.
DescriptionKept ==
    \A c \in Creations : cl[c].pc = "service" =>
       \A f \in {"power", "memory", "bandwidth", "walltime", "cwd", "arch",
                 "search", "proto", "encode", "attributes"} :
          jobod[c][f] = Od[c][f]

\* The two properties of the tables and of the wildcards are about operators
\* only: they are evaluated where a behaviour starts.
Untouched == line = Preset /\ up = Owners /\ \A c \in Creations : cl[c].pc = "idle"

\* Position of the first plugin or built-in protocol with a name.
FirstNamed(all, name) == Min({i \in DOMAIN all : all[i].name = name})
SortedStable(list, all) ==
    \A i, j \in DOMAIN list : i < j =>
       \/ list[i].metric < list[j].metric
       \/ /\ list[i].metric = list[j].metric
          /\ FirstNamed(all, list[i].name) < FirstNamed(all, list[j].name)

\* Whatever the plugins: every protocol that can be loaded is in the table
\* once, in the order of the metrics and, among equals, of the registration;
\* the encodings likewise as far as there is room, and xdr is always there.
TablesExact ==
    Untouched => \A pl \in PluginLists :
       LET loaded == SelectSeq(pl, LAMBDA e : e.ok)
           prot == Protocols(pl)
           enc == Encodings(pl)
       IN /\ SortedStable(prot, BuiltIn \o loaded)
          /\ Names(prot) = Names(BuiltIn) \cup Names(loaded)
          /\ Len(prot) = Cardinality(Names(prot))
          /\ \A i, j \in DOMAIN enc : i < j => enc[i].metric <= enc[j].metric
          /\ Len(enc) <= MaxFactory /\ "xdr" \in Names(enc)
          /\ Names(loaded) \subseteq Names(enc) \/ Len(enc) = MaxFactory

\* MatchWildcard accepts only what the wildcard denotes, and all of it when
\* stars stand together in one place and the text is not empty.
Together(w) == \A i, j \in DOMAIN w : i < j /\ w[i] = "*" /\ w[j] = "*" =>
                  \A k \in i..j : w[k] = "*"
WildcardExact ==
    Untouched => \A s \in Texts, w \in Wildcards :
       /\ MatchWildcard(s, w) => Denotes(w, s)
       /\ Denotes(w, s) /\ s # <<>> /\ Together(w) => MatchWildcard(s, w)

\* What a process looks up is what was registered or asked for: codes,
\* descriptions, protocols, encodings and wildcards.
LookupsExact == RightCode /\ DescriptionKept /\ TablesExact /\ WildcardExact

\* What may keep a process for good: its object counts no connection through a
\* Unix socket, so that the reference it was born with is never given back; it
\* slept through the end of its count; or another program, led there by a
\* command that was typed too late, has an interface to it.
Quiet(m) == \A c \in Creations : Owner[c] = m => cl[c].pc \in {"failed", "released"}
Kept(p) ==
    \/ ps[p].obj /\ \E c \in Creations : conn[c].to = p /\ conn[c].proto = "uds"
    \/ ps[p].st = "asleep"
    \/ \E c \in Creations : conn[c].to = p /\ Owner[c] # Owner[p]

\* A younger process that inherited a connection to p, and runs.
HeldByHeir(p) ==
    \E c \in Creations : conn[c].to = p /\ \E h \in conn[c].holders \cap Creations :
                                               ps[h].st \in Live

\* A creation that was begun ends, with an object or an exception, unless its
\* program ends first; the sixty seconds of the allocator see to it.  And once
\* a program has given back all its objects, every process it started ends,
\* unless something keeps it: over TCP that is only the wakeup that was missed,
\* or a younger process that inherited the connection and stays itself.  What
\* ended does not begin again, so this is to be so again and again.
CreationEnds ==
    []<>(/\ \A c \in Creations : cl[c].pc \in Final \cup {"idle"} \/ Owner[c] \notin up
         /\ \A m \in Owners : Quiet(m) =>
              \A c \in Creations :
                  Owner[c] = m => ps[c].st \notin Live \/ Kept(c) \/ HeldByHeir(c))

=============================================================================
