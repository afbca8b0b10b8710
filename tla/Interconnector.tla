--------------------------- MODULE Interconnector ---------------------------
(***************************************************************************)
(* The MPI interconnector (interconnector/popc_mpi_interconnector.cpp): on *)
(* every node one process that joins the local programs and objects, which *)
(* talk to it over Unix sockets, to the other nodes, which it reaches by   *)
(* MPI.  Its main thread serves the sockets; its receiving thread takes    *)
(* the MPI commands of tag 0 and wakes the main thread over a socket.      *)
(* Programs allocate objects through it, bind to objects of other nodes    *)
(* and call them; a group of XMP objects is called through it too          *)
(* (dev/xmp).                                                              *)
(*                                                                         *)
(* A command and the parts that follow it are sent under one lock and      *)
(* received by one thread from one source with one tag: the parts are one  *)
(* body here.  MPI delivers the messages between two nodes in order, a     *)
(* synchronous send completes when the message is received, and it copies  *)
(* the few bytes of a command when it is sent.  The server's end never     *)
(* closes a descriptor (popc_combox_uds), so numbers are not reused.  An   *)
(* object lives until the application ends.                                *)
(*                                                                         *)
(* The executables at the other ends are parameters.  An interconnector    *)
(* passes a new object the callback address without its protocol; the main *)
(* of this library then tries TCP, and ends (Outcomes = {"silent"}).  Only *)
(* a main that takes the address as it is calls back.  The message that    *)
(* ends the network is sent by no program of this build (MayTerminate =    *)
(* FALSE): the master's main would, compiled for the K computer and with   *)
(* the right name of the socket.  The invariants hold for all values.      *)
(***************************************************************************)
EXTENDS Naturals, Sequences, FiniteSets, SequencesExt

CONSTANTS
    World,          \* g_world, the number of nodes
    Deployments,    \* which clients there are (the interfaces of programs and
                    \* objects): the node of each, whether it allocates an
                    \* object or a group and on which node, and how many calls
                    \* it makes
    GroupSize,      \* the members of a group
    PointerSize,    \* sizeof(char*)
    FirstTag,       \* next_tag in the beginning
    MaxObjects,     \* bound: the objects of a node
    Outcomes,       \* what may become of a process that was started
    MayTerminate,   \* whether a program may send _terminate
    None

ASSUME InterconnectorAssumption ==
    /\ World \in Nat \ {0}
    /\ \A d \in Deployments : \A c \in DOMAIN d :
        d[c] \in [home : 0 .. World - 1, makes : {"object", "group", "nothing"}, node : Nat, calls : Nat]
    /\ GroupSize \in Nat \ {0}
    /\ {PointerSize, FirstTag, MaxObjects} \subseteq Nat \ {0}
    /\ None \notin 0 .. World - 1 /\ \A d \in Deployments : None \notin DOMAIN d

ASSUME PeersAssumption ==
    Outcomes \subseteq {"up", "down", "silent"} /\ MayTerminate \in BOOLEAN

Nodes == 0 .. World - 1
All == GroupSize    \* the target of a collective call, no member's rank

VARIABLES
    deployment,
    multiple,       \* --multiple-connection
    main,           \* of every node: where its main thread is
    recv,           \* of every node: its receiving thread
    cmd,            \* the commands between two nodes, in order
    body,           \* the parts of the commands not yet received
    ipc,            \* of every node: the messages on each of its sockets
    owner,          \* of every node: who is at the other end of each socket
    incomingconnection, incomingtag, outgoingconnection, connectionmap,
    allocation_return, next_tag, next_object_id, allocation_id,
    object_group,   \* of every node: its sockets that stand for a group
    object_group_single,
    member,         \* of every group: the queue of every member
    returned,       \* of every group: the answers of its members
    run,            \* of every group: what every member executed
    objects,        \* the objects, with whether they serve
    serving,        \* the requests the objects have
    client,         \* of every client: what it does
    inbox,          \* of every client: the answers it has not read
    overlap         \* a request came over a shared connection while another
                    \* one waited for its answer there

maps == <<incomingconnection, incomingtag, outgoingconnection, connectionmap, allocation_return>>
counters == <<next_tag, next_object_id, allocation_id>>
groups == <<object_group, object_group_single, member, returned, run>>
mpi == <<cmd, body>>
local == <<ipc, owner>>
vars == <<deployment, multiple, main, recv, mpi, local, maps, counters, groups, objects, serving, client, inbox, overlap>>

Everyone == UNION {DOMAIN d : d \in Deployments}
Clients == DOMAIN deployment
Home == [c \in Clients |-> deployment[c].home]
Grouping == {c \in Clients : deployment[c].makes = "group"}

-----------------------------------------------------------------------------
(* Messages and conversions. *)

Message(op, who, n, sync, node, id) ==
    [op |-> op, who |-> who, n |-> n, sync |-> sync, node |-> node, id |-> id]
Wake(op, node, tag) == Message(op, None, 0, FALSE, node, tag)

Digits(x) == IF x < 10 THEN 1 ELSE IF x < 100 THEN 2 ELSE 3
\* The node an interface reads in "uds_<node>.<id>": it keeps as many
\* characters as the text has from the dot to its end.
DestNode(node, id) ==
    IF Digits(id) + 1 >= Digits(node) THEN node
    ELSE node \div (IF Digits(node) - Digits(id) = 2 THEN 10 ELSE 100)

\* The receiving thread writes ".uds_<rank>.0" with snprintf(tmp, sizeof(tmp)).
Reachable(n) == 7 + Digits(n) < PointerSize

Idle == [at |-> "poll", fd |-> 0, src |-> None, id |-> 0]

\* The first index of the receiving thread is not initialised: unless it is
\* zero no receive is ever posted.
Init ==
    /\ deployment \in Deployments
    /\ multiple \in BOOLEAN
    /\ main = [n \in Nodes |-> Idle]
    /\ recv \in [Nodes -> {"run", "lost"}]
    /\ \A n \in Nodes : ~Reachable(n) => recv[n] = "lost"
    /\ cmd = [s \in Nodes |-> [d \in Nodes |-> <<>>]]
    /\ body = {}
    /\ ipc = [n \in Nodes |-> <<<<>>>>]
    /\ owner = [n \in Nodes |-> <<None>>]
    /\ incomingconnection = [n \in Nodes |-> <<>>]
    /\ incomingtag = [n \in Nodes |-> <<>>]
    /\ outgoingconnection = [n \in Nodes |-> <<>>]
    /\ connectionmap = [n \in Nodes |-> <<>>]
    /\ allocation_return = [n \in Nodes |-> <<>>]
    /\ next_tag = [n \in Nodes |-> FirstTag]
    /\ next_object_id = [n \in Nodes |-> 1]
    /\ allocation_id = [n \in Nodes |-> 0]
    /\ object_group = [n \in Nodes |-> {}]
    /\ object_group_single = [n \in Nodes |-> <<>>]
    /\ member = <<>>
    /\ returned = <<>>
    /\ run = <<>>
    /\ objects = {}
    /\ serving = {}
    /\ client = [c \in Clients |-> [at |-> "idle", fd |-> 0, node |-> 0, id |-> 0, n |-> 0, post |-> FALSE]]
    /\ inbox = [c \in Clients |-> <<>>]
    /\ overlap = FALSE

\* A function with one more entry, and with one entry less.
Put(f, x, y) == [z \in DOMAIN f \cup {x} |-> IF z = x THEN y ELSE f[z]]
Erase(f, x) == [z \in DOMAIN f \ {x} |-> f[z]]

\* The clients at the sockets get an answer: a client has one socket at a time.
Deliver(n, fd, m) ==
    inbox' = [c \in Clients |-> IF fd \in DOMAIN owner[n] /\ owner[n][fd] = c THEN Append(inbox[c], m) ELSE inbox[c]]

Command(s, d, what, tag) == [cmd EXCEPT ![s][d] = Append(@, [what |-> what, tag |-> tag])]
Body(kind, s, d, tag, id, m) == [kind |-> kind, src |-> s, dst |-> d, tag |-> tag, id |-> id, m |-> m]

-----------------------------------------------------------------------------
(* The programs. *)

Says(c, msgs) ==
    LET n == Home[c] IN
    /\ ipc' = [ipc EXCEPT ![n][client[c].fd] = @ \o msgs]
    /\ UNCHANGED owner
\* Over a new connection.
Opens(c, msgs) ==
    LET n == Home[c] IN
    /\ ipc' = [ipc EXCEPT ![n] = Append(@, msgs)]
    /\ owner' = [owner EXCEPT ![n] = Append(@, c)]

Untouched == UNCHANGED <<deployment, multiple, main, recv, mpi, maps, counters, groups, objects, serving, inbox, overlap>>
Open(c) == main[Home[c]].at \notin {"ended", "exited", "dead"}

\* uds_allocator_interconnector::allocate, for the node of the description.
Allocate(c) ==
    LET node == deployment[c].node IN
    /\ client[c].at = "idle" /\ deployment[c].makes = "object" /\ Open(c)
    /\ next_object_id[IF node < World THEN node ELSE Home[c]] <= MaxObjects
    /\ Opens(c, <<Message("alloc", c, 0, TRUE, node, 0)>>)
    /\ client' = [client EXCEPT ![c].at = "alloc", ![c].node = node, ![c].fd = Len(ipc[Home[c]]) + 1]
    /\ Untouched

\* uds_allocator_interconnector::allocate_group.
AllocateGroup(c) ==
    /\ client[c].at = "idle" /\ c \in Grouping /\ Open(c)
    /\ Opens(c, <<Message("group", c, 0, TRUE, 0, 0)>>)
    /\ client' = [client EXCEPT ![c].at = "alloc", ![c].fd = Len(ipc[Home[c]]) + 1]
    /\ Untouched

\* pop_interface::Bind of an object of another node: the connection and the
\* request for the status.
Bind(c, o) ==
    /\ client[c].at \in {"idle", "ready"} /\ c \notin Grouping /\ Open(c)
    /\ deployment[c].calls > 0
    /\ o.node # Home[c]
    /\ Opens(c, <<Message("connect", c, 0, FALSE, DestNode(o.node, o.id), o.id),
                  Message("call", c, 1, TRUE, o.node, o.id)>>)
    /\ client' = [client EXCEPT ![c] = [at |-> "wait", fd |-> Len(ipc[Home[c]]) + 1,
                                        node |-> o.node, id |-> o.id, n |-> 1, post |-> FALSE]]
    /\ Untouched

\* A call of a bound interface; only a synchronous one waits.
Call(c, sync) ==
    /\ client[c].at = "bound" /\ c \notin Grouping /\ Open(c)
    /\ client[c].n < deployment[c].calls
    /\ Says(c, <<Message("call", c, client[c].n + 1, sync, client[c].node, client[c].id)>>)
    /\ client' = [client EXCEPT ![c].n = @ + 1, ![c].at = IF sync THEN "wait" ELSE "bound"]
    /\ Untouched

\* A call of a group: one that is not collective names its member first.
GroupCall(c, target, sync) ==
    /\ client[c].at = "bound" /\ c \in Grouping /\ Open(c)
    /\ client[c].n < deployment[c].calls
    /\ LET call == Message("call", c, client[c].n + 1, sync, target, 0) IN
       Says(c, IF target = All THEN <<call>>
               ELSE <<Message("rank", c, 0, FALSE, target, target), call>>)
    /\ client' = [client EXCEPT ![c].n = @ + 1, ![c].at = IF sync THEN "wait" ELSE "bound",
                                ![c].post = @ \/ ~sync]
    /\ Untouched

\* POPC_GroupInterface::finalize.
Finalize(c) ==
    /\ client[c].at = "bound" /\ c \in Grouping /\ Open(c)
    /\ Says(c, <<Message("final", c, client[c].n + 1, TRUE, All, 0)>>)
    /\ client' = [client EXCEPT ![c].n = @ + 1, ![c].at = "final"]
    /\ Untouched

\* A waiting client reads an answer.
Read(c) ==
    /\ client[c].at \in {"alloc", "wait", "final"} /\ inbox[c] # <<>>
    /\ inbox' = [inbox EXCEPT ![c] = Tail(@)]
    /\ client' = [client EXCEPT ![c].at =
                    CASE client[c].at = "wait" -> "bound"
                      [] client[c].at = "final" -> "finished"
                      [] client[c].at = "alloc" -> IF c \in Grouping THEN "bound" ELSE "ready"]
    /\ UNCHANGED <<deployment, multiple, main, recv, mpi, local, maps, counters, groups, objects, serving, overlap>>

\* A program that ends tells the node of rank 0, after the calls of its clients,
\* those of node 0.
ProgramTerminates ==
    /\ MayTerminate
    /\ main[0].at \notin {"ended", "exited", "dead"}
    /\ \A c \in Clients : Home[c] = 0 =>
        \/ client[c].at = "bound" /\ client[c].n = deployment[c].calls /\ c \notin Grouping
        \/ client[c].at = "ready" /\ deployment[c].calls = 0
        \/ client[c].at = "finished"
    /\ \A i \in DOMAIN ipc[0] : \A j \in DOMAIN ipc[0][i] : ipc[0][i][j].op # "terminate"
    /\ ipc' = [ipc EXCEPT ![0] = Append(@, <<Wake("terminate", 0, 0)>>)]
    /\ owner' = [owner EXCEPT ![0] = Append(@, None)]
    /\ UNCHANGED <<deployment, multiple, main, recv, mpi, maps, counters, groups, objects, serving, client, inbox, overlap>>

-----------------------------------------------------------------------------
(* The objects. *)

\* An object answers a request over the connection it came on; the others it
\* only executes.
ObjectServes ==
    \E r \in serving :
        /\ serving' = serving \ {r}
        /\ ipc' = IF r.m.sync
                  THEN [ipc EXCEPT ![r.node][r.fd] = Append(@, [r.m EXCEPT !.op = "answer"])] ELSE ipc
        /\ UNCHANGED <<deployment, multiple, main, recv, mpi, owner, maps, counters, groups, objects, client, inbox, overlap>>

\* The main thread has started a process and waits for its call: with status 0
\* the object serves, with status 1 it ends, and the main thread does not look
\* at the status.  A process that ends before, as the library's main does,
\* leaves the main thread in receiver.Wait.
ObjectCallsBack(n, outcome) ==
    LET o == [node |-> n, id |-> main[n].id, up |-> outcome = "up"]
        address == Message("address", None, 0, FALSE, n, main[n].id) IN
    /\ main[n].at = "exec"
    /\ objects' = IF outcome = "silent" THEN objects ELSE objects \cup {o}
    /\ IF outcome = "silent"
       THEN /\ main' = [main EXCEPT ![n].at = "stuck"]
            /\ UNCHANGED <<mpi, inbox>>
       ELSE IF main[n].src = None
       THEN /\ Deliver(n, main[n].fd, address)
            /\ main' = [main EXCEPT ![n] = Idle]
            /\ UNCHANGED mpi
       ELSE /\ cmd' = Command(n, main[n].src, "allocated", main[n].fd)
            /\ body' = body \cup {Body("address", n, main[n].src, main[n].fd, 0, address)}
            /\ main' = [main EXCEPT ![n].at = "sent"]
            /\ UNCHANGED inbox
    /\ UNCHANGED <<deployment, multiple, recv, local, maps, counters, groups, serving, client, overlap>>

-----------------------------------------------------------------------------
(* The main thread. *)

\* The message it takes from socket fd.
Takes(n, fd, op) ==
    /\ main[n].at = "poll"
    /\ fd \in DOMAIN ipc[n]
    /\ ipc[n][fd] # <<>> /\ Head(ipc[n][fd]).op \in op
Taken(n, fd) == [ipc EXCEPT ![n][fd] = Tail(@)]

\* 200001: the end of the application; rank 0 tells the others and its own
\* receiving thread.
Terminate(n, fd) ==
    /\ Takes(n, fd, {"terminate"})
    /\ ipc' = Taken(n, fd)
    /\ main' = [main EXCEPT ![n].at = "ended"]
    /\ cmd' = IF n = 0 THEN [cmd EXCEPT ![0] = [d \in Nodes |-> Append(@[d], [what |-> "terminate", tag |-> 0])]]
              ELSE cmd
    /\ UNCHANGED <<deployment, multiple, recv, body, owner, maps, counters, groups, objects, serving, client, inbox, overlap>>

\* After its loop it joins the receiving thread.
JoinThread(n) ==
    /\ main[n].at = "ended" /\ recv[n] = "ended"
    /\ main' = [main EXCEPT ![n].at = "exited"]
    /\ UNCHANGED <<deployment, multiple, recv, mpi, local, maps, counters, groups, objects, serving, client, inbox, overlap>>

\* 200002: what the requests of this socket are for; insert keeps an entry.
Connection(n, fd) ==
    /\ Takes(n, fd, {"connect"})
    /\ ipc' = Taken(n, fd)
    /\ LET m == Head(ipc[n][fd]) IN
       incomingconnection' = [incomingconnection EXCEPT ![n] =
            IF fd \in DOMAIN @ THEN @ ELSE Put(@, fd, [node |-> m.node, id |-> m.id])]
    /\ UNCHANGED <<deployment, multiple, main, recv, mpi, owner, incomingtag, outgoingconnection, connectionmap,
                   allocation_return, counters, groups, objects, serving, client, inbox, overlap>>

Fork(n, fd, src) ==
    /\ main' = [main EXCEPT ![n] = [at |-> "exec", fd |-> fd, src |-> src, id |-> next_object_id[n]]]
    /\ next_object_id' = [next_object_id EXCEPT ![n] = @ + 1]

\* 200000 for this node, or for one that does not exist.
AllocateHere(n, fd) ==
    /\ Takes(n, fd, {"alloc"})
    /\ LET node == Head(ipc[n][fd]).node IN node = n \/ node >= World
    /\ ipc' = Taken(n, fd)
    /\ Fork(n, fd, None)
    /\ UNCHANGED <<deployment, multiple, recv, mpi, owner, maps, next_tag, allocation_id, groups, objects, serving,
                   client, inbox, overlap>>

\* 200000 for another node: the commands are sent and not waited for.
AllocateThere(n, fd) ==
    LET node == Head(ipc[n][fd]).node IN
    /\ Takes(n, fd, {"alloc"})
    /\ node # n /\ node < World
    /\ ipc' = Taken(n, fd)
    /\ cmd' = [cmd EXCEPT ![n][n] = Append(@, [what |-> "wait", tag |-> 0]),
                          ![n][node] = Append(@, [what |-> "allocate", tag |-> 0])]
    /\ body' = body \cup {Body("alloc", n, node, 17, allocation_id[n], Head(ipc[n][fd]))}
    /\ main' = [main EXCEPT ![n] = [Idle EXCEPT !.at = "save", !.fd = fd]]
    /\ UNCHANGED <<deployment, multiple, recv, owner, maps, counters, groups, objects, serving, client, inbox, overlap>>

\* Only then does it keep whom to tell.
SaveReturn(n) ==
    /\ main[n].at = "save"
    /\ allocation_return' = [allocation_return EXCEPT ![n] = Put(@, allocation_id[n], main[n].fd)]
    /\ allocation_id' = [allocation_id EXCEPT ![n] = @ + 1]
    /\ main' = [main EXCEPT ![n] = Idle]
    /\ UNCHANGED <<deployment, multiple, recv, mpi, local, incomingconnection, incomingtag, outgoingconnection,
                   connectionmap, next_tag, next_object_id, groups, objects, serving, client, inbox, overlap>>

\* 200004: an allocation another node asked for, whichever comes first.
AllocationFromMpi(n, fd) ==
    /\ Takes(n, fd, {"allocation"})
    /\ \E b \in body :
        /\ b.kind = "alloc" /\ b.dst = n
        /\ body' = body \ {b}
        /\ Fork(n, b.id, b.src)
    /\ ipc' = Taken(n, fd)
    /\ UNCHANGED <<deployment, multiple, recv, cmd, owner, maps, next_tag, allocation_id, groups, objects, serving,
                   client, inbox, overlap>>

\* The connection to an object: a new one if there is none for the source, or
\* always with --multiple-connection.
NeedsConnection(n, src, id) == multiple \/ <<src, id>> \notin DOMAIN connectionmap[n]

\* 200005: a request of another node, for an object of this node.
RequestFromMpi(n, fd) ==
    LET w == Head(ipc[n][fd])
        fresh == Len(ipc[n]) + 1 IN
    /\ Takes(n, fd, {"request"})
    /\ \E b \in body :
        /\ b.kind = "request" /\ b.src = w.node /\ b.dst = n /\ b.tag = w.id
        /\ LET new == NeedsConnection(n, b.src, b.id)
               out == IF new THEN fresh ELSE connectionmap[n][<<b.src, b.id>>]
               entry == [tag |-> b.tag, src |-> b.src]
               up == \E o \in objects : o.node = n /\ o.id = b.id /\ o.up IN
           /\ body' = body \ {b}
           /\ IF b.id = 0
              THEN /\ ipc' = [Taken(n, fd) EXCEPT ![n] = @ \o <<<<>>, <<b.m>>>>]
                   /\ owner' = [owner EXCEPT ![n] = @ \o <<None, None>>]
                   /\ UNCHANGED <<main, serving, overlap>>
                   /\ connectionmap' = [connectionmap EXCEPT ![n] = Put(@, <<b.src, b.id>>, out)]
                   /\ outgoingconnection' = [outgoingconnection EXCEPT ![n] = Put(@, out, entry)]
              ELSE IF new /\ ~up
              THEN /\ main' = [main EXCEPT ![n].at = "dead"]
                   /\ UNCHANGED <<local, serving, overlap, connectionmap, outgoingconnection>>
              ELSE /\ ipc' = IF new THEN [Taken(n, fd) EXCEPT ![n] = Append(@, <<>>)] ELSE Taken(n, fd)
                   /\ owner' = IF new THEN [owner EXCEPT ![n] = Append(@, None)] ELSE owner
                   /\ serving' = serving \cup {[node |-> n, id |-> b.id, fd |-> out, m |-> b.m]}
                   /\ overlap' = \/ overlap
                                 \/ \E r \in serving : r.node = n /\ r.fd = out /\ r.m.sync
                                 \/ ~new /\ ipc[n][out] # <<>>
                   /\ connectionmap' = [connectionmap EXCEPT ![n] = Put(@, <<b.src, b.id>>, out)]
                   /\ outgoingconnection' = [outgoingconnection EXCEPT ![n] = Put(@, out, entry)]
                   /\ UNCHANGED main
    /\ UNCHANGED <<deployment, multiple, recv, cmd, incomingconnection, incomingtag, allocation_return, counters, groups,
                   objects, client, inbox>>

\* Any other message on a socket that owes an answer is that answer.
RedirectResponse(n, fd) ==
    /\ Takes(n, fd, {"call", "answer"})
    /\ fd \in DOMAIN outgoingconnection[n]
    /\ LET to == outgoingconnection[n][fd] IN
       /\ cmd' = Command(n, to.src, "response", to.tag)
       /\ body' = body \cup {Body("response", n, to.src, to.tag, 0, Head(ipc[n][fd]))}
    /\ outgoingconnection' = [outgoingconnection EXCEPT ![n] = Erase(@, fd)]
    /\ ipc' = Taken(n, fd)
    /\ main' = [main EXCEPT ![n].at = "sent"]
    /\ UNCHANGED <<deployment, multiple, recv, owner, incomingconnection, incomingtag, connectionmap, allocation_return,
                   counters, groups, objects, serving, client, inbox, overlap>>

\* Mutant of RedirectRequest: the next request gets the same tag.
RedirectRequestSameTag(n, fd) ==
    LET to == IF fd \in DOMAIN incomingconnection[n] THEN incomingconnection[n][fd] ELSE [node |-> 0, id |-> 0] IN
    /\ Takes(n, fd, {"call", "answer"})
    /\ fd \notin DOMAIN outgoingconnection[n] /\ fd \notin object_group[n]
    /\ incomingtag' = [incomingtag EXCEPT ![n] = Put(@, FirstTag, fd)]
    /\ cmd' = Command(n, to.node, "request", FirstTag)
    /\ body' = body \cup {Body("request", n, to.node, FirstTag, to.id, Head(ipc[n][fd]))}
    /\ next_tag' = [next_tag EXCEPT ![n] = FirstTag + 1]
    /\ ipc' = Taken(n, fd)
    /\ main' = [main EXCEPT ![n].at = "sent"]
    /\ UNCHANGED <<deployment, multiple, recv, owner, incomingconnection, outgoingconnection, connectionmap,
                   allocation_return, next_object_id, allocation_id, groups, objects, serving, client,
                   inbox, overlap>>

\* ... and otherwise a request, for what the socket was connected to; the
\* map gives node 0 and object 0 for a socket it does not know.
RedirectRequest(n, fd) ==
    LET to == IF fd \in DOMAIN incomingconnection[n] THEN incomingconnection[n][fd] ELSE [node |-> 0, id |-> 0] IN
    /\ Takes(n, fd, {"call", "answer"})
    /\ fd \notin DOMAIN outgoingconnection[n] /\ fd \notin object_group[n]
    /\ incomingtag' = [incomingtag EXCEPT ![n] = Put(@, next_tag[n], fd)]
    /\ cmd' = Command(n, to.node, "request", next_tag[n])
    /\ body' = body \cup {Body("request", n, to.node, next_tag[n], to.id, Head(ipc[n][fd]))}
    /\ next_tag' = [next_tag EXCEPT ![n] = @ + 1]
    /\ ipc' = Taken(n, fd)
    /\ main' = [main EXCEPT ![n].at = "sent"]
    /\ UNCHANGED <<deployment, multiple, recv, owner, incomingconnection, outgoingconnection, connectionmap,
                   allocation_return, next_object_id, allocation_id, groups, objects, serving, client,
                   inbox, overlap>>

\* It waits for the last synchronous send to complete.
SendCompletes(n) ==
    /\ main[n].at = "sent"
    /\ ~\E b \in body : b.src = n /\ b.kind # "alloc"
    /\ main' = [main EXCEPT ![n] = Idle]
    /\ UNCHANGED <<deployment, multiple, recv, mpi, local, maps, counters, groups, objects, serving, client, inbox, overlap>>

-----------------------------------------------------------------------------
(* Groups. *)

\* 210000: the members are spawned, the client is answered.
SpawnGroup(n, fd) ==
    /\ Takes(n, fd, {"group"})
    /\ ipc' = Taken(n, fd)
    /\ object_group' = [object_group EXCEPT ![n] = @ \cup {fd}]
    /\ member' = Put(member, <<n, fd>>, [i \in 0 .. GroupSize - 1 |-> <<>>])
    /\ returned' = Put(returned, <<n, fd>>, <<>>)
    /\ run' = Put(run, <<n, fd>>, [i \in 0 .. GroupSize - 1 |-> <<>>])
    /\ Deliver(n, fd, Message("address", None, 0, FALSE, n, 0))
    /\ UNCHANGED <<deployment, multiple, main, recv, mpi, owner, maps, counters, object_group_single, objects, serving,
                   client, overlap>>

\* Method 9: the member the next call is for.
SetRank(n, fd) ==
    /\ Takes(n, fd, {"rank"})
    /\ fd \in object_group[n]
    /\ ipc' = Taken(n, fd)
    /\ object_group_single' = [object_group_single EXCEPT ![n] = Put(@, fd, Head(ipc[n][fd]).id)]
    /\ UNCHANGED <<deployment, multiple, main, recv, mpi, owner, maps, counters, object_group, member, returned, run,
                   objects, serving, client, inbox, overlap>>

\* A call goes to that member, or to all in turn; finalize is answered here.
ForwardToGroup(n, fd) ==
    LET m == Head(ipc[n][fd])
        single == object_group_single[n] IN
    /\ Takes(n, fd, {"call", "final"})
    /\ fd \in object_group[n] /\ fd \notin DOMAIN outgoingconnection[n]
    /\ ipc' = Taken(n, fd)
    /\ member' = [member EXCEPT ![<<n, fd>>] =
                    [i \in DOMAIN @ |-> IF fd \in DOMAIN single /\ single[fd] # i THEN @[i] ELSE Append(@[i], m)]]
    /\ object_group_single' = [object_group_single EXCEPT ![n] = Erase(@, fd)]
    /\ IF m.op = "final" /\ fd \notin DOMAIN single THEN Deliver(n, fd, m) ELSE UNCHANGED inbox
    /\ UNCHANGED <<deployment, multiple, main, recv, mpi, owner, maps, counters, object_group, returned, run, objects,
                   serving, client, overlap>>


\* A member executes its next call (popc_objmain.xmp.cc); every call has a
\* connection, so the answer is sent for asynchronous ones too, of a
\* collective call by the last member.
MemberRuns(g, i) ==
    LET m == Head(member[g][i]) IN
    /\ member[g][i] # <<>>
    /\ member' = [member EXCEPT ![g][i] = Tail(@)]
    /\ run' = [run EXCEPT ![g][i] = Append(@, m)]
    /\ returned' = IF m.op = "call" /\ (m.node # All \/ i = GroupSize - 1)
                   THEN [returned EXCEPT ![g] = Append(@, m)] ELSE returned
    /\ UNCHANGED <<deployment, multiple, main, recv, mpi, local, maps, counters, object_group, object_group_single,
                   objects, serving, client, inbox, overlap>>

-----------------------------------------------------------------------------
(* The receiving thread. *)

WakeMain(n, w) == ipc' = [ipc EXCEPT ![n][1] = Append(@, w)]

\* It takes a command of some node.
ReceiveCommand(n, s) ==
    LET c == Head(cmd[s][n]) IN
    /\ recv[n] = "run" /\ main[n].at # "dead"
    /\ cmd[s][n] # <<>>
    /\ c.what \in {"terminate", "wait", "allocate", "request"}
    /\ cmd' = [cmd EXCEPT ![s][n] = Tail(@)]
    /\ recv' = IF c.what = "terminate" THEN [recv EXCEPT ![n] = "ended"] ELSE recv
    /\ CASE c.what = "terminate" -> IF n = 0 THEN UNCHANGED ipc ELSE WakeMain(n, Wake("terminate", 0, 0))
         [] c.what = "wait" -> UNCHANGED ipc
         [] c.what = "allocate" -> WakeMain(n, Wake("allocation", 0, 0))
         [] c.what = "request" -> WakeMain(n, Wake("request", s, c.tag))
    /\ UNCHANGED <<deployment, multiple, main, body, owner, maps, counters, groups, objects, serving, client, inbox, overlap>>

\* 14: an answer, for the socket the tag was given to.
ReceiveResponse(n, s) ==
    LET c == Head(cmd[s][n]) IN
    /\ recv[n] = "run" /\ main[n].at # "dead"
    /\ cmd[s][n] # <<>> /\ c.what = "response"
    /\ cmd' = [cmd EXCEPT ![s][n] = Tail(@)]
    /\ \E b \in body :
        /\ b.kind \in {"request", "response"} /\ b.src = s /\ b.dst = n /\ b.tag = c.tag
        /\ body' = body \ {b}
        /\ Deliver(n, IF c.tag \in DOMAIN incomingtag[n] THEN incomingtag[n][c.tag] ELSE 0, b.m)
    /\ incomingtag' = [incomingtag EXCEPT ![n] = Erase(@, c.tag)]
    /\ UNCHANGED <<deployment, multiple, main, recv, local, incomingconnection, outgoingconnection, connectionmap,
                   allocation_return, counters, groups, objects, serving, client, overlap>>

\* 15: an allocated object, for the client whose identifier comes back; with
\* no entry the connection is null and the process dies.
ReceiveAllocated(n, s) ==
    LET c == Head(cmd[s][n]) IN
    /\ recv[n] = "run" /\ main[n].at # "dead"
    /\ cmd[s][n] # <<>> /\ c.what = "allocated"
    /\ cmd' = [cmd EXCEPT ![s][n] = Tail(@)]
    /\ \E b \in body :
        /\ b.kind = "address" /\ b.src = s /\ b.dst = n
        /\ body' = body \ {b}
        /\ IF c.tag \in DOMAIN allocation_return[n]
           THEN /\ Deliver(n, allocation_return[n][c.tag], b.m)
                /\ UNCHANGED main
           ELSE /\ main' = [main EXCEPT ![n].at = "dead"]
                /\ UNCHANGED inbox
    /\ UNCHANGED <<deployment, multiple, recv, local, maps, counters, groups, objects, serving, client, overlap>>

\* 16: the answer of a member, for the socket of the group.
ReceiveGroup(n, fd) ==
    /\ recv[n] = "run" /\ main[n].at # "dead"
    /\ fd \in object_group[n] /\ returned[<<n, fd>>] # <<>>
    /\ Deliver(n, fd, Head(returned[<<n, fd>>]))
    /\ returned' = [returned EXCEPT ![<<n, fd>>] = Tail(@)]
    /\ UNCHANGED <<deployment, multiple, main, recv, mpi, local, maps, counters, object_group, object_group_single, member,
                   run, objects, serving, client, overlap>>

-----------------------------------------------------------------------------
Main(n) ==
    \/ \E fd \in DOMAIN ipc[n] :
        \/ Terminate(n, fd) \/ Connection(n, fd) \/ AllocateHere(n, fd) \/ AllocateThere(n, fd)
        \/ AllocationFromMpi(n, fd) \/ RequestFromMpi(n, fd) \/ RedirectResponse(n, fd)
        \/ RedirectRequest(n, fd) \/ SpawnGroup(n, fd) \/ SetRank(n, fd) \/ ForwardToGroup(n, fd)
    \/ SaveReturn(n) \/ SendCompletes(n) \/ JoinThread(n)

Receiver(n) ==
    \/ \E s \in Nodes : ReceiveCommand(n, s) \/ ReceiveResponse(n, s) \/ ReceiveAllocated(n, s)
    \/ \E fd \in object_group[n] : ReceiveGroup(n, fd)

CallsBack(n) == \E outcome \in Outcomes : ObjectCallsBack(n, outcome)
Members == \E g \in DOMAIN member : \E i \in DOMAIN member[g] : MemberRuns(g, i)

Program(c) ==
    \/ Allocate(c)
    \/ \E o \in objects : Bind(c, o)
    \/ \E sync \in BOOLEAN : Call(c, sync)
    \/ \E target \in 0 .. All, sync \in BOOLEAN : GroupCall(c, target, sync)
    \/ AllocateGroup(c) \/ Finalize(c)

Next ==
    \/ \E n \in Nodes : Main(n) \/ Receiver(n) \/ CallsBack(n)
    \/ ObjectServes \/ Members
    \/ \E c \in Clients : Program(c) \/ Read(c)
    \/ ProgramTerminates

Spec == Init /\ [][Next]_vars

\* Both threads of every process run, started processes call back or end, the
\* methods of objects return, clients read; nobody has to call.
FairSpec ==
    /\ Spec
    /\ \A n \in Nodes : WF_vars(Main(n)) /\ WF_vars(Receiver(n)) /\ WF_vars(CallsBack(n))
    /\ WF_vars(ObjectServes) /\ WF_vars(Members)
    /\ \A c \in Everyone : WF_vars(c \in Clients /\ Read(c))

-----------------------------------------------------------------------------
(* Properties. *)

\* Type invariant of the interconnectors: threads, maps, messages and clients.
TypeOK ==
    /\ multiple \in BOOLEAN /\ overlap \in BOOLEAN
    /\ main \in [Nodes -> [at : {"poll", "save", "exec", "sent", "stuck", "ended", "exited", "dead"},
                           fd : Nat, src : Nodes \cup {None}, id : Nat]]
    /\ recv \in [Nodes -> {"run", "lost", "ended"}]
    /\ \A s, d \in Nodes : \A i \in DOMAIN cmd[s][d] :
        cmd[s][d][i].what \in {"terminate", "wait", "allocate", "request", "response", "allocated"}
    /\ \A n \in Nodes :
        /\ DOMAIN owner[n] = DOMAIN ipc[n]
        /\ DOMAIN incomingconnection[n] \cup DOMAIN outgoingconnection[n] \cup object_group[n] \subseteq DOMAIN ipc[n]
        /\ \A t \in DOMAIN incomingtag[n] : t \in FirstTag .. next_tag[n] - 1 /\ incomingtag[n][t] \in DOMAIN ipc[n]
        /\ \A k \in DOMAIN allocation_return[n] : k < allocation_id[n]
    /\ \A c \in Clients : client[c].at \in {"idle", "alloc", "ready", "bound", "wait", "final", "finished"}

\* The parts of two commands between the same nodes with the same tag are never
\* under way together, although every node numbers its own requests and answers
\* those of the others with their tags: the main thread waits for each.
OneBody ==
    \A a, b \in body :
        /\ {a.kind, b.kind} \subseteq {"request", "response"}
        /\ a.src = b.src /\ a.dst = b.dst /\ a.tag = b.tag
        => a = b

\* A request reaches the object its client is bound to, whatever the connections
\* and tags it was given on the way, and no answer that got lost is taken for one.
RightObject ==
    \A r \in serving : r.m.node = r.node /\ r.m.id = r.id

\* An answer reaches the client whose call it answers, as long as no connection
\* to an object carried a second request before the answer of the first.
RightCaller ==
    overlap \/ \A c \in Clients \ Grouping : \A i \in DOMAIN inbox[c] :
        /\ inbox[c][i].op = "address" =>
            /\ client[c].at = "alloc"
            /\ inbox[c][i].node = IF client[c].node < World THEN client[c].node ELSE Home[c]
        /\ inbox[c][i].op # "address" => inbox[c][i].who = c /\ inbox[c][i].n = client[c].n

\* With --multiple-connection no connection carries two requests.
MultipleApart == multiple => ~overlap

\* A member of a group has, executed or queued, exactly the calls that are for
\* it, in the order of the program, of those the group was sent.
GroupExact ==
    \A g \in DOMAIN member : \A i \in DOMAIN member[g] :
        LET has == run[g][i] \o member[g][i] IN
        /\ \A j \in DOMAIN has : has[j].node \in {i, All}
        /\ \A j, k \in DOMAIN has : j < k => has[j].n < has[k].n
        /\ \A h \in DOMAIN member[g] : \A j \in DOMAIN has :
            has[j].node = All => \E k \in DOMAIN (run[g][h] \o member[g][h]) : (run[g][h] \o member[g][h])[k] = has[j]

\* The answer a program reads from its group is that of the call it waits for,
\* as long as it made no asynchronous call, which is answered too.
GroupAnswer ==
    \A c \in Grouping : ~client[c].post =>
        \A i \in DOMAIN inbox[c] : inbox[c][i].op # "address" => inbox[c][i].n = client[c].n

\* Requests and answers find their way: the state is well formed and no message
\* is taken for another, between nodes, objects, clients and groups.
RoutedRight ==
    /\ TypeOK /\ OneBody /\ RightObject /\ RightCaller
    /\ MultipleApart /\ GroupExact /\ GroupAnswer

Waits(c) == c \in Clients /\ client[c].at \in {"alloc", "wait", "final"}

=============================================================================
