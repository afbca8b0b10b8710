----------------------------- MODULE Transport -----------------------------
(***************************************************************************)
(* The server side of a combox and the clients connected to it             *)
(* (lib/core/combox_socket.cc, lib/dynamic/popc_combox_uds.cpp), with the  *)
(* framing of the buffers (Send and Recv of buffer_xdr.cc) and the loop of *)
(* the receive thread (ReceiveRequest).                                    *)
(*                                                                         *)
(* A connection is a byte stream.  A message is two fragments, its header  *)
(* and its body; written[k] and read[k] count the fragments the client     *)
(* wrote and the server read, so message n is made of the fragments 2n-1   *)
(* and 2n.  read and write may stop between any two fragments.             *)
(*                                                                         *)
(* A request waiting for its reply keeps a copy of the connection, that is *)
(* a descriptor number (pop_connection_sock::Clone), while the receive     *)
(* thread may close that descriptor and the system may give its number to  *)
(* the next client.                                                        *)
(***************************************************************************)
EXTENDS Integers, Sequences, FiniteSets, SequencesExt, FiniteSetsExt

CONSTANTS
    Client,     \* client processes
    MaxConn,    \* bound: connections each client opens, one after the other
    MaxMsg,     \* bound: messages on one connection
    Fd,         \* the descriptors of the server for accepted connections
    Protos,     \* the protocols considered: "socket", "uds"
    None

Conns == Client \X (1..MaxConn)

ASSUME TransportAssumption ==
    /\ IsFiniteSet(Client)
    /\ MaxConn \in Nat /\ MaxMsg \in Nat
    /\ Fd \subseteq Nat /\ IsFiniteSet(Fd)
    /\ Protos \subseteq {"socket", "uds"}
    /\ None \notin Conns

VARIABLES
    proto,
    peer,       \* peer[k]: the client's end of connection k
    written,    \* fragments the client wrote
    sync,       \* sync[k]: the messages of k that ask for a reply
    accepted,   \* the connections the server took from the listening socket
    await,      \* the connections whose client waits for a reply
    died,       \* the connections whose client died while it waited
    fdmap,      \* fdmap[f]: the connection descriptor f stands for
    read,       \* fragments the server read
    log,        \* log[k]: messages of k the server received
    poll,       \* pollarray without the listening socket: [fd, ready]
    conn,       \* connarray without its first element: descriptors
    listen,     \* revents of the listening socket
    index,      \* where the scan of pollarray goes on, 0 the listening socket
    nready,     \* ready descriptors the scan has not seen
    refs,       \* calls of OnNewConnection minus calls of OnCloseConnection
    srv,        \* the receive thread
    replies,    \* requests whose reply is not sent yet, with their descriptor
    answered    \* answered[k]: the requests whose reply reached k's client

client == <<peer, written, sync, await, died>>
array  == <<poll, conn, listen, index, nready>>
vars   == <<proto, client, accepted, fdmap, read, log, array, refs, srv, replies, answered>>

TypeOK ==
    /\ proto \in Protos
    /\ peer \in [Conns -> {"new", "open", "closed"}]
    /\ written \in [Conns -> 0..2 * MaxMsg]
    /\ sync \in [Conns -> SUBSET (1..MaxMsg)]
    /\ accepted \subseteq Conns
    /\ await \subseteq Conns
    /\ died \subseteq Conns
    /\ fdmap \in [Fd -> Conns \cup {None}]
    /\ read \in [Conns -> 0..2 * MaxMsg]
    /\ log \in [Conns -> 0..MaxMsg]
    /\ poll \in Seq([fd : Fd, ready : BOOLEAN])
    /\ conn \in Seq(Fd)
    /\ listen \in BOOLEAN
    /\ index \in -1..Cardinality(Fd)
    /\ nready \in 0..Cardinality(Fd) + 1
    /\ refs \in 0..Cardinality(Fd)
    /\ srv \in [pc : {"wait", "recv", "closed"}, fd : Fd \cup {0}, part : 0..1]
    /\ replies \subseteq [from : Conns, msg : 1..MaxMsg, fd : Fd]
    /\ answered \in [Conns -> SUBSET (Conns \X (1..MaxMsg))]

Init ==
    /\ proto \in Protos
    /\ peer = [k \in Conns |-> "new"]
    /\ written = [k \in Conns |-> 0]
    /\ sync = [k \in Conns |-> {}]
    /\ accepted = {}
    /\ await = {}
    /\ died = {}
    /\ fdmap = [f \in Fd |-> None]
    /\ read = [k \in Conns |-> 0]
    /\ log = [k \in Conns |-> 0]
    /\ poll = <<>>
    /\ conn = <<>>
    /\ listen = FALSE
    /\ index = 0
    /\ nready = 0
    /\ refs = 0
    /\ srv = [pc |-> "wait", fd |-> 0, part |-> 0]
    /\ replies = {}
    /\ answered = [k \in Conns |-> {}]

-----------------------------------------------------------------------------
(* Clients. *)

\* Connections the kernel completed and the server did not accept yet, those
\* whose client is already gone included.
Backlog == {k \in Conns \ accepted : peer[k] # "new"}
Usable(k) == peer[k] = "open"
FreeFd == {f \in Fd : fdmap[f] = None}

\* Connect: the kernel completes the connection before the server accepts it.
\* A client opens its next connection after it gave up the previous one.
Connect(k) ==
    /\ peer[k] = "new"
    /\ \A n \in 1..k[2] - 1 : peer[<<k[1], n>>] = "closed"
    /\ srv.pc # "closed"
    /\ Cardinality(Backlog) < Cardinality(FreeFd)
    /\ peer' = [peer EXCEPT ![k] = "open"]
    /\ UNCHANGED <<proto, accepted, written, sync, await, died, fdmap, read, log, array,
                   refs, srv, replies, answered>>

\* The loop of Send writes one more part; after the last one the client of a
\* synchronous request waits.
Send(k) ==
    /\ Usable(k)
    /\ k \notin await
    /\ written[k] < 2 * MaxMsg
    /\ written' = [written EXCEPT ![k] = @ + 1]
    /\ IF written[k] % 2 = 0 THEN UNCHANGED <<sync, await>>
       ELSE \/ UNCHANGED <<sync, await>>
            \/ /\ sync' = [sync EXCEPT ![k] = @ \cup {written'[k] \div 2}]
               /\ await' = await \cup {k}
    /\ UNCHANGED <<proto, accepted, peer, died, fdmap, read, log, array, refs, srv,
                   replies, answered>>

\* The interface is released between two requests.
ClientClose(k) ==
    /\ Usable(k)
    /\ k \notin await
    /\ written[k] % 2 = 0
    /\ peer' = [peer EXCEPT ![k] = "closed"]
    /\ UNCHANGED <<proto, accepted, written, sync, await, died, fdmap, read, log, array,
                   refs, srv, replies, answered>>

\* The client's process ends, possibly within a message or while it waits.
ClientDies(k) ==
    /\ Usable(k)
    /\ k \in await \/ written[k] % 2 = 1
    /\ peer' = [peer EXCEPT ![k] = "closed"]
    /\ await' = await \ {k}
    /\ died' = IF k \in await THEN died \cup {k} ELSE died
    /\ UNCHANGED <<proto, accepted, written, sync, fdmap, read, log, array, refs, srv,
                   replies, answered>>

\* The server closed the connection: the client's Recv returns -1.
ClientEof(k) ==
    /\ k \in await
    /\ srv.pc = "closed"
    /\ peer' = [peer EXCEPT ![k] = "closed"]
    /\ await' = await \ {k}
    /\ UNCHANGED <<proto, accepted, written, sync, died, fdmap, read, log, array, refs,
                   srv, replies, answered>>

-----------------------------------------------------------------------------
(* The receive thread over sockets. *)

\* poll reports data and the end of the stream alike.
Ready(f) == LET k == fdmap[f] IN read[k] < written[k] \/ peer[k] = "closed"

\* The entries a scan that stands at index still has to see.
ToScan == {i \in 1..Len(poll) : i <= index /\ poll[i].ready}
Scanning == nready > 0 /\ (ToScan # {} \/ (listen /\ index >= 0))

\* Mutant of Poll: the newest connection is not polled.
PollShort ==
    /\ proto = "socket"
    /\ srv.pc = "wait"
    /\ ~Scanning
    /\ Backlog # {} \/ \E i \in 1..Len(poll) - 1 : Ready(poll[i].fd)
    /\ poll' = [i \in 1..Len(poll) |->
                [poll[i] EXCEPT !.ready = i < Len(poll) /\ Ready(poll[i].fd)]]
    /\ listen' = (Backlog # {})
    /\ index' = Len(poll)
    /\ nready' = Cardinality({i \in 1..Len(poll) - 1 : Ready(poll[i].fd)})
                 + (IF Backlog # {} THEN 1 ELSE 0)
    /\ UNCHANGED <<proto, accepted, client, fdmap, read, log, conn, refs, srv, replies, answered>>

\* Wait: every entry is polled again once the scan is over.
Poll ==
    /\ proto = "socket"
    /\ srv.pc = "wait"
    /\ ~Scanning
    /\ Backlog # {} \/ \E i \in 1..Len(poll) : Ready(poll[i].fd)
    /\ poll' = [i \in 1..Len(poll) |-> [poll[i] EXCEPT !.ready = Ready(poll[i].fd)]]
    /\ listen' = (Backlog # {})
    /\ index' = Len(poll)
    /\ nready' = Cardinality({i \in 1..Len(poll) : Ready(poll[i].fd)})
                 + (IF Backlog # {} THEN 1 ELSE 0)
    /\ UNCHANGED <<proto, accepted, client, fdmap, read, log, conn, refs, srv, replies, answered>>

\* Mutant of Scan: revents is not reset and the scan stays at the entry.
ScanKeeps ==
    /\ proto = "socket"
    /\ srv.pc = "wait"
    /\ Scanning /\ ToScan # {}
    /\ LET i == Max(ToScan) IN
       /\ poll' = poll
       /\ index' = i
       /\ srv' = [pc |-> "recv", fd |-> conn[i], part |-> 0]
    /\ nready' = nready - 1
    /\ UNCHANGED <<proto, accepted, client, fdmap, read, log, conn, listen, refs, replies, answered>>

\* Wait: from the newest connection down to the oldest.
Scan ==
    /\ proto = "socket"
    /\ srv.pc = "wait"
    /\ Scanning /\ ToScan # {}
    /\ LET i == Max(ToScan) IN
       /\ poll' = [poll EXCEPT ![i].ready = FALSE]
       /\ index' = i - 1
       /\ srv' = [pc |-> "recv", fd |-> conn[i], part |-> 0]
    /\ nready' = nready - 1
    /\ UNCHANGED <<proto, accepted, client, fdmap, read, log, conn, listen, refs, replies, answered>>

\* accept gives the lowest free descriptor.
Accepted(k) ==
    /\ accepted' = accepted \cup {k}
    /\ fdmap' = [fdmap EXCEPT ![Min(FreeFd)] = k]

\* Wait: the listening socket comes last; OnNewConnection counts.
Accept(k) ==
    /\ proto = "socket"
    /\ srv.pc = "wait"
    /\ Scanning /\ ToScan = {}
    /\ k \in Backlog
    /\ Accepted(k)
    /\ poll' = Append(poll, [fd |-> Min(FreeFd), ready |-> FALSE])
    /\ conn' = Append(conn, Min(FreeFd))
    /\ listen' = FALSE
    /\ index' = -1
    /\ nready' = nready - 1
    /\ refs' = refs + 1
    /\ UNCHANGED <<proto, client, read, log, srv, replies, answered>>

-----------------------------------------------------------------------------
(* The receive thread over Unix domain sockets.  Every Wait polls and starts *)
(* again from the listening socket; no callback is called.                   *)

\* Wait: an accepted connection is returned as initial and skipped.
AcceptUds(k) ==
    /\ proto = "uds"
    /\ srv.pc = "wait"
    /\ k \in Backlog
    /\ Accepted(k)
    /\ poll' = Append(poll, [fd |-> Min(FreeFd), ready |-> FALSE])
    /\ UNCHANGED <<proto, client, read, log, conn, listen, index, nready, refs,
                   srv, replies, answered>>

\* The entry of a peer that hung up is replaced by the last one.
SwapOut(s, i) == SubSeq([s EXCEPT ![i] = Last(s)], 1, Len(s) - 1)

\* Wait: the first ready entry.  One with POLLHUP leaves the array before its
\* data is read, so what is behind the next message is never read.
WaitUds ==
    /\ proto = "uds"
    /\ srv.pc = "wait"
    /\ Backlog = {}
    /\ \E i \in 1..Len(poll) :
        /\ Ready(poll[i].fd)
        /\ \A j \in 1..i - 1 : ~Ready(poll[j].fd)
        /\ srv' = [pc |-> "recv", fd |-> poll[i].fd, part |-> 0]
        /\ poll' = IF peer[fdmap[poll[i].fd]] = "closed" THEN SwapOut(poll, i)
                   ELSE poll
    /\ UNCHANGED <<proto, accepted, client, fdmap, read, log, conn, listen, index, nready,
                   refs, replies, answered>>

-----------------------------------------------------------------------------
(* Receiving and replying. *)

ServerConn == fdmap[srv.fd]

\* Mutant of Recv: a message ends with the first read.
RecvShort ==
    /\ srv.pc = "recv"
    /\ read[ServerConn] < written[ServerConn]
    /\ read' = [read EXCEPT ![ServerConn] = @ + 1]
    /\ srv' = [srv EXCEPT !.pc = "wait"]
    /\ log' = [log EXCEPT ![ServerConn] = read'[ServerConn] \div 2]
    /\ UNCHANGED <<proto, accepted, client, fdmap, array, refs, replies, answered>>

\* Mutant of Recv: the reply goes to the newest connection.
RecvLastFd ==
    /\ srv.pc = "recv"
    /\ read[ServerConn] < written[ServerConn]
    /\ read' = [read EXCEPT ![ServerConn] = @ + 1]
    /\ IF srv.part = 0
       THEN srv' = [srv EXCEPT !.part = 1] /\ UNCHANGED <<log, replies>>
       ELSE LET n == log[ServerConn] + 1 IN
            /\ srv' = [srv EXCEPT !.pc = "wait"]
            /\ log' = [log EXCEPT ![ServerConn] = n]
            /\ replies' = IF n \notin sync[ServerConn] THEN replies
                          ELSE replies \cup {[from |-> ServerConn, msg |-> n,
                                              fd |-> IF poll = <<>> THEN srv.fd
                                                     ELSE Last(poll).fd]}
    /\ UNCHANGED <<proto, accepted, client, fdmap, array, refs, answered>>

\* buffer Recv: the header until it is complete, then the body.  With the last
\* part the request is registered; a synchronous one keeps its descriptor.
Recv ==
    /\ srv.pc = "recv"
    /\ read[ServerConn] < written[ServerConn]
    /\ read' = [read EXCEPT ![ServerConn] = @ + 1]
    /\ IF srv.part = 0
       THEN srv' = [srv EXCEPT !.part = 1] /\ UNCHANGED <<log, replies>>
       ELSE LET n == log[ServerConn] + 1 IN
            /\ srv' = [srv EXCEPT !.pc = "wait"]
            /\ log' = [log EXCEPT ![ServerConn] = n]
            /\ replies' = IF n \notin sync[ServerConn] THEN replies
                          ELSE replies \cup {[from |-> ServerConn, msg |-> n,
                                              fd |-> srv.fd]}
    /\ UNCHANGED <<proto, accepted, client, fdmap, array, refs, answered>>

\* Recv reads the end of the stream: CloseSock finds the entry, calls
\* OnCloseConnection, erases it from both arrays and closes the descriptor.
CloseSock ==
    /\ proto = "socket"
    /\ srv.pc = "recv"
    /\ peer[ServerConn] = "closed" /\ read[ServerConn] = written[ServerConn]
    /\ LET i == CHOOSE j \in 1..Len(poll) : poll[j].fd = srv.fd IN
       /\ conn' = RemoveAt(conn, i)
       /\ poll' = RemoveAt(poll, i)
    /\ fdmap' = [fdmap EXCEPT ![srv.fd] = None]
    /\ refs' = refs - 1
    /\ srv' = [srv EXCEPT !.pc = "wait"]
    /\ UNCHANGED <<proto, accepted, client, read, log, listen, index, nready, replies, answered>>

\* Over Unix domain sockets the read returns 0 and the request is dropped; the
\* descriptor is never closed.
RecvEofUds ==
    /\ proto = "uds"
    /\ srv.pc = "recv"
    /\ peer[ServerConn] = "closed" /\ read[ServerConn] = written[ServerConn]
    /\ srv' = [srv EXCEPT !.pc = "wait"]
    /\ UNCHANGED <<proto, accepted, client, fdmap, read, log, array, refs, replies, answered>>

\* The thread that executed the request writes the reply to the descriptor the
\* request came from, whoever owns it by now.
Reply(q) ==
    /\ q \in replies
    /\ replies' = replies \ {q}
    /\ LET k == fdmap[q.fd] IN
       IF k = None \/ peer[k] = "closed" THEN UNCHANGED <<answered, await>>
       ELSE /\ answered' = [answered EXCEPT ![k] = @ \cup {<<q.from, q.msg>>}]
            /\ await' = await \ {k}
    /\ UNCHANGED <<proto, accepted, peer, written, sync, died, fdmap, read, log, array,
                   refs, srv>>

\* The receive thread leaves its loop: Close of the server's combox, which
\* over Unix domain sockets only closes the listening socket; the process,
\* which drops the requests, ends soon after.
Close ==
    /\ srv.pc = "wait"
    /\ replies = {}
    /\ srv' = [srv EXCEPT !.pc = "closed"]
    /\ fdmap' = [f \in Fd |-> None]
    /\ poll' = <<>>
    /\ conn' = <<>>
    /\ nready' = 0
    /\ index' = -1
    /\ refs' = refs - Len(conn)
    /\ UNCHANGED <<proto, accepted, client, read, log, listen, replies, answered>>

-----------------------------------------------------------------------------
ClientStep(k) ==
    Connect(k) \/ Send(k) \/ ClientClose(k) \/ ClientDies(k) \/ ClientEof(k)

ReceiveStep ==
    \/ Poll
    \/ Scan
    \/ WaitUds
    \/ Recv
    \/ CloseSock
    \/ RecvEofUds
    \/ \E k \in Conns : Accept(k) \/ AcceptUds(k)

Next ==
    \/ \E k \in Conns : ClientStep(k)
    \/ ReceiveStep
    \/ \E q \in replies : Reply(q)
    \/ Close

Spec == Init /\ [][Next]_vars

\* The receive thread runs, a client that began a message goes on writing it
\* or dies, and requests are answered.  Nobody has to connect, begin or close.
Fairness ==
    /\ WF_vars(ReceiveStep)
    /\ \A k \in Conns : WF_vars(written[k] % 2 = 1 /\ (Send(k) \/ ClientDies(k)))
    /\ WF_vars(\E q \in replies : Reply(q))
    /\ \A k \in Conns : WF_vars(ClientEof(k))

FairSpec == Spec /\ Fairness

-----------------------------------------------------------------------------
(* Properties. *)

\* Whatever the partial reads and writes, the deaths within a message and the
\* order of the connections, the server never mixes or splits messages: it is
\* within a message of k only while its receive thread reads that message or
\* after the client died within it.
Framing ==
    \A k \in Conns :
        /\ read[k] % 2 = 1 => \/ srv.pc = "recv" /\ srv.part = 1 /\ ServerConn = k
                              \/ peer[k] = "closed" /\ written[k] = read[k]
        /\ log[k] = read[k] \div 2

\* pollarray and connarray stay parallel while entries are added and erased
\* within a scan, hold each open descriptor once, and the callbacks were called
\* once for each: the broker's count of connections is exact.
ArraysMatch ==
    proto = "socket" =>
        /\ Len(conn) = Len(poll)
        /\ \A i \in 1..Len(poll) : conn[i] = poll[i].fd
        /\ IsInjective(conn)
        /\ srv.pc # "closed" => ToSet(conn) = Fd \ FreeFd
        /\ refs = Len(conn)

\* Every variable keeps its type, the two arrays match, and the scan that goes
\* on from Wait to Wait neither forgets a ready descriptor nor counts one twice,
\* also after an entry was erased below it.
ScanExact ==
    /\ TypeOK
    /\ ArraysMatch
    /\ proto = "socket" /\ srv.pc # "closed" =>
         nready = Cardinality(ToScan) + (IF listen THEN 1 ELSE 0)

\* The requests of k whose reply may find another client behind the
\* descriptor: k died while it waited, or took someone else's reply for its
\* own and went away.
Abandoned(k) == k \in died \/ \E a \in answered[k] : a[1] # k

\* A reply reaches the client that asked, unless that client was gone before
\* its reply was sent: then whoever got its descriptor receives the reply.  A
\* client that waits in good order is never robbed of its own.
ReplyOwner ==
    \A k \in Conns : \A a \in answered[k] : a[1] = k \/ Abandoned(a[1])

\* Every message completely written is received while the server runs, also
\* when its client is gone by then.  Over Unix domain sockets this needs the
\* client to stay.
Delivered ==
    \A k \in Conns, n \in 1..MaxMsg :
        (written[k] >= 2 * n) ~>
            \/ log[k] >= n
            \/ srv.pc = "closed"
            \/ proto = "uds" /\ peer[k] = "closed"

=============================================================================
