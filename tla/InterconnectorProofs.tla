------------------------ MODULE InterconnectorProofs ------------------------
(***************************************************************************)
(* Proofs about Interconnector, for any number of nodes, clients, objects  *)
(* and members of groups: the parts of two commands are never mixed up, a  *)
(* request reaches the object it was meant for, with --multiple-connection *)
(* no connection carries two requests, the state is well formed, and the   *)
(* members of a group get exactly the calls that are for them.  The rest   *)
(* of RoutedRight, that an answer reaches the client that waits for it, is *)
(* in AnswerProofs.                                                        *)
(***************************************************************************)
EXTENDS Interconnector, SequenceTheorems, TLAPS

-----------------------------------------------------------------------------
(* The invariant. *)

Ops == {"alloc", "group", "connect", "call", "rank", "final", "answer", "address",
        "terminate", "allocation", "request"}
Msg == [op : Ops, who : Everyone \cup {None}, n : Nat, sync : BOOLEAN, node : Nat, id : Nat]
MainType == [at : {"poll", "save", "exec", "sent", "stuck", "ended", "exited", "dead"},
             fd : Nat, src : Nodes \cup {None}, id : Nat]
ClientType == [at : {"idle", "alloc", "ready", "bound", "wait", "final", "finished"},
               fd : Nat, node : Nat, id : Nat, n : Nat, post : BOOLEAN]
BodyType == [kind : {"alloc", "address", "request", "response"}, src : Nodes, dst : Nat,
             tag : Nat, id : Nat, m : Msg]
SockType == [Nodes -> Seq(Seq(Msg))]
Commands == {"terminate", "wait", "allocate", "request", "response", "allocated"}
CmdType == [Nodes -> [Nodes -> Seq([what : Commands, tag : Nat])]]

\* Threads, messages, counters and maps.
TypeInv ==
    /\ deployment \in Deployments
    /\ multiple \in BOOLEAN
    /\ main \in [Nodes -> MainType]
    /\ cmd \in CmdType
    /\ body \subseteq BodyType
    /\ ipc \in SockType
    /\ \A n \in Nodes : 1 \in DOMAIN ipc[n]
    /\ next_tag \in [Nodes -> Nat] /\ next_object_id \in [Nodes -> Nat] /\ allocation_id \in [Nodes -> Nat]
    /\ client \in [Clients -> ClientType]
    /\ \A o \in objects : o.node \in Nodes /\ o.id \in Nat

\* The maps of every node.
MapInv ==
    /\ incomingconnection = [n \in Nodes |-> incomingconnection[n]]
    /\ outgoingconnection = [n \in Nodes |-> outgoingconnection[n]]
    /\ connectionmap = [n \in Nodes |-> connectionmap[n]]
    /\ \A n \in Nodes :
        /\ DOMAIN incomingconnection[n] \subseteq DOMAIN ipc[n]
        /\ \A fd \in DOMAIN incomingconnection[n] : incomingconnection[n][fd] \in [node : Nat, id : Nat]
        /\ \A fd \in DOMAIN outgoingconnection[n] : outgoingconnection[n][fd] \in [tag : Nat, src : Nodes]

\* A main thread waits until what it sent was received: at most one body of a
\* node is under way, besides those of allocations, and while it is the main
\* thread does nothing else.
SendInv ==
    /\ \A a, b \in body : a.kind # "alloc" /\ b.kind # "alloc" /\ a.src = b.src => a = b
    /\ \A b \in body : b.kind # "alloc" => main[b.src].at \in {"sent", "dead"}

\* What socket fd of node n is connected to, or will be.
Targets(n, fd) ==
    {incomingconnection[n][x] : x \in DOMAIN incomingconnection[n] \cap {fd}}
    \cup {[node |-> m.node, id |-> m.id] : m \in {m \in ToSet(ipc[n][fd]) : m.op = "connect"}}

\* The requests and answers on socket fd of node n.
Calls(n, fd) == {m \in ToSet(ipc[n][fd]) : m.op \in {"call", "answer"}}

\* What is for object m.id of node m.node goes to x.
Match(m, x) == m.node \in Nodes /\ x.node = DestNode(m.node, m.id) /\ x.id = m.id

\* The socket of a client is connected to the object the client is bound to.
ClientRoute ==
    \A c \in Clients : client[c].at # "idle" =>
        /\ client[c].fd \in DOMAIN ipc[Home[c]]
        /\ \A x \in Targets(Home[c], client[c].fd) : c \notin Grouping /\ Match(client[c], x)

\* What is on a connected socket is for the object it is connected to.
SocketRoute ==
    \A n \in Nodes : \A fd \in DOMAIN ipc[n] :
        \A m \in Calls(n, fd) : \A x \in Targets(n, fd) : Match(m, x)

\* The connections to objects are connected to nothing themselves.
ObjectRoute ==
    /\ \A n \in Nodes : \A k \in DOMAIN connectionmap[n] :
        connectionmap[n][k] \in DOMAIN ipc[n] /\ Targets(n, connectionmap[n][k]) = {}
    /\ \A r \in serving :
        /\ r.node \in Nodes /\ r.fd \in DOMAIN ipc[r.node] /\ Targets(r.node, r.fd) = {}
        /\ r.m \in Msg /\ Match(r.m, r)

\* A request on its way to object 0, which does not exist, may be anything.
BodyRoute ==
    \A b \in body : b.kind = "request" =>
        /\ b.m.op \in {"call", "answer"}
        /\ b.id # 0 => Match(b.m, [node |-> b.dst, id |-> b.id])

RouteInv == ClientRoute /\ SocketRoute /\ ObjectRoute /\ BodyRoute

IInv == TypeInv /\ MapInv /\ SendInv /\ RouteInv /\ MultipleApart

-----------------------------------------------------------------------------
(* Sequences and sockets. *)

\* What is left of a sequence without its head.
LEMMA TailSet ==
    ASSUME NEW S, NEW s \in Seq(S), s # <<>>
    PROVE  /\ Tail(s) \in Seq(S) /\ Head(s) \in S /\ Head(s) \in ToSet(s)
           /\ ToSet(Tail(s)) \subseteq ToSet(s)
<1>1. /\ Tail(s) \in Seq(S) /\ Len(s) \in Nat \ {0} /\ Len(Tail(s)) = Len(s) - 1
      /\ DOMAIN s = 1..Len(s) /\ DOMAIN Tail(s) = 1..Len(Tail(s))
      /\ Head(s) = s[1]
      /\ \A i \in 1..(Len(s) - 1) : Tail(s)[i] = s[i + 1]
  OBVIOUS
<1>2. ASSUME NEW i \in DOMAIN Tail(s) PROVE Tail(s)[i] \in ToSet(s)
  <2>1. i + 1 \in DOMAIN s /\ Tail(s)[i] = s[i + 1]
    BY <1>1, <1>2
  <2> QED BY <2>1 DEF ToSet
<1>3. ToSet(Tail(s)) \subseteq ToSet(s)
  BY <1>2 DEF ToSet
<1>4. 1 \in DOMAIN s /\ s[1] \in S
  BY <1>1
<1> QED BY <1>1, <1>3, <1>4 DEF ToSet

\* What is in a sequence with more at its end.
LEMMA CatSet ==
    ASSUME NEW S, NEW s \in Seq(S), NEW t \in Seq(S)
    PROVE  s \o t \in Seq(S) /\ ToSet(s \o t) \subseteq ToSet(s) \cup ToSet(t)
<1>1. /\ s \o t \in Seq(S) /\ Len(s) \in Nat /\ Len(t) \in Nat
      /\ DOMAIN (s \o t) = 1..(Len(s) + Len(t))
      /\ DOMAIN s = 1..Len(s) /\ DOMAIN t = 1..Len(t)
      /\ \A i \in 1..(Len(s) + Len(t)) :
            (s \o t)[i] = IF i <= Len(s) THEN s[i] ELSE t[i - Len(s)]
  OBVIOUS
<1>2. ASSUME NEW i \in 1..(Len(s) + Len(t)) PROVE (s \o t)[i] \in ToSet(s) \cup ToSet(t)
  <2>1. CASE i <= Len(s)
    <3>1. i \in DOMAIN s /\ (s \o t)[i] = s[i]
      BY <1>1, <2>1
    <3> QED BY <3>1 DEF ToSet
  <2>2. CASE ~(i <= Len(s))
    <3>1. i - Len(s) \in DOMAIN t /\ (s \o t)[i] = t[i - Len(s)]
      BY <1>1, <2>2
    <3> QED BY <3>1 DEF ToSet
  <2> QED BY <2>1, <2>2
<1> QED BY <1>1, <1>2 DEF ToSet

\* One more element.
LEMMA AppendSet ==
    ASSUME NEW S, NEW s \in Seq(S), NEW e \in S
    PROVE  /\ Append(s, e) \in Seq(S) /\ Len(Append(s, e)) = Len(s) + 1
           /\ ToSet(Append(s, e)) \subseteq ToSet(s) \cup {e}
           /\ DOMAIN s \subseteq DOMAIN Append(s, e)
           /\ DOMAIN Append(s, e) = DOMAIN s \cup {Len(s) + 1}
           /\ \A i \in DOMAIN s : Append(s, e)[i] = s[i]
           /\ Append(s, e)[Len(s) + 1] = e
<1>1. /\ Append(s, e) \in Seq(S) /\ Len(s) \in Nat /\ Len(Append(s, e)) = Len(s) + 1
      /\ DOMAIN s = 1..Len(s) /\ DOMAIN Append(s, e) = 1..(Len(s) + 1)
      /\ \A i \in 1..Len(s) : Append(s, e)[i] = s[i]
      /\ Append(s, e)[Len(s) + 1] = e
  OBVIOUS
<1>2. 1..(Len(s) + 1) = 1..Len(s) \cup {Len(s) + 1}
  BY <1>1
<1> QED BY <1>1, <1>2 DEF ToSet

\* Two more elements.
LEMMA AppendTwo ==
    ASSUME NEW S, NEW s \in Seq(S), NEW u \in S, NEW v \in S
    PROVE  s \o <<u, v>> = Append(Append(s, u), v)
<1>1. PICK t : t = Append(s, u)
  OBVIOUS
<1>2. /\ t \in Seq(S) /\ Len(t) = Len(s) + 1 /\ Len(s) \in Nat
      /\ \A i \in 1..Len(s) : t[i] = s[i]
      /\ t[Len(s) + 1] = u
  BY <1>1
<1>3. /\ Append(t, v) \in Seq(S) /\ Len(Append(t, v)) = Len(s) + 2
      /\ \A i \in 1..(Len(s) + 1) : Append(t, v)[i] = t[i]
      /\ Append(t, v)[Len(s) + 2] = v
  BY <1>2
<1>4. /\ s \o <<u, v>> \in Seq(S) /\ Len(s \o <<u, v>>) = Len(s) + 2
      /\ \A i \in 1..Len(s) : (s \o <<u, v>>)[i] = s[i]
      /\ (s \o <<u, v>>)[Len(s) + 1] = u /\ (s \o <<u, v>>)[Len(s) + 2] = v
  OBVIOUS
<1>5. \A i \in 1..(Len(s) + 2) : (s \o <<u, v>>)[i] = Append(t, v)[i]
  BY <1>2, <1>3, <1>4
<1> QED BY <1>1, <1>3, <1>4, <1>5, SeqEqual

\* Sockets p of the nodes where socket fd of n is replaced, or n has one more.
Replace(p, n, fd, s) == [p EXCEPT ![n][fd] = s]
Extend(p, n, s) == [p EXCEPT ![n] = Append(@, s)]

\* What is on the sockets when one is replaced.
LEMMA Replaced ==
    ASSUME NEW p \in SockType, NEW n \in Nodes, NEW fd \in DOMAIN p[n], NEW s \in Seq(Msg),
           NEW q, q = Replace(p, n, fd, s)
    PROVE  /\ q \in SockType
           /\ \A k \in Nodes : DOMAIN q[k] = DOMAIN p[k]
           /\ q[n][fd] = s
           /\ \A k \in Nodes : \A f \in DOMAIN p[k] : k # n \/ f # fd => q[k][f] = p[k][f]
<1>1. p[n] \in Seq(Seq(Msg)) /\ q = [p EXCEPT ![n] = [p[n] EXCEPT ![fd] = s]]
  BY DEF SockType, Replace
<1>2. /\ [p[n] EXCEPT ![fd] = s] \in Seq(Seq(Msg))
      /\ DOMAIN [p[n] EXCEPT ![fd] = s] = DOMAIN p[n]
      /\ Len([p[n] EXCEPT ![fd] = s]) = Len(p[n])
      /\ \A f \in DOMAIN p[n] : [p[n] EXCEPT ![fd] = s][f] = IF f = fd THEN s ELSE p[n][f]
  BY <1>1
<1> QED BY <1>1, <1>2 DEF SockType

\* What is on the sockets when one is opened.
LEMMA Opened ==
    ASSUME NEW p \in SockType, NEW n \in Nodes, NEW s \in Seq(Msg),
           NEW q, q = Extend(p, n, s)
    PROVE  /\ q \in SockType
           /\ \A k \in Nodes : DOMAIN p[k] \subseteq DOMAIN q[k]
           /\ \A k \in Nodes : \A f \in DOMAIN p[k] : q[k][f] = p[k][f]
           /\ \A k \in Nodes : \A f \in DOMAIN q[k] \ DOMAIN p[k] : k = n /\ f = Len(p[n]) + 1
           /\ Len(p[n]) + 1 \in DOMAIN q[n] \ DOMAIN p[n]
           /\ q[n][Len(p[n]) + 1] = s
           /\ Len(q[n]) = Len(p[n]) + 1
<1>1. p[n] \in Seq(Seq(Msg)) /\ q[n] = Append(p[n], s)
  BY DEF SockType, Extend
<1>2. /\ q[n] \in Seq(Seq(Msg)) /\ Len(q[n]) = Len(p[n]) + 1
      /\ DOMAIN q[n] = DOMAIN p[n] \cup {Len(p[n]) + 1}
      /\ \A i \in DOMAIN p[n] : q[n][i] = p[n][i]
      /\ q[n][Len(p[n]) + 1] = s
  BY <1>1, AppendSet
<1>3. Len(p[n]) + 1 \notin DOMAIN p[n]
  BY <1>1
<1>4. \A k \in Nodes : k # n => q[k] = p[k]
  BY DEF SockType, Extend
<1>5. q = [k \in Nodes |-> IF k = n THEN q[n] ELSE p[k]]
  BY DEF SockType, Extend
<1>6. q \in SockType
  BY <1>2, <1>5 DEF SockType
<1> QED BY <1>2, <1>3, <1>4, <1>6

-----------------------------------------------------------------------------
(* Routes over the sockets. *)

\* The sockets stay, and are connected to nothing new.
Grows ==
    \A k \in Nodes : DOMAIN ipc[k] \subseteq DOMAIN ipc'[k]
        /\ \A f \in DOMAIN ipc[k] : Targets(k, f)' \subseteq Targets(k, f)

\* On a socket there is nothing new that does not fit it.
LEMMA SocketsFit ==
    ASSUME TypeInv, MapInv, SocketRoute, ipc' \in SockType, incomingconnection' = incomingconnection,
           \A k \in Nodes : DOMAIN ipc[k] \subseteq DOMAIN ipc'[k],
           \A k \in Nodes : \A f \in DOMAIN ipc[k] : \A m \in ToSet(ipc'[k][f]) :
                \/ m \in ToSet(ipc[k][f])
                \/ /\ m.op # "connect"
                   /\ m.op \in {"call", "answer"} => \A x \in Targets(k, f) : Match(m, x),
           \A k \in Nodes : \A f \in DOMAIN ipc'[k] \ DOMAIN ipc[k] : \A m, y \in ToSet(ipc'[k][f]) :
                m.op \in {"call", "answer"} /\ y.op = "connect" => Match(m, [node |-> y.node, id |-> y.id])
    PROVE  Grows /\ SocketRoute'
<1>1. Grows
  BY DEF Grows, Targets
<1>2. ASSUME NEW k \in Nodes, NEW f \in DOMAIN ipc'[k], NEW m \in Calls(k, f)', NEW x \in Targets(k, f)'
      PROVE  Match(m, x)
  <2>1. m \in ToSet(ipc'[k][f]) /\ m.op \in {"call", "answer"}
    BY DEF Calls
  <2>2. CASE f \in DOMAIN ipc[k]
    <3>1. x \in Targets(k, f)
      BY <1>1, <2>2 DEF Grows
    <3>2. CASE m \in ToSet(ipc[k][f])
      BY <2>1, <2>2, <3>1, <3>2 DEF SocketRoute, Calls
    <3>3. CASE m \notin ToSet(ipc[k][f])
      BY <2>1, <2>2, <3>1, <3>3
    <3> QED BY <3>2, <3>3
  <2>3. CASE f \notin DOMAIN ipc[k]
    <3>1. f \notin DOMAIN incomingconnection[k]
      BY <2>3 DEF MapInv
    <3>2. PICK y \in ToSet(ipc'[k][f]) : y.op = "connect" /\ x = [node |-> y.node, id |-> y.id]
      BY <3>1 DEF Targets
    <3> QED BY <2>1, <2>3, <3>2
  <2> QED BY <2>2, <2>3
<1>3. SocketRoute'
  BY <1>2 DEF SocketRoute, Match
<1> QED BY <1>1, <1>3

\* Nothing of the sockets changes.
LEMMA SocketsStay ==
    ASSUME SocketRoute, UNCHANGED <<ipc, incomingconnection>>
    PROVE  Grows /\ SocketRoute'
  BY DEF Grows, SocketRoute, Targets, Calls, Match

\* The clients stay where they are.
LEMMA ClientsStay ==
    ASSUME TypeInv, ClientRoute, Grows, UNCHANGED <<deployment, client>>
    PROVE  ClientRoute'
<1>1. Clients' = Clients /\ Home' = Home /\ Grouping' = Grouping
  BY DEF Clients, Home, Grouping
<1>2. \A c \in Clients : Home[c] \in Nodes
  BY InterconnectorAssumption DEF TypeInv, Clients, Home, Nodes
<1> QED BY <1>1, <1>2 DEF ClientRoute, Grows, Match

\* The connections to objects stay, and no request reaches an object.
LEMMA ObjectsStay ==
    ASSUME ObjectRoute, Grows, connectionmap' = connectionmap, serving' \subseteq serving
    PROVE  ObjectRoute'
<1>1. ASSUME NEW n \in Nodes, NEW k \in DOMAIN connectionmap[n]
      PROVE  connectionmap[n][k] \in DOMAIN ipc'[n] /\ Targets(n, connectionmap[n][k])' = {}
  BY DEF ObjectRoute, Grows
<1>2. ASSUME NEW r \in serving
      PROVE  /\ r.node \in Nodes /\ r.fd \in DOMAIN ipc'[r.node] /\ Targets(r.node, r.fd)' = {}
             /\ r.m \in Msg /\ Match(r.m, r)
  BY DEF ObjectRoute, Grows
<1> QED BY <1>1, <1>2 DEF ObjectRoute, Match

-----------------------------------------------------------------------------
(* What the steps do to the sockets. *)

\* A socket is replaced; what is new on it fits it.
LEMMA ReplaceFits ==
    ASSUME IInv, NEW n \in Nodes, NEW fd \in DOMAIN ipc[n], NEW s \in Seq(Msg),
           ipc' = Replace(ipc, n, fd, s), incomingconnection' = incomingconnection,
           \A m \in ToSet(s) :
                \/ m \in ToSet(ipc[n][fd])
                \/ /\ m.op # "connect"
                   /\ m.op \in {"call", "answer"} => \A x \in Targets(n, fd) : Match(m, x)
    PROVE  /\ ipc' \in SockType /\ \A k \in Nodes : DOMAIN ipc'[k] = DOMAIN ipc[k]
           /\ Grows /\ SocketRoute'
<1>1. ipc \in SockType
  BY DEF IInv, TypeInv
<1>2. ipc' \in SockType /\ ipc'[n][fd] = s
  BY <1>1, Replaced
<1>3. \A k \in Nodes : DOMAIN ipc'[k] = DOMAIN ipc[k]
  BY <1>1, Replaced
<1>4. \A k \in Nodes : \A f \in DOMAIN ipc[k] : k # n \/ f # fd => ipc'[k][f] = ipc[k][f]
  BY <1>1, Replaced
<1>5. \A k \in Nodes : \A f \in DOMAIN ipc[k] : \A m \in ToSet(ipc'[k][f]) :
        \/ m \in ToSet(ipc[k][f])
        \/ /\ m.op # "connect"
           /\ m.op \in {"call", "answer"} => \A x \in Targets(k, f) : Match(m, x)
  BY <1>2, <1>4
<1>6. Grows /\ SocketRoute'
  BY <1>2, <1>3, <1>5, SocketsFit DEF IInv, RouteInv
<1> QED BY <1>2, <1>3, <1>6

\* The main thread takes a message.
LEMMA TakeFits ==
    ASSUME IInv, NEW n \in Nodes, NEW fd, NEW ops, Takes(n, fd, ops), ipc' = Taken(n, fd),
           incomingconnection' = incomingconnection
    PROVE  /\ ipc' \in SockType /\ \A k \in Nodes : DOMAIN ipc'[k] = DOMAIN ipc[k]
           /\ Grows /\ SocketRoute'
<1> DEFINE t == Tail(ipc[n][fd])
<1>1. ipc \in SockType /\ fd \in DOMAIN ipc[n] /\ ipc[n][fd] # <<>>
  BY DEF IInv, TypeInv, Takes
<1>2. ipc[n][fd] \in Seq(Msg)
  BY <1>1 DEF SockType
<1>3. t \in Seq(Msg) /\ ToSet(t) \subseteq ToSet(ipc[n][fd])
  BY <1>1, <1>2, TailSet
<1>4. ipc' = Replace(ipc, n, fd, t)
  BY DEF Taken, Replace
<1> HIDE DEF t
<1>5. \A m \in ToSet(t) : m \in ToSet(ipc[n][fd])
  BY <1>3
<1> QED BY <1>1, <1>3, <1>4, <1>5, ReplaceFits

\* The message it takes.
LEMMA TakenHead ==
    ASSUME IInv, NEW n \in Nodes, NEW fd, NEW ops, Takes(n, fd, ops)
    PROVE  /\ fd \in DOMAIN ipc[n] /\ fd \in Nat /\ main[n].at = "poll"
           /\ Head(ipc[n][fd]) \in Msg /\ Head(ipc[n][fd]) \in ToSet(ipc[n][fd])
           /\ Head(ipc[n][fd]).op \in ops
<1>1. ipc \in SockType /\ fd \in DOMAIN ipc[n] /\ ipc[n][fd] # <<>>
  BY DEF IInv, TypeInv, Takes
<1>2. ipc[n] \in Seq(Seq(Msg)) /\ ipc[n][fd] \in Seq(Msg)
  BY <1>1 DEF SockType
<1>3. fd \in Nat
  BY <1>1, <1>2
<1> QED BY <1>1, <1>2, <1>3, TailSet DEF Takes

\* Messages s are put on a socket.
LEMMA PushFits ==
    ASSUME IInv, NEW n \in Nodes, NEW fd \in DOMAIN ipc[n], NEW s \in Seq(Msg),
           ipc' = Replace(ipc, n, fd, ipc[n][fd] \o s), incomingconnection' = incomingconnection,
           \A m \in ToSet(s) :
                /\ m.op # "connect"
                /\ m.op \in {"call", "answer"} => \A x \in Targets(n, fd) : Match(m, x)
    PROVE  /\ ipc' \in SockType /\ \A k \in Nodes : DOMAIN ipc'[k] = DOMAIN ipc[k]
           /\ Grows /\ SocketRoute'
<1> DEFINE t == ipc[n][fd] \o s
<1>1. ipc[n][fd] \in Seq(Msg)
  BY DEF IInv, TypeInv, SockType
<1>2. t \in Seq(Msg) /\ ToSet(t) \subseteq ToSet(ipc[n][fd]) \cup ToSet(s)
  BY <1>1, CatSet
<1>3. ipc' = Replace(ipc, n, fd, t)
  OBVIOUS
<1> HIDE DEF t
<1>4. \A m \in ToSet(t) :
        \/ m \in ToSet(ipc[n][fd])
        \/ /\ m.op # "connect"
           /\ m.op \in {"call", "answer"} => \A x \in Targets(n, fd) : Match(m, x)
  BY <1>2
<1> QED BY <1>2, <1>3, <1>4, ReplaceFits

\* One message is put on a socket.
LEMMA PushOne ==
    ASSUME IInv, NEW n \in Nodes, NEW fd \in DOMAIN ipc[n], NEW m \in Msg,
           ipc' = [ipc EXCEPT ![n][fd] = Append(@, m)], incomingconnection' = incomingconnection,
           m.op # "connect",
           m.op \in {"call", "answer"} => \A x \in Targets(n, fd) : Match(m, x)
    PROVE  /\ ipc' \in SockType /\ \A k \in Nodes : DOMAIN ipc'[k] = DOMAIN ipc[k]
           /\ Grows /\ SocketRoute'
<1>1. ipc[n][fd] \in Seq(Msg)
  BY DEF IInv, TypeInv, SockType
<1>2. Append(ipc[n][fd], m) = ipc[n][fd] \o <<m>> /\ <<m>> \in Seq(Msg)
  BY <1>1
<1>3. ipc' = Replace(ipc, n, fd, ipc[n][fd] \o <<m>>)
  BY <1>2 DEF Replace
<1>4. ToSet(<<m>>) = {m}
  BY DEF ToSet
<1> QED BY <1>2, <1>3, <1>4, PushFits

\* A socket is opened with messages s on it.
LEMMA OpenFits ==
    ASSUME IInv, NEW n \in Nodes, NEW s \in Seq(Msg), NEW new, new = Len(ipc[n]) + 1,
           ipc' = Extend(ipc, n, s), incomingconnection' = incomingconnection,
           \A m, y \in ToSet(s) : m.op \in {"call", "answer"} /\ y.op = "connect"
                                    => Match(m, [node |-> y.node, id |-> y.id])
    PROVE  /\ ipc' \in SockType /\ \A k \in Nodes : DOMAIN ipc[k] \subseteq DOMAIN ipc'[k]
           /\ Grows /\ SocketRoute'
           /\ new \in Nat /\ new \in DOMAIN ipc'[n] \ DOMAIN ipc[n]
           /\ \A x \in Targets(n, new)' :
                \E y \in ToSet(s) : y.op = "connect" /\ x = [node |-> y.node, id |-> y.id]
<1>1. ipc \in SockType
  BY DEF IInv, TypeInv
<1>2. /\ ipc' \in SockType
      /\ \A k \in Nodes : DOMAIN ipc[k] \subseteq DOMAIN ipc'[k]
      /\ \A k \in Nodes : \A f \in DOMAIN ipc[k] : ipc'[k][f] = ipc[k][f]
      /\ \A k \in Nodes : \A f \in DOMAIN ipc'[k] \ DOMAIN ipc[k] : k = n /\ f = new
      /\ new \in DOMAIN ipc'[n] \ DOMAIN ipc[n]
      /\ ipc'[n][new] = s
  BY <1>1, Opened
<1>3. Grows /\ SocketRoute'
  BY <1>2, SocketsFit DEF IInv, RouteInv
<1>4. new \notin DOMAIN incomingconnection[n]
  BY <1>2 DEF IInv, MapInv
<1>5. ASSUME NEW x \in Targets(n, new)'
      PROVE  \E y \in ToSet(s) : y.op = "connect" /\ x = [node |-> y.node, id |-> y.id]
  <2>1. x \in {[node |-> m.node, id |-> m.id] : m \in {m \in ToSet(s) : m.op = "connect"}}
    BY <1>2, <1>4 DEF Targets
  <2> QED BY <2>1
<1>6. Len(ipc[n]) \in Nat
  BY <1>1 DEF SockType
<1> QED BY <1>2, <1>3, <1>5, <1>6

-----------------------------------------------------------------------------
(* Frames. *)

\* The maps, the clients and the objects are left alone.
LEMMA RoutesKept ==
    ASSUME IInv, Grows, SocketRoute', serving' \subseteq serving,
           UNCHANGED <<deployment, multiple, incomingconnection, outgoingconnection, connectionmap, client, overlap>>
    PROVE  MapInv' /\ ClientRoute' /\ SocketRoute' /\ ObjectRoute' /\ MultipleApart'
<1>1. ClientRoute'
  BY ClientsStay DEF IInv, RouteInv
<1>2. ObjectRoute'
  BY ObjectsStay DEF IInv, RouteInv
<1>3. MapInv'
  BY DEF IInv, MapInv, Grows
<1>4. MultipleApart'
  BY DEF IInv, MultipleApart
<1> QED BY <1>1, <1>2, <1>3, <1>4

\* Nothing is sent, besides the request for an allocation, and no main thread
\* leaves its wait while its body is under way.
LEMMA NothingSent ==
    ASSUME IInv, \A b \in body' : b \in body \/ b.kind = "alloc",
           \A b \in body' : b.kind # "alloc" => main'[b.src].at \in {main[b.src].at, "dead"}
    PROVE  SendInv' /\ BodyRoute'
<1>1. BodyRoute'
  BY DEF IInv, RouteInv, BodyRoute, Match
<1>2. SendInv'
  BY DEF IInv, SendInv
<1> QED BY <1>1, <1>2

\* The main thread of n, which did not wait, sends and waits.
LEMMA OneSent ==
    ASSUME IInv, NEW n \in Nodes, NEW b, b.src = n, body' = body \cup {b},
           main' = [main EXCEPT ![n].at = "sent"], main[n].at \in {"poll", "exec"},
           b.kind = "request" => /\ b.m.op \in {"call", "answer"}
                                 /\ b.id # 0 => Match(b.m, [node |-> b.dst, id |-> b.id])
    PROVE  SendInv' /\ BodyRoute'
<1>1. BodyRoute'
  BY DEF IInv, RouteInv, BodyRoute, Match
<1>2. \A a \in body : a.kind # "alloc" => a.src # n
  BY DEF IInv, SendInv
<1>3. main'[n].at = "sent" /\ \A k \in Nodes : main'[k].at \in {main[k].at, "sent"}
  BY DEF IInv, TypeInv, MainType
<1>4. \A a \in body : a.src \in Nodes
  BY DEF IInv, TypeInv, BodyType
<1>5. SendInv'
  BY <1>2, <1>3, <1>4 DEF IInv, SendInv
<1> QED BY <1>1, <1>5

\* All parts together.
LEMMA Together ==
    ASSUME TypeInv', MapInv', SendInv', ClientRoute', SocketRoute', ObjectRoute', BodyRoute', MultipleApart'
    PROVE  IInv'
  BY DEF IInv, RouteInv

-----------------------------------------------------------------------------
(* The steps of the programs. *)

\* What a deployment says of a client.
LEMMA Deployed ==
    ASSUME TypeInv, NEW c \in Clients
    PROVE  /\ Home[c] \in Nodes /\ deployment[c].node \in Nat /\ c \in Everyone
           /\ client[c] \in ClientType
  BY InterconnectorAssumption DEF TypeInv, Clients, Home, Nodes, Everyone

\* Client c becomes v.
LEMMA ClientMoves ==
    ASSUME IInv, Grows, deployment' = deployment, NEW c \in Clients, NEW v \in ClientType,
           client' = [client EXCEPT ![c] = v],
           NEW h, h = Home[c], NEW f, f = v.fd, f \in DOMAIN ipc'[h],
           \A x \in Targets(h, f)' : c \notin Grouping /\ Match(v, x)
    PROVE  ClientRoute' /\ client' \in [Clients' -> ClientType]
<1>1. Clients' = Clients /\ Home' = Home /\ Grouping' = Grouping
  BY DEF Clients, Home, Grouping
<1>2. client \in [Clients -> ClientType]
  BY DEF IInv, TypeInv
<1>3. ASSUME NEW d \in Clients, client'[d].at # "idle"
      PROVE  /\ client'[d].fd \in DOMAIN ipc'[Home[d]]
             /\ \A x \in Targets(Home[d], client[d].fd)' : d \notin Grouping /\ Match(client'[d], x)
  <2>1. CASE d = c
    BY <1>1, <1>2, <2>1 DEF Match
  <2>2. CASE d # c
    <3>1. client'[d] = client[d] /\ Home[d] \in Nodes
      BY <1>2, <2>2, Deployed DEF IInv
    <3> QED BY <1>1, <1>3, <3>1 DEF IInv, RouteInv, ClientRoute, Grows, Match
  <2> QED BY <2>1, <2>2
<1> QED BY <1>1, <1>2, <1>3 DEF ClientRoute, Match

\* A step of a program or an object: it changes sockets and clients.
Outside ==
    /\ serving' \subseteq serving
    /\ UNCHANGED <<deployment, multiple, main, cmd, body, incomingconnection, outgoingconnection, connectionmap,
                   next_tag, next_object_id, allocation_id, objects, overlap>>

\* Such a step keeps the invariant if the clients and the sockets fit.
LEMMA OutsideInv ==
    ASSUME IInv, Outside, ipc' \in SockType, Grows, SocketRoute', ClientRoute',
           client' \in [Clients' -> ClientType]
    PROVE  IInv'
<1>1. \A k \in Nodes : 1 \in DOMAIN ipc'[k]
  BY DEF IInv, TypeInv, Grows
<1>2. TypeInv'
  BY <1>1 DEF IInv, TypeInv, Outside
<1>3. ObjectRoute'
  BY ObjectsStay DEF IInv, RouteInv, Outside
<1>4. MapInv'
  BY DEF IInv, MapInv, Grows, Outside
<1>5. MultipleApart'
  BY DEF IInv, MultipleApart, Outside
<1>6. SendInv' /\ BodyRoute'
  BY NothingSent DEF Outside
<1> QED BY <1>2, <1>3, <1>4, <1>5, <1>6, Together

\* Client c becomes v, with messages s on a new socket.
LEMMA OpensInv ==
    ASSUME IInv, Untouched, NEW c \in Clients, NEW s \in Seq(Msg), NEW v \in ClientType,
           NEW h, h = Home[c], NEW new, new = Len(ipc[h]) + 1, v.fd = new,
           ipc' = Extend(ipc, h, s), client' = [client EXCEPT ![c] = v],
           \A m, y \in ToSet(s) : m.op \in {"call", "answer"} /\ y.op = "connect"
                                    => Match(m, [node |-> y.node, id |-> y.id]),
           \A y \in ToSet(s) : y.op = "connect"
                                    => c \notin Grouping /\ Match(v, [node |-> y.node, id |-> y.id])
    PROVE  IInv'
<1>1. h \in Nodes /\ deployment' = deployment /\ incomingconnection' = incomingconnection
  BY Deployed DEF IInv, Untouched, maps
<1>2. /\ ipc' \in SockType /\ Grows /\ SocketRoute' /\ new \in DOMAIN ipc'[h]
      /\ \A x \in Targets(h, new)' :
            \E y \in ToSet(s) : y.op = "connect" /\ x = [node |-> y.node, id |-> y.id]
  BY <1>1, OpenFits
<1>3. \A x \in Targets(h, new)' : c \notin Grouping /\ Match(v, x)
  BY <1>2
<1>4. ClientRoute' /\ client' \in [Clients' -> ClientType]
  BY <1>1, <1>2, <1>3, ClientMoves
<1>5. Outside
  BY DEF Outside, Untouched, mpi, maps, counters
<1> QED BY <1>2, <1>4, <1>5, OutsideInv

\* An allocation is asked for over a socket of its own.
LEMMA AllocateInv ==
    ASSUME IInv, NEW c \in Clients, Allocate(c)
    PROVE  IInv'
<1>1. PICK h, new : h = Home[c] /\ new = Len(ipc[h]) + 1
  OBVIOUS
<1>2. PICK m : m = Message("alloc", c, 0, TRUE, deployment[c].node, 0)
  OBVIOUS
<1>3. PICK v : v = [client[c] EXCEPT !.at = "alloc", !.node = deployment[c].node, !.fd = new]
  OBVIOUS
<1>4. h \in Nodes /\ new \in Nat
  BY <1>1, Deployed DEF IInv, TypeInv, SockType
<1>5. m \in Msg /\ m.op = "alloc"
  <2>1. c \in Everyone /\ deployment[c].node \in Nat
    BY Deployed DEF IInv
  <2> QED BY <1>2, <2>1 DEF Msg, Message, Ops
<1>6. v \in ClientType /\ v.fd = new /\ client' = [client EXCEPT ![c] = v]
  <2>1. client[c] \in ClientType /\ deployment[c].node \in Nat
    BY Deployed DEF IInv
  <2>2. v \in ClientType /\ v.fd = new
    BY <1>3, <1>4, <2>1 DEF ClientType
  <2>3. client' = [client EXCEPT ![c] = v]
    BY <1>1, <1>3 DEF Allocate
  <2> QED BY <2>2, <2>3
<1>7. Untouched /\ ipc' = Extend(ipc, h, <<m>>)
  <2>1. Untouched /\ Opens(c, <<m>>)
    BY <1>2 DEF Allocate
  <2> QED BY <1>1, <2>1 DEF Opens, Extend
<1>8. <<m>> \in Seq(Msg)
  BY <1>5
<1>9. ToSet(<<m>>) = {m}
  BY DEF ToSet
<1> QED BY <1>1, <1>5, <1>6, <1>7, <1>8, <1>9, OpensInv

\* So is the allocation of a group.
LEMMA AllocateGroupInv ==
    ASSUME IInv, NEW c \in Clients, AllocateGroup(c)
    PROVE  IInv'
<1>1. PICK h, new : h = Home[c] /\ new = Len(ipc[h]) + 1
  OBVIOUS
<1>2. PICK m : m = Message("group", c, 0, TRUE, 0, 0)
  OBVIOUS
<1>3. PICK v : v = [client[c] EXCEPT !.at = "alloc", !.fd = new]
  OBVIOUS
<1>4. h \in Nodes /\ new \in Nat
  BY <1>1, Deployed DEF IInv, TypeInv, SockType
<1>5. m \in Msg /\ m.op = "group"
  <2>1. c \in Everyone /\ deployment[c].node \in Nat
    BY Deployed DEF IInv
  <2> QED BY <1>2, <2>1 DEF Msg, Message, Ops
<1>6. v \in ClientType /\ v.fd = new /\ client' = [client EXCEPT ![c] = v]
  <2>1. client[c] \in ClientType
    BY Deployed DEF IInv
  <2>2. v \in ClientType /\ v.fd = new
    BY <1>3, <1>4, <2>1 DEF ClientType
  <2>3. client' = [client EXCEPT ![c] = v]
    BY <1>1, <1>3 DEF AllocateGroup
  <2> QED BY <2>2, <2>3
<1>7. Untouched /\ ipc' = Extend(ipc, h, <<m>>)
  <2>1. Untouched /\ Opens(c, <<m>>)
    BY <1>2 DEF AllocateGroup
  <2> QED BY <1>1, <2>1 DEF Opens, Extend
<1>8. <<m>> \in Seq(Msg)
  BY <1>5
<1>9. ToSet(<<m>>) = {m}
  BY DEF ToSet
<1> QED BY <1>1, <1>5, <1>6, <1>7, <1>8, <1>9, OpensInv

\* The node read in an address is a number.
LEMMA DestNodeNat ==
    ASSUME NEW node \in Nat, NEW id \in Nat
    PROVE  DestNode(node, id) \in Nat
  BY DEF DestNode, Digits

\* Bind connects the new socket to the object and asks for its status.
LEMMA BindInv ==
    ASSUME IInv, NEW c \in Clients, NEW o \in objects, Bind(c, o)
    PROVE  IInv'
<1>1. PICK h, new : h = Home[c] /\ new = Len(ipc[h]) + 1
  OBVIOUS
<1>2. PICK y, m : /\ y = Message("connect", c, 0, FALSE, DestNode(o.node, o.id), o.id)
                  /\ m = Message("call", c, 1, TRUE, o.node, o.id)
  OBVIOUS
<1>3. PICK v : v = [at |-> "wait", fd |-> new, node |-> o.node, id |-> o.id, n |-> 1, post |-> FALSE]
  OBVIOUS
<1>4. h \in Nodes /\ new \in Nat
  BY <1>1, Deployed DEF IInv, TypeInv, SockType
<1>5. o.node \in Nodes /\ o.node \in Nat /\ o.id \in Nat
  BY InterconnectorAssumption DEF IInv, TypeInv, Nodes
<1>6. DestNode(o.node, o.id) \in Nat
  BY <1>5, DestNodeNat
<1>7. y \in Msg /\ m \in Msg /\ y.op = "connect" /\ m.op = "call"
  <2>1. c \in Everyone
    BY Deployed DEF IInv
  <2> QED BY <1>2, <1>5, <1>6, <2>1 DEF Msg, Message, Ops
<1>8. v \in ClientType /\ v.fd = new
  BY <1>3, <1>4, <1>5 DEF ClientType
<1>9. /\ Untouched /\ c \notin Grouping /\ Opens(c, <<y, m>>)
      /\ client' = [client EXCEPT ![c] = v]
  BY <1>1, <1>2, <1>3 DEF Bind
<1>10. <<y, m>> \in Seq(Msg)
  BY <1>7
<1>13. ToSet(<<y, m>>) = {y, m}
  BY DEF ToSet
<1>14. ipc' = Extend(ipc, h, <<y, m>>)
  BY <1>1, <1>9 DEF Opens, Extend
<1>11. Match(m, [node |-> y.node, id |-> y.id]) /\ Match(v, [node |-> y.node, id |-> y.id])
  BY <1>2, <1>3, <1>5 DEF Message, Match
<1>12. y.op # "call" /\ y.op # "answer" /\ m.op # "connect"
  BY <1>7
<1> QED BY <1>1, <1>8, <1>9, <1>10, <1>11, <1>12, <1>13, <1>14, OpensInv

\* Client c becomes v, bound as before, with messages s more on its socket.
LEMMA SaysInv ==
    ASSUME IInv, Untouched, NEW c \in Clients, client[c].at # "idle", NEW s \in Seq(Msg), Says(c, s),
           NEW v \in ClientType, client' = [client EXCEPT ![c] = v],
           v.fd = client[c].fd, v.node = client[c].node, v.id = client[c].id,
           \A m \in ToSet(s) :
                /\ m.op # "connect"
                /\ m.op \in {"call", "answer"} =>
                        c \in Grouping \/ (m.node = client[c].node /\ m.id = client[c].id)
    PROVE  IInv'
<1>1. PICK h, f : h = Home[c] /\ f = client[c].fd
  OBVIOUS
<1>2. h \in Nodes /\ deployment' = deployment /\ incomingconnection' = incomingconnection
  BY <1>1, Deployed DEF IInv, Untouched, maps
<1>3. f \in DOMAIN ipc[h] /\ \A x \in Targets(h, f) : c \notin Grouping /\ Match(client[c], x)
  BY <1>1 DEF IInv, RouteInv, ClientRoute
<1>4. ipc' = Replace(ipc, h, f, ipc[h][f] \o s)
  BY <1>1 DEF Says, Replace
<1>5. \A m \in ToSet(s) :
        /\ m.op # "connect"
        /\ m.op \in {"call", "answer"} => \A x \in Targets(h, f) : Match(m, x)
  BY <1>3 DEF Match
<1>6. ipc' \in SockType /\ (\A k \in Nodes : DOMAIN ipc'[k] = DOMAIN ipc[k]) /\ Grows /\ SocketRoute'
  BY <1>2, <1>3, <1>4, <1>5, PushFits
<1>7. \A x \in Targets(h, f)' : c \notin Grouping /\ Match(v, x)
  BY <1>2, <1>3, <1>6 DEF Grows, Match
<1>8. f = v.fd /\ f \in DOMAIN ipc'[h]
  BY <1>1, <1>2, <1>3, <1>6
<1>9. ClientRoute' /\ client' \in [Clients' -> ClientType]
  BY <1>1, <1>2, <1>6, <1>7, <1>8, ClientMoves
<1>10. Outside
  BY DEF Outside, Untouched, mpi, maps, counters
<1> QED BY <1>6, <1>9, <1>10, OutsideInv

\* A call goes over the socket that Bind connected.
LEMMA CallInv ==
    ASSUME IInv, NEW c \in Clients, NEW sync \in BOOLEAN, Call(c, sync)
    PROVE  IInv'
<1>1. client[c] \in ClientType /\ c \in Everyone
  BY Deployed DEF IInv
<1>2. PICK m : m = Message("call", c, client[c].n + 1, sync, client[c].node, client[c].id)
  OBVIOUS
<1>3. m \in Msg /\ m.op = "call" /\ m.node = client[c].node /\ m.id = client[c].id
  BY <1>1, <1>2 DEF Msg, Message, Ops, ClientType
<1>4. PICK v : v = [client[c] EXCEPT !.n = @ + 1, !.at = IF sync THEN "wait" ELSE "bound"]
  OBVIOUS
<1>5. /\ v \in ClientType /\ v.fd = client[c].fd
      /\ v.node = client[c].node /\ v.id = client[c].id
  <2>1. client[c].n + 1 \in Nat
    BY <1>1 DEF ClientType
  <2>2. CASE sync
    BY <1>1, <1>4, <2>1, <2>2 DEF ClientType
  <2>3. CASE ~sync
    BY <1>1, <1>4, <2>1, <2>3 DEF ClientType
  <2> QED BY <2>2, <2>3
<1>6. /\ client[c].at # "idle" /\ Untouched /\ Says(c, <<m>>)
      /\ client' = [client EXCEPT ![c] = v]
  BY <1>2, <1>4 DEF Call
<1>7. <<m>> \in Seq(Msg)
  BY <1>3
<1>8. ToSet(<<m>>) = {m}
  BY DEF ToSet
<1> QED BY <1>3, <1>5, <1>6, <1>7, <1>8, SaysInv

\* A call of a group names its member first, if it has one.
LEMMA GroupCallInv ==
    ASSUME IInv, NEW c \in Clients, NEW target \in 0 .. All, NEW sync \in BOOLEAN, GroupCall(c, target, sync)
    PROVE  IInv'
<1>1. client[c] \in ClientType /\ c \in Everyone /\ target \in Nat
  BY Deployed, InterconnectorAssumption DEF IInv, All
<1>2. PICK m, r : /\ m = Message("call", c, client[c].n + 1, sync, target, 0)
                  /\ r = Message("rank", c, 0, FALSE, target, target)
  OBVIOUS
<1>3. m \in Msg /\ m.op = "call"
  BY <1>1, <1>2 DEF Msg, Message, Ops, ClientType
<1>4. r \in Msg /\ r.op = "rank"
  BY <1>1, <1>2 DEF Msg, Message, Ops, ClientType
<1>5. PICK v : v = [client[c] EXCEPT !.n = @ + 1, !.at = IF sync THEN "wait" ELSE "bound",
                                     !.post = @ \/ ~sync]
  OBVIOUS
<1>6. /\ v \in ClientType /\ v.fd = client[c].fd
      /\ v.node = client[c].node /\ v.id = client[c].id
  <2>1. client[c].n + 1 \in Nat /\ (client[c].post \/ ~sync) \in BOOLEAN
    BY <1>1 DEF ClientType
  <2>2. CASE sync
    BY <1>1, <1>5, <2>1, <2>2 DEF ClientType
  <2>3. CASE ~sync
    BY <1>1, <1>5, <2>1, <2>3 DEF ClientType
  <2> QED BY <2>2, <2>3
<1>7. PICK s : s = IF target = All THEN <<m>> ELSE <<r, m>>
  OBVIOUS
<1>8. s \in Seq(Msg)
  BY <1>3, <1>4, <1>7
<1>9. ToSet(<<m>>) = {m} /\ ToSet(<<r, m>>) = {r, m}
  BY DEF ToSet
<1>10. ToSet(s) \subseteq {r, m}
  BY <1>7, <1>9
<1>11. /\ client[c].at # "idle" /\ Untouched /\ Says(c, s) /\ c \in Grouping
       /\ client' = [client EXCEPT ![c] = v]
  BY <1>2, <1>5, <1>7 DEF GroupCall
<1> QED BY <1>3, <1>4, <1>6, <1>8, <1>10, <1>11, SaysInv

\* finalize is one more message to the group.
LEMMA FinalizeInv ==
    ASSUME IInv, NEW c \in Clients, Finalize(c)
    PROVE  IInv'
<1>1. client[c] \in ClientType /\ c \in Everyone /\ All \in Nat
  BY Deployed, InterconnectorAssumption DEF IInv, All
<1>2. PICK m : m = Message("final", c, client[c].n + 1, TRUE, All, 0)
  OBVIOUS
<1>3. m \in Msg /\ m.op = "final"
  BY <1>1, <1>2 DEF Msg, Message, Ops, ClientType
<1>4. PICK v : v = [client[c] EXCEPT !.n = @ + 1, !.at = "final"]
  OBVIOUS
<1>5. /\ v \in ClientType /\ v.fd = client[c].fd
      /\ v.node = client[c].node /\ v.id = client[c].id
  <2>1. client[c].n + 1 \in Nat
    BY <1>1 DEF ClientType
  <2> QED BY <1>1, <1>4, <2>1 DEF ClientType
<1>6. /\ client[c].at # "idle" /\ Untouched /\ Says(c, <<m>>)
      /\ client' = [client EXCEPT ![c] = v]
  BY <1>2, <1>4 DEF Finalize
<1>7. <<m>> \in Seq(Msg)
  BY <1>3
<1>8. ToSet(<<m>>) = {m}
  BY DEF ToSet
<1> QED BY <1>3, <1>5, <1>6, <1>7, <1>8, SaysInv

\* A client that reads stays bound to what it was bound to.
LEMMA ReadInv ==
    ASSUME IInv, NEW c \in Clients, Read(c)
    PROVE  IInv'
<1>1. client[c] \in ClientType /\ Home[c] \in Nodes
  BY Deployed DEF IInv
<1>2. PICK v : v = [client[c] EXCEPT !.at =
                    CASE client[c].at = "wait" -> "bound"
                      [] client[c].at = "final" -> "finished"
                      [] client[c].at = "alloc" -> IF c \in Grouping THEN "bound" ELSE "ready"]
  OBVIOUS
<1>3. /\ client[c].at \in {"alloc", "wait", "final"} /\ client' = [client EXCEPT ![c] = v]
      /\ Outside /\ ipc' = ipc /\ incomingconnection' = incomingconnection /\ deployment' = deployment
  BY <1>2 DEF Read, Outside, mpi, local, maps, counters
<1>4. /\ v \in ClientType /\ v.fd = client[c].fd
      /\ v.node = client[c].node /\ v.id = client[c].id
  BY <1>1, <1>2, <1>3 DEF ClientType
<1>5. Grows /\ SocketRoute'
  BY <1>3, SocketsStay DEF IInv, RouteInv
<1>6. PICK h, f : h = Home[c] /\ f = v.fd
  OBVIOUS
<1>7. f \in DOMAIN ipc[h] /\ \A x \in Targets(h, f) : c \notin Grouping /\ Match(client[c], x)
  BY <1>3, <1>4, <1>6 DEF IInv, RouteInv, ClientRoute
<1>8. f \in DOMAIN ipc'[h] /\ \A x \in Targets(h, f)' : c \notin Grouping /\ Match(v, x)
  BY <1>1, <1>3, <1>4, <1>5, <1>6, <1>7 DEF Grows, Match
<1>9. ClientRoute' /\ client' \in [Clients' -> ClientType]
  BY <1>3, <1>4, <1>5, <1>6, <1>8, ClientMoves
<1>10. ipc' \in SockType
  BY <1>3 DEF IInv, TypeInv
<1> QED BY <1>3, <1>5, <1>9, <1>10, OutsideInv

\* The program's end is announced over a socket of its own.
LEMMA ProgramTerminatesInv ==
    ASSUME IInv, ProgramTerminates
    PROVE  IInv'
<1>1. PICK m : m = Wake("terminate", 0, 0)
  OBVIOUS
<1>2. m \in Msg /\ m.op = "terminate"
  BY <1>1 DEF Wake, Message, Msg, Ops
<1>3. 0 \in Nodes
  BY InterconnectorAssumption DEF Nodes
<1>4. /\ ipc' = Extend(ipc, 0, <<m>>) /\ Outside
      /\ incomingconnection' = incomingconnection /\ UNCHANGED <<deployment, client>>
  BY <1>1 DEF ProgramTerminates, Outside, Extend, mpi, maps, counters
<1>5. <<m>> \in Seq(Msg)
  BY <1>2
<1>6. ToSet(<<m>>) = {m}
  BY DEF ToSet
<1>7. ipc' \in SockType /\ Grows /\ SocketRoute'
  BY <1>2, <1>3, <1>4, <1>5, <1>6, OpenFits
<1>8. ClientRoute'
  BY <1>4, <1>7, ClientsStay DEF IInv, RouteInv
<1>9. client' \in [Clients' -> ClientType]
  BY <1>4 DEF IInv, TypeInv, Clients
<1> QED BY <1>4, <1>7, <1>8, <1>9, OutsideInv

-----------------------------------------------------------------------------
(* The objects and the members of groups. *)

\* An answer is put on the connection to the object.
LEMMA ObjectServesInv ==
    ASSUME IInv, ObjectServes
    PROVE  IInv'
<1>1. PICK r \in serving :
        /\ serving' = serving \ {r}
        /\ ipc' = IF r.m.sync
                  THEN [ipc EXCEPT ![r.node][r.fd] = Append(@, [r.m EXCEPT !.op = "answer"])] ELSE ipc
        /\ Outside /\ incomingconnection' = incomingconnection /\ UNCHANGED <<deployment, client>>
  BY DEF ObjectServes, Outside, mpi, maps, counters
<1>2. r.node \in Nodes /\ r.fd \in DOMAIN ipc[r.node] /\ Targets(r.node, r.fd) = {} /\ r.m \in Msg
  BY DEF IInv, RouteInv, ObjectRoute
<1>3. ipc' \in SockType /\ Grows /\ SocketRoute'
  <2>1. CASE ~r.m.sync
    <3>1. ipc' = ipc
      BY <1>1, <2>1
    <3> QED BY <1>1, <3>1, SocketsStay DEF IInv, TypeInv, RouteInv
  <2>2. CASE r.m.sync
    <3>1. PICK a : a = [r.m EXCEPT !.op = "answer"]
      OBVIOUS
    <3>2. a \in Msg /\ a.op = "answer"
      BY <1>2, <3>1 DEF Msg, Ops
    <3>3. ipc' = [ipc EXCEPT ![r.node][r.fd] = Append(@, a)]
      BY <1>1, <2>2, <3>1
    <3> QED BY <1>1, <1>2, <3>2, <3>3, PushOne
  <2> QED BY <2>1, <2>2
<1>4. ClientRoute'
  BY <1>1, <1>3, ClientsStay DEF IInv, RouteInv
<1>5. client' \in [Clients' -> ClientType]
  BY <1>1 DEF IInv, TypeInv, Clients
<1> QED BY <1>1, <1>3, <1>4, <1>5, OutsideInv

\* What only the clients' answers and the groups are about.
LEMMA AsideInv ==
    ASSUME IInv, UNCHANGED <<deployment, multiple, main, cmd, body, ipc, incomingconnection, outgoingconnection,
                    connectionmap, next_tag, next_object_id, allocation_id, objects, serving, client, overlap>>
    PROVE  IInv'
<1>1. Grows /\ SocketRoute'
  BY SocketsStay DEF IInv, RouteInv
<1>2. ClientRoute'
  BY <1>1, ClientsStay DEF IInv, RouteInv
<1>3. Outside
  BY DEF Outside
<1>4. ipc' \in SockType /\ client' \in [Clients' -> ClientType]
  BY DEF IInv, TypeInv, Clients
<1> QED BY <1>1, <1>2, <1>3, <1>4, OutsideInv

-----------------------------------------------------------------------------
(* The interconnectors. *)

\* A step of an interconnector that leaves the maps, the clients and the
\* objects' requests alone.
LEMMA InsideInv ==
    ASSUME IInv, TypeInv', Grows, SocketRoute', SendInv', BodyRoute', serving' = serving,
           UNCHANGED <<deployment, multiple, incomingconnection, outgoingconnection, connectionmap, client, overlap>>
    PROVE  IInv'
  BY RoutesKept, Together

\* Commands are commands.
LEMMA CommandType ==
    ASSUME IInv, NEW s \in Nodes, NEW d, NEW what \in Commands, NEW tag \in Nat
    PROVE  Command(s, d, what, tag) \in CmdType
<1>1. cmd \in CmdType
  BY DEF IInv, TypeInv
<1>2. PICK e : e = [what |-> what, tag |-> tag]
  OBVIOUS
<1>3. e \in [what : Commands, tag : Nat]
  BY <1>2
<1>4. Command(s, d, what, tag) = [cmd EXCEPT ![s] = [cmd[s] EXCEPT ![d] = Append(@, e)]]
  BY <1>1, <1>2 DEF Command, CmdType
<1>5. cmd[s] \in [Nodes -> Seq([what : Commands, tag : Nat])]
  BY <1>1 DEF CmdType
<1>6. [cmd[s] EXCEPT ![d] = Append(@, e)] \in [Nodes -> Seq([what : Commands, tag : Nat])]
  <2>1. CASE d \in Nodes
    <3>1. Append(cmd[s][d], e) \in Seq([what : Commands, tag : Nat])
      <4>1. cmd[s][d] \in Seq([what : Commands, tag : Nat])
        BY <1>5, <2>1
      <4> QED BY <1>3, <4>1, AppendSet
    <3> QED BY <1>5, <3>1
  <2>2. CASE d \notin Nodes
    BY <1>5, <2>2
  <2> QED BY <2>1, <2>2
<1> QED BY <1>1, <1>4, <1>6 DEF CmdType

\* A main thread at rest.
LEMMA IdleType == Idle \in MainType
  BY DEF Idle, MainType

\* The new process calls back; the main thread answers or sends the address.
LEMMA ObjectCallsBackInv ==
    ASSUME IInv, NEW n \in Nodes, NEW outcome, ObjectCallsBack(n, outcome)
    PROVE  IInv'
<1> DEFINE o == [node |-> n, id |-> main[n].id, up |-> outcome = "up"]
           address == Message("address", None, 0, FALSE, n, main[n].id)
<1>1. main[n] \in MainType /\ main[n].at = "exec" /\ n \in Nat
  BY InterconnectorAssumption DEF IInv, TypeInv, ObjectCallsBack, Nodes
<1>2. /\ UNCHANGED <<deployment, multiple, ipc, incomingconnection, outgoingconnection, connectionmap, next_tag,
                     next_object_id, allocation_id, client, serving, overlap>>
      /\ objects' \subseteq objects \cup {o}
  BY DEF ObjectCallsBack, local, maps, counters
<1>3. Grows /\ SocketRoute'
  BY <1>2, SocketsStay DEF IInv, RouteInv
<1>4. o.node \in Nodes /\ o.id \in Nat
  BY <1>1 DEF MainType
<1>5. address \in Msg
  BY <1>1 DEF Message, Msg, Ops, MainType
<1>6. /\ main' \in [Nodes -> MainType] /\ cmd' \in CmdType /\ body' \subseteq BodyType
      /\ SendInv' /\ BodyRoute'
  <2>1. CASE outcome = "silent"
    <3>1. main' = [main EXCEPT ![n].at = "stuck"] /\ UNCHANGED <<cmd, body>>
      BY <2>1 DEF ObjectCallsBack, mpi
    <3>2. main' \in [Nodes -> MainType]
      BY <3>1 DEF IInv, TypeInv, MainType
    <3>3. \A b \in body : b.kind # "alloc" => b.src # n /\ b.src \in Nodes
      BY <1>1 DEF IInv, SendInv, TypeInv, BodyType
    <3>4. \A b \in body : b.kind # "alloc" => main'[b.src].at = main[b.src].at
      BY <3>1, <3>3 DEF IInv, TypeInv
    <3> QED BY <3>1, <3>2, <3>4, NothingSent DEF IInv, TypeInv
  <2>2. CASE outcome # "silent" /\ main[n].src = None
    <3>1. main' = [main EXCEPT ![n] = Idle] /\ UNCHANGED <<cmd, body>>
      BY <2>2 DEF ObjectCallsBack, mpi
    <3>2. main' \in [Nodes -> MainType]
      BY <3>1, IdleType DEF IInv, TypeInv
    <3>3. \A b \in body : b.kind # "alloc" => b.src # n /\ b.src \in Nodes
      BY <1>1 DEF IInv, SendInv, TypeInv, BodyType
    <3>4. \A b \in body : b.kind # "alloc" => main'[b.src].at = main[b.src].at
      BY <3>1, <3>3 DEF IInv, TypeInv
    <3> QED BY <3>1, <3>2, <3>4, NothingSent DEF IInv, TypeInv
  <2>3. CASE outcome # "silent" /\ main[n].src # None
    <3>1. PICK b : b = Body("address", n, main[n].src, main[n].fd, 0, address)
      OBVIOUS
    <3>2. /\ cmd' = Command(n, main[n].src, "allocated", main[n].fd)
          /\ body' = body \cup {b} /\ main' = [main EXCEPT ![n].at = "sent"]
      BY <2>3, <3>1 DEF ObjectCallsBack
    <3> HIDE DEF address
    <3>3. main[n].src \in Nat /\ main[n].fd \in Nat
      BY <1>1, <2>3, InterconnectorAssumption DEF MainType, Nodes
    <3>4. b \in BodyType /\ b.kind = "address" /\ b.src = n
      BY <1>5, <3>1, <3>3 DEF Body, BodyType
    <3>5. cmd' \in CmdType
      BY <3>2, <3>3, CommandType DEF Commands
    <3>6. SendInv' /\ BodyRoute'
      BY <1>1, <3>2, <3>4, OneSent
    <3>7. main' \in [Nodes -> MainType]
      BY <3>2 DEF IInv, TypeInv, MainType
    <3> QED BY <3>2, <3>4, <3>5, <3>6, <3>7 DEF IInv, TypeInv
  <2> QED BY <2>1, <2>2, <2>3
<1> HIDE DEF o
<1>7. TypeInv'
  BY <1>2, <1>4, <1>6 DEF IInv, TypeInv, Clients
<1> QED BY <1>2, <1>3, <1>6, <1>7, InsideInv

\* The receiving thread wakes the main thread over socket 1.
LEMMA ReceiveCommandInv ==
    ASSUME IInv, NEW n \in Nodes, NEW s \in Nodes, ReceiveCommand(n, s)
    PROVE  IInv'
<1>1. /\ cmd[s][n] # <<>> /\ cmd' = [cmd EXCEPT ![s][n] = Tail(@)]
      /\ UNCHANGED <<deployment, multiple, main, body, incomingconnection, outgoingconnection, connectionmap, next_tag,
                     next_object_id, allocation_id, objects, client, serving, overlap>>
  BY DEF ReceiveCommand, maps, counters
<1>2. cmd \in CmdType /\ cmd[s][n] \in Seq([what : Commands, tag : Nat])
  BY DEF IInv, TypeInv, CmdType
<1>3. /\ Tail(cmd[s][n]) \in Seq([what : Commands, tag : Nat])
      /\ Head(cmd[s][n]) \in [what : Commands, tag : Nat]
  BY <1>1, <1>2, TailSet
<1>4. cmd' \in CmdType
  BY <1>1, <1>2, <1>3 DEF CmdType
<1>5. s \in Nat /\ Head(cmd[s][n]).tag \in Nat
  BY <1>3, InterconnectorAssumption DEF Nodes
<1>6. \/ ipc' = ipc
      \/ \E w \in Msg : w.op \in {"terminate", "allocation", "request"} /\ WakeMain(n, w)
  <2>1. \A op \in {"terminate", "allocation", "request"} : \A k, t \in Nat :
            Wake(op, k, t) \in Msg /\ Wake(op, k, t).op = op
    BY DEF Wake, Message, Msg, Ops
  <2>2. \/ ipc' = ipc
        \/ WakeMain(n, Wake("terminate", 0, 0)) \/ WakeMain(n, Wake("allocation", 0, 0))
        \/ WakeMain(n, Wake("request", s, Head(cmd[s][n]).tag))
    BY DEF ReceiveCommand
  <2> QED BY <1>5, <2>1, <2>2
<1>7. ipc' \in SockType /\ (\A k \in Nodes : DOMAIN ipc'[k] = DOMAIN ipc[k]) /\ Grows /\ SocketRoute'
  <2>1. CASE ipc' = ipc
    BY <1>1, <2>1, SocketsStay DEF IInv, TypeInv, RouteInv
  <2>2. CASE ipc' # ipc
    <3>1. PICK w \in Msg : w.op \in {"terminate", "allocation", "request"} /\ WakeMain(n, w)
      BY <1>6, <2>2
    <3>2. ipc' = [ipc EXCEPT ![n][1] = Append(@, w)] /\ 1 \in DOMAIN ipc[n]
      BY <3>1 DEF WakeMain, IInv, TypeInv
    <3> QED BY <1>1, <3>1, <3>2, PushOne
  <2> QED BY <2>1, <2>2
<1>8. TypeInv'
  BY <1>1, <1>4, <1>7 DEF IInv, TypeInv, Clients
<1>9. SendInv' /\ BodyRoute'
  BY <1>1, NothingSent
<1> QED BY <1>1, <1>7, <1>8, <1>9, InsideInv

\* The receiving thread takes an answer or an address and passes it on.
LEMMA ReceiveAnswerInv ==
    ASSUME IInv, NEW n \in Nodes, NEW s \in Nodes, ReceiveResponse(n, s) \/ ReceiveAllocated(n, s)
    PROVE  IInv'
<1>1. /\ cmd[s][n] # <<>> /\ cmd' = [cmd EXCEPT ![s][n] = Tail(@)] /\ body' \subseteq body
      /\ main' = main \/ main' = [main EXCEPT ![n].at = "dead"]
      /\ UNCHANGED <<deployment, multiple, ipc, incomingconnection, outgoingconnection, connectionmap, next_tag,
                     next_object_id, allocation_id, objects, client, serving, overlap>>
  BY DEF ReceiveResponse, ReceiveAllocated, local, maps, counters
<1>2. cmd \in CmdType /\ cmd[s][n] \in Seq([what : Commands, tag : Nat])
  BY DEF IInv, TypeInv, CmdType
<1>3. Tail(cmd[s][n]) \in Seq([what : Commands, tag : Nat])
  BY <1>1, <1>2, TailSet
<1>4. cmd' \in CmdType
  BY <1>1, <1>2, <1>3 DEF CmdType
<1>5. main' \in [Nodes -> MainType] /\ \A k \in Nodes : main'[k].at \in {main[k].at, "dead"}
  <2>1. CASE main' = main
    BY <2>1 DEF IInv, TypeInv
  <2>2. CASE main' = [main EXCEPT ![n].at = "dead"]
    <3>1. main' \in [Nodes -> MainType]
      BY <2>2 DEF IInv, TypeInv, MainType
    <3>2. \A k \in Nodes : main'[k].at \in {main[k].at, "dead"}
      BY <2>2 DEF IInv, TypeInv, MainType
    <3> QED BY <3>1, <3>2
  <2> QED BY <1>1, <2>1, <2>2
<1>6. \A b \in body : b.src \in Nodes
  BY DEF IInv, TypeInv, BodyType
<1>7. SendInv' /\ BodyRoute'
  BY <1>1, <1>5, <1>6, NothingSent
<1>8. TypeInv'
  BY <1>1, <1>4, <1>5 DEF IInv, TypeInv, Clients
<1>9. Grows /\ SocketRoute'
  BY <1>1, SocketsStay DEF IInv, RouteInv
<1> QED BY <1>1, <1>7, <1>8, <1>9, InsideInv

\* The main thread finishes what it was doing.
LEMMA MainTurnsInv ==
    ASSUME IInv, NEW n \in Nodes, JoinThread(n) \/ SaveReturn(n) \/ SendCompletes(n)
    PROVE  IInv'
<1>1. /\ UNCHANGED <<deployment, multiple, cmd, body, ipc, incomingconnection, outgoingconnection, connectionmap,
                     next_tag, next_object_id, objects, client, serving, overlap>>
      /\ main[n].at \in {"ended", "save", "sent"}
      /\ main[n].at = "sent" => ~\E b \in body : b.src = n /\ b.kind # "alloc"
  BY DEF JoinThread, SaveReturn, SendCompletes, mpi, local, maps, counters
<1>2. main' = [main EXCEPT ![n].at = "exited"] \/ main' = [main EXCEPT ![n] = Idle]
  BY DEF JoinThread, SaveReturn, SendCompletes
<1>3. main' \in [Nodes -> MainType] /\ \A k \in Nodes : k # n => main'[k] = main[k]
  <2>1. CASE main' = [main EXCEPT ![n].at = "exited"]
    BY <2>1 DEF IInv, TypeInv, MainType
  <2>2. CASE main' = [main EXCEPT ![n] = Idle]
    BY <2>2, IdleType DEF IInv, TypeInv
  <2> QED BY <1>2, <2>1, <2>2
<1>4. allocation_id' \in [Nodes -> Nat]
  <2>1. allocation_id' = allocation_id \/ allocation_id' = [allocation_id EXCEPT ![n] = @ + 1]
    BY DEF JoinThread, SaveReturn, SendCompletes, counters
  <2> QED BY <2>1 DEF IInv, TypeInv
<1>5. \A b \in body : b.kind # "alloc" => b.src # n /\ b.src \in Nodes
  BY <1>1 DEF IInv, SendInv, TypeInv, BodyType
<1>6. SendInv' /\ BodyRoute'
  BY <1>1, <1>3, <1>5, NothingSent
<1>7. TypeInv'
  BY <1>1, <1>3, <1>4 DEF IInv, TypeInv, Clients
<1>8. Grows /\ SocketRoute'
  BY <1>1, SocketsStay DEF IInv, RouteInv
<1> QED BY <1>1, <1>6, <1>7, <1>8, InsideInv

-----------------------------------------------------------------------------
(* The messages the main thread takes. *)

\* It takes a message and sends nothing, besides the request for an allocation.
LEMMA TakesInv ==
    ASSUME IInv, NEW n \in Nodes, NEW fd, NEW ops, Takes(n, fd, ops), ipc' = Taken(n, fd),
           main' \in [Nodes -> MainType], \A k \in Nodes : k # n => main'[k] = main[k],
           cmd' \in CmdType, next_object_id' \in [Nodes -> Nat], body' \subseteq BodyType,
           \A b \in body' : b \in body \/ b.kind = "alloc",
           UNCHANGED <<deployment, multiple, incomingconnection, outgoingconnection, connectionmap, next_tag,
                       allocation_id, objects, client, serving, overlap>>
    PROVE  IInv'
<1>1. ipc' \in SockType /\ (\A k \in Nodes : DOMAIN ipc'[k] = DOMAIN ipc[k]) /\ Grows /\ SocketRoute'
  BY TakeFits
<1>2. TypeInv'
  BY <1>1 DEF IInv, TypeInv, Clients
<1>3. main[n].at = "poll"
  BY DEF Takes
<1>4. \A b \in body : b.kind # "alloc" => b.src # n /\ b.src \in Nodes
  BY <1>3 DEF IInv, SendInv, TypeInv, BodyType
<1>5. SendInv' /\ BodyRoute'
  BY <1>4, NothingSent
<1> QED BY <1>1, <1>2, <1>5, InsideInv

\* Rank 0 tells all nodes about the end.
LEMMA TerminateInv ==
    ASSUME IInv, NEW n \in Nodes, NEW fd, Terminate(n, fd)
    PROVE  IInv'
<1>1. /\ Takes(n, fd, {"terminate"}) /\ ipc' = Taken(n, fd) /\ main' = [main EXCEPT ![n].at = "ended"]
      /\ UNCHANGED <<deployment, multiple, body, incomingconnection, outgoingconnection, connectionmap, next_tag,
                     next_object_id, allocation_id, objects, client, serving, overlap>>
  BY DEF Terminate, maps, counters
<1>2. PICK e : e = [what |-> "terminate", tag |-> 0]
  OBVIOUS
<1>3. e \in [what : Commands, tag : Nat] /\ cmd \in CmdType /\ 0 \in Nodes
  BY <1>2, InterconnectorAssumption DEF Commands, IInv, TypeInv, Nodes
<1>4. cmd' \in CmdType
  <2>1. CASE n # 0
    BY <1>3, <2>1 DEF Terminate
  <2>2. CASE n = 0
    <3>1. cmd' = [cmd EXCEPT ![0] = [d \in Nodes |-> Append(cmd[0][d], e)]]
      BY <1>2, <2>2 DEF Terminate
    <3>2. \A d \in Nodes : cmd[0][d] \in Seq([what : Commands, tag : Nat])
      BY <1>3 DEF CmdType
    <3>3. \A d \in Nodes : Append(cmd[0][d], e) \in Seq([what : Commands, tag : Nat])
      BY <1>3, <3>2, AppendSet
    <3> QED BY <1>3, <3>1, <3>3 DEF CmdType
  <2> QED BY <2>1, <2>2
<1>5. main' \in [Nodes -> MainType] /\ \A k \in Nodes : k # n => main'[k] = main[k]
  BY <1>1 DEF IInv, TypeInv, MainType
<1>6. body' \subseteq BodyType /\ next_object_id' \in [Nodes -> Nat]
  BY <1>1 DEF IInv, TypeInv
<1> QED BY <1>1, <1>4, <1>5, <1>6, TakesInv

\* What the main thread does for a group stays within its node.
LEMMA GroupInv ==
    ASSUME IInv, NEW n \in Nodes, NEW fd, SpawnGroup(n, fd) \/ SetRank(n, fd) \/ ForwardToGroup(n, fd)
    PROVE  IInv'
<1>1. /\ ipc' = Taken(n, fd) /\ \E ops : Takes(n, fd, ops)
      /\ UNCHANGED <<deployment, multiple, main, cmd, body, incomingconnection, outgoingconnection, connectionmap, next_tag,
                     next_object_id, allocation_id, objects, client, serving, overlap>>
  BY DEF SpawnGroup, SetRank, ForwardToGroup, mpi, maps, counters
<1>2. /\ main' \in [Nodes -> MainType] /\ cmd' \in CmdType /\ body' \subseteq BodyType
      /\ next_object_id' \in [Nodes -> Nat]
  BY <1>1 DEF IInv, TypeInv
<1> QED BY <1>1, <1>2, TakesInv

\* The main thread forks for a client or for another node.
LEMMA ForkInv ==
    ASSUME IInv, NEW n \in Nodes, NEW fd, AllocateHere(n, fd) \/ AllocationFromMpi(n, fd)
    PROVE  IInv'
<1>1. /\ ipc' = Taken(n, fd) /\ \E ops : Takes(n, fd, ops)
      /\ body' \subseteq body
      /\ UNCHANGED <<deployment, multiple, cmd, incomingconnection, outgoingconnection, connectionmap, next_tag,
                     allocation_id, objects, client, serving, overlap>>
  BY DEF AllocateHere, AllocationFromMpi, mpi, maps
<1>2. \E f \in Nat, src \in Nodes \cup {None} : Fork(n, f, src)
  <2>1. CASE AllocateHere(n, fd)
    <3>1. fd \in Nat
      BY <2>1, TakenHead DEF AllocateHere
    <3> QED BY <2>1, <3>1 DEF AllocateHere
  <2>2. CASE AllocationFromMpi(n, fd)
    <3>1. PICK b \in body : Fork(n, b.id, b.src)
      BY <2>2 DEF AllocationFromMpi
    <3>2. b.id \in Nat /\ b.src \in Nodes
      BY DEF IInv, TypeInv, BodyType
    <3> QED BY <3>1, <3>2
  <2> QED BY <2>1, <2>2
<1>3. PICK f \in Nat, src \in Nodes \cup {None} : Fork(n, f, src)
  BY <1>2
<1>4. next_object_id \in [Nodes -> Nat] /\ main \in [Nodes -> MainType]
  BY DEF IInv, TypeInv
<1>5. PICK v : v = [at |-> "exec", fd |-> f, src |-> src, id |-> next_object_id[n]]
  OBVIOUS
<1>6. v \in MainType
  BY <1>4, <1>5 DEF MainType
<1>7. main' = [main EXCEPT ![n] = v] /\ next_object_id' = [next_object_id EXCEPT ![n] = @ + 1]
  BY <1>3, <1>5 DEF Fork
<1>8. main' \in [Nodes -> MainType] /\ \A k \in Nodes : k # n => main'[k] = main[k]
  BY <1>4, <1>6, <1>7
<1>9. next_object_id' \in [Nodes -> Nat]
  BY <1>4, <1>7
<1>10. body' \subseteq BodyType /\ cmd' \in CmdType
  BY <1>1 DEF IInv, TypeInv
<1> QED BY <1>1, <1>8, <1>9, <1>10, TakesInv

\* The main thread asks another node for an object, and does not wait.
LEMMA AllocateThereInv ==
    ASSUME IInv, NEW n \in Nodes, NEW fd, AllocateThere(n, fd)
    PROVE  IInv'
<1>1. PICK m, b : /\ m = Head(ipc[n][fd])
                  /\ b = Body("alloc", n, m.node, 17, allocation_id[n], m)
  OBVIOUS
<1>2. PICK v : v = [Idle EXCEPT !.at = "save", !.fd = fd]
  OBVIOUS
<1>3. /\ Takes(n, fd, {"alloc"}) /\ ipc' = Taken(n, fd) /\ body' = body \cup {b}
      /\ main' = [main EXCEPT ![n] = v]
      /\ UNCHANGED <<deployment, multiple, incomingconnection, outgoingconnection, connectionmap, next_tag,
                     next_object_id, allocation_id, objects, client, serving, overlap>>
  BY <1>1, <1>2 DEF AllocateThere, maps, counters
<1>4. m \in Msg /\ fd \in Nat /\ m.node \in Nodes /\ m.node # n
  <2>1. m \in Msg /\ fd \in Nat
    BY <1>1, <1>3, TakenHead
  <2>2. m.node \in Nat
    BY <2>1 DEF Msg
  <2>3. m.node # n /\ m.node < World
    BY <1>1 DEF AllocateThere
  <2> QED BY <2>1, <2>2, <2>3, InterconnectorAssumption DEF Nodes
<1>5. b \in BodyType /\ b.kind = "alloc"
  <2>1. allocation_id[n] \in Nat /\ m.node \in Nat
    BY <1>4 DEF IInv, TypeInv, Msg
  <2> QED BY <1>1, <1>4, <2>1 DEF Body, BodyType
<1>6. v \in MainType
  BY <1>2, <1>4, IdleType DEF MainType
<1>7. main' \in [Nodes -> MainType] /\ \A k \in Nodes : k # n => main'[k] = main[k]
  BY <1>3, <1>6 DEF IInv, TypeInv
<1>8. cmd' \in CmdType
  <2>1. PICK d, x, y : d = m.node /\ x = [what |-> "wait", tag |-> 0] /\ y = [what |-> "allocate", tag |-> 0]
    OBVIOUS
  <2>2. cmd' = [cmd EXCEPT ![n][n] = Append(@, x), ![n][d] = Append(@, y)]
    BY <1>1, <2>1 DEF AllocateThere
  <2>3. x \in [what : Commands, tag : Nat] /\ y \in [what : Commands, tag : Nat]
    BY <2>1 DEF Commands
  <2>4. cmd \in CmdType /\ d \in Nodes /\ d # n
    BY <1>4, <2>1 DEF IInv, TypeInv
  <2>5. cmd[n][n] \in Seq([what : Commands, tag : Nat]) /\ cmd[n][d] \in Seq([what : Commands, tag : Nat])
    BY <2>4 DEF CmdType
  <2>6. /\ Append(cmd[n][n], x) \in Seq([what : Commands, tag : Nat])
        /\ Append(cmd[n][d], y) \in Seq([what : Commands, tag : Nat])
    BY <2>3, <2>5, AppendSet
  <2>7. cmd' = [cmd EXCEPT ![n] = [cmd[n] EXCEPT ![n] = Append(cmd[n][n], x), ![d] = Append(cmd[n][d], y)]]
    BY <2>2, <2>4 DEF CmdType
  <2> QED BY <2>4, <2>6, <2>7 DEF CmdType
<1>9. body' \subseteq BodyType /\ next_object_id' \in [Nodes -> Nat]
  BY <1>3, <1>5 DEF IInv, TypeInv
<1>10. \A a \in body' : a \in body \/ a.kind = "alloc"
  BY <1>3, <1>5
<1> QED BY <1>3, <1>7, <1>8, <1>9, <1>10, TakesInv

\* 200002 connects the socket to what the message said it would be.
LEMMA ConnectionInv ==
    ASSUME IInv, NEW n \in Nodes, NEW fd, Connection(n, fd)
    PROVE  IInv'
<1>1. PICK m, t, x : m = Head(ipc[n][fd]) /\ t = Tail(ipc[n][fd]) /\ x = [node |-> m.node, id |-> m.id]
  OBVIOUS
<1>2. /\ Takes(n, fd, {"connect"}) /\ ipc' = Taken(n, fd)
      /\ incomingconnection' = [incomingconnection EXCEPT ![n] = IF fd \in DOMAIN @ THEN @ ELSE Put(@, fd, x)]
      /\ UNCHANGED <<deployment, multiple, main, cmd, body, outgoingconnection, connectionmap, next_tag,
                     next_object_id, allocation_id, objects, client, serving, overlap>>
  BY <1>1 DEF Connection, mpi, counters
<1>3. fd \in DOMAIN ipc[n] /\ m \in Msg /\ m \in ToSet(ipc[n][fd]) /\ m.op = "connect"
  BY <1>1, <1>2, TakenHead
<1>4. ipc \in SockType /\ ipc[n][fd] \in Seq(Msg) /\ ipc[n][fd] # <<>>
  BY <1>2, <1>3 DEF IInv, TypeInv, SockType, Takes
<1>5. t \in Seq(Msg) /\ ToSet(t) \subseteq ToSet(ipc[n][fd]) /\ ipc' = Replace(ipc, n, fd, t)
  BY <1>1, <1>2, <1>4, TailSet DEF Taken, Replace
<1>6. ipc' \in SockType /\ ipc'[n][fd] = t
  BY <1>3, <1>4, <1>5, Replaced
<1>7. \A k \in Nodes : DOMAIN ipc'[k] = DOMAIN ipc[k]
  BY <1>3, <1>4, <1>5, Replaced
<1>8. \A k \in Nodes : \A f \in DOMAIN ipc[k] : k # n \/ f # fd => ipc'[k][f] = ipc[k][f]
  BY <1>3, <1>4, <1>5, Replaced
<1>9. \A k \in Nodes : \A f \in DOMAIN ipc[k] : ToSet(ipc'[k][f]) \subseteq ToSet(ipc[k][f])
  BY <1>5, <1>6, <1>8
<1>10. x \in Targets(n, fd) /\ x \in [node : Nat, id : Nat]
  BY <1>1, <1>3 DEF Targets, Msg
<1>11. \A k \in Nodes : \A f \in DOMAIN incomingconnection'[k] :
        \/ f \in DOMAIN incomingconnection[k] /\ incomingconnection'[k][f] = incomingconnection[k][f]
        \/ k = n /\ f = fd /\ incomingconnection'[k][f] = x
  <2>1. CASE fd \in DOMAIN incomingconnection[n]
    BY <1>2, <2>1 DEF IInv, MapInv
  <2>2. CASE fd \notin DOMAIN incomingconnection[n]
    <3>1. incomingconnection' = [incomingconnection EXCEPT ![n] = Put(incomingconnection[n], fd, x)]
      BY <1>2, <2>2
    <3> QED BY <3>1 DEF IInv, MapInv, Put
  <2> QED BY <2>1, <2>2
<1>12. ASSUME NEW k \in Nodes, NEW f \in DOMAIN ipc[k] PROVE Targets(k, f)' \subseteq Targets(k, f)
  BY <1>9, <1>10, <1>11 DEF Targets
<1>13. Grows
  BY <1>7, <1>12 DEF Grows
<1>14. SocketRoute'
  <2>1. ASSUME NEW k \in Nodes, NEW f \in DOMAIN ipc'[k], NEW y \in Calls(k, f)', NEW z \in Targets(k, f)'
        PROVE  Match(y, z)
    <3>1. f \in DOMAIN ipc[k] /\ y \in Calls(k, f) /\ z \in Targets(k, f)
      BY <1>7, <1>9, <1>12 DEF Calls
    <3> QED BY <3>1 DEF IInv, RouteInv, SocketRoute
  <2> QED BY <2>1 DEF SocketRoute, Match
<1>15. TypeInv'
  BY <1>2, <1>6, <1>7 DEF IInv, TypeInv, Clients
<1>16. MapInv'
  <2>1. incomingconnection' = [k \in Nodes |-> incomingconnection'[k]]
    BY <1>2 DEF IInv, MapInv
  <2>2. ASSUME NEW k \in Nodes, NEW f \in DOMAIN incomingconnection'[k]
        PROVE  f \in DOMAIN ipc'[k] /\ incomingconnection'[k][f] \in [node : Nat, id : Nat]
    BY <1>3, <1>7, <1>10, <1>11 DEF IInv, MapInv
  <2> QED BY <1>2, <2>1, <2>2 DEF IInv, MapInv
<1>17. SendInv' /\ BodyRoute'
  BY <1>2, NothingSent
<1>18. ClientRoute' /\ ObjectRoute'
  BY <1>2, <1>13, ClientsStay, ObjectsStay DEF IInv, RouteInv
<1>19. MultipleApart'
  BY <1>2 DEF IInv, MultipleApart
<1> QED BY <1>14, <1>15, <1>16, <1>17, <1>18, <1>19, Together

\* An answer is sent to the node it is for.
LEMMA RedirectResponseInv ==
    ASSUME IInv, NEW n \in Nodes, NEW fd, RedirectResponse(n, fd)
    PROVE  IInv'
<1>1. PICK to, m, b : /\ to = outgoingconnection[n][fd] /\ m = Head(ipc[n][fd])
                      /\ b = Body("response", n, to.src, to.tag, 0, m)
  OBVIOUS
<1>2. /\ Takes(n, fd, {"call", "answer"}) /\ ipc' = Taken(n, fd) /\ fd \in DOMAIN outgoingconnection[n]
      /\ cmd' = Command(n, to.src, "response", to.tag) /\ body' = body \cup {b}
      /\ outgoingconnection' = [outgoingconnection EXCEPT ![n] = Erase(@, fd)]
      /\ main' = [main EXCEPT ![n].at = "sent"]
      /\ UNCHANGED <<deployment, multiple, incomingconnection, connectionmap, next_tag,
                     next_object_id, allocation_id, objects, client, serving, overlap>>
  BY <1>1 DEF RedirectResponse, counters
<1>3. m \in Msg /\ main[n].at = "poll"
  BY <1>1, <1>2, TakenHead
<1>4. to \in [tag : Nat, src : Nodes]
  BY <1>1, <1>2 DEF IInv, MapInv
<1>5. to.tag \in Nat /\ to.src \in Nat
  BY <1>4, InterconnectorAssumption DEF Nodes
<1>6. b \in BodyType /\ b.kind = "response" /\ b.src = n
  BY <1>1, <1>3, <1>5 DEF Body, BodyType
<1>7. cmd' \in CmdType
  BY <1>2, <1>5, CommandType DEF Commands
<1>8. SendInv' /\ BodyRoute'
  BY <1>2, <1>3, <1>6, OneSent
<1>9. ipc' \in SockType /\ (\A k \in Nodes : DOMAIN ipc'[k] = DOMAIN ipc[k]) /\ Grows /\ SocketRoute'
  BY <1>2, TakeFits
<1>10. main' \in [Nodes -> MainType]
  BY <1>2 DEF IInv, TypeInv, MainType
<1>11. TypeInv'
  BY <1>2, <1>6, <1>7, <1>9, <1>10 DEF IInv, TypeInv, Clients
<1>12. MapInv'
  <2>1. outgoingconnection' = [k \in Nodes |-> outgoingconnection'[k]]
    BY <1>2 DEF IInv, MapInv
  <2>2. ASSUME NEW k \in Nodes, NEW f \in DOMAIN outgoingconnection'[k]
        PROVE  outgoingconnection'[k][f] \in [tag : Nat, src : Nodes]
    BY <1>2 DEF IInv, MapInv, Erase
  <2> QED BY <1>2, <1>9, <2>1, <2>2 DEF IInv, MapInv
<1>13. ClientRoute' /\ ObjectRoute'
  BY <1>2, <1>9, ClientsStay, ObjectsStay DEF IInv, RouteInv
<1>14. MultipleApart'
  BY <1>2 DEF IInv, MultipleApart
<1> QED BY <1>8, <1>9, <1>11, <1>12, <1>13, <1>14, Together

\* A request is sent to what its socket is connected to.
LEMMA RedirectRequestInv ==
    ASSUME IInv, NEW n \in Nodes, NEW fd, RedirectRequest(n, fd)
    PROVE  IInv'
<1>1. PICK to, m, b :
        /\ to = IF fd \in DOMAIN incomingconnection[n] THEN incomingconnection[n][fd] ELSE [node |-> 0, id |-> 0]
        /\ m = Head(ipc[n][fd])
        /\ b = Body("request", n, to.node, next_tag[n], to.id, m)
  OBVIOUS
<1>2. /\ Takes(n, fd, {"call", "answer"}) /\ ipc' = Taken(n, fd)
      /\ cmd' = Command(n, to.node, "request", next_tag[n]) /\ body' = body \cup {b}
      /\ next_tag' = [next_tag EXCEPT ![n] = @ + 1]
      /\ main' = [main EXCEPT ![n].at = "sent"]
      /\ UNCHANGED <<deployment, multiple, incomingconnection, outgoingconnection, connectionmap,
                     next_object_id, allocation_id, objects, client, serving, overlap>>
  BY <1>1 DEF RedirectRequest
<1>3. /\ m \in Msg /\ main[n].at = "poll" /\ m \in ToSet(ipc[n][fd]) /\ m.op \in {"call", "answer"}
      /\ fd \in DOMAIN ipc[n]
  BY <1>1, <1>2, TakenHead
<1>4. to \in [node : Nat, id : Nat] /\ (to.id # 0 => to \in Targets(n, fd))
  <2>1. CASE fd \in DOMAIN incomingconnection[n]
    BY <1>1, <2>1 DEF IInv, MapInv, Targets
  <2>2. CASE fd \notin DOMAIN incomingconnection[n]
    BY <1>1, <2>2
  <2> QED BY <2>1, <2>2
<1>5. to.node \in Nat /\ to.id \in Nat /\ next_tag[n] \in Nat
  BY <1>4 DEF IInv, TypeInv
<1>6. b \in BodyType /\ b.kind = "request" /\ b.src = n /\ b.m = m /\ b.id = to.id /\ b.dst = to.node
  BY <1>1, <1>3, <1>5 DEF Body, BodyType
<1>7. b.id # 0 => Match(b.m, [node |-> b.dst, id |-> b.id])
  <2>1. ASSUME b.id # 0 PROVE Match(m, to)
    BY <1>3, <1>4, <1>6, <2>1 DEF IInv, RouteInv, SocketRoute, Calls
  <2> QED BY <1>6, <2>1 DEF Match
<1>8. cmd' \in CmdType
  BY <1>2, <1>5, CommandType DEF Commands
<1>9. SendInv' /\ BodyRoute'
  BY <1>2, <1>3, <1>6, <1>7, OneSent
<1>10. ipc' \in SockType /\ (\A k \in Nodes : DOMAIN ipc'[k] = DOMAIN ipc[k]) /\ Grows /\ SocketRoute'
  BY <1>2, TakeFits
<1>11. main' \in [Nodes -> MainType] /\ next_tag' \in [Nodes -> Nat]
  BY <1>2 DEF IInv, TypeInv, MainType
<1>12. TypeInv'
  BY <1>2, <1>6, <1>8, <1>10, <1>11 DEF IInv, TypeInv, Clients
<1> QED BY <1>2, <1>9, <1>10, <1>12, InsideInv

\* The sockets where the main thread took a message and opened others for an
\* object, with nothing on them but a request or an answer.
LEMMA ConnectFits ==
    ASSUME IInv, NEW n \in Nodes, NEW fd, NEW ops, Takes(n, fd, ops), NEW q, q = Taken(n, fd),
           incomingconnection' = incomingconnection, NEW new, new = Len(ipc[n]) + 1, NEW m \in Msg, m.op # "connect",
           NEW opens,
           IF opens THEN \/ ipc' = Extend(q, n, <<>>)
                         \/ \E p : p = Extend(q, n, <<>>) /\ ipc' = Extend(p, n, <<m>>)
           ELSE ipc' = q
    PROVE  /\ ipc' \in SockType /\ \A k \in Nodes : DOMAIN ipc[k] \subseteq DOMAIN ipc'[k]
           /\ Grows /\ SocketRoute'
           /\ new \in Nat \ DOMAIN ipc[n]
           /\ opens => new \in DOMAIN ipc'[n] /\ Targets(n, new)' = {}
<1>1. PICK t : t = Tail(ipc[n][fd])
  OBVIOUS
<1>2. ipc \in SockType /\ fd \in DOMAIN ipc[n] /\ ipc[n][fd] # <<>>
  BY DEF IInv, TypeInv, Takes
<1>3. ipc[n] \in Seq(Seq(Msg)) /\ ipc[n][fd] \in Seq(Msg)
  BY <1>2 DEF SockType
<1>4. t \in Seq(Msg) /\ ToSet(t) \subseteq ToSet(ipc[n][fd]) /\ q = Replace(ipc, n, fd, t)
  BY <1>1, <1>2, <1>3, TailSet DEF Taken, Replace
<1>5. q \in SockType /\ q[n][fd] = t /\ \A k \in Nodes : DOMAIN q[k] = DOMAIN ipc[k]
  BY <1>2, <1>4, Replaced
<1>6. \A k \in Nodes : \A f \in DOMAIN ipc[k] : k # n \/ f # fd => q[k][f] = ipc[k][f]
  BY <1>2, <1>4, Replaced
<1>7. \A k \in Nodes : \A f \in DOMAIN ipc[k] : ToSet(q[k][f]) \subseteq ToSet(ipc[k][f])
  BY <1>4, <1>5, <1>6
<1>8. new \in Nat \ DOMAIN ipc[n] /\ Len(q[n]) + 1 = new
  <2>1. q[n] \in Seq(Seq(Msg)) /\ DOMAIN q[n] = DOMAIN ipc[n]
    BY <1>5 DEF SockType
  <2>2. Len(q[n]) = Len(ipc[n])
    BY <1>3, <2>1
  <2> QED BY <1>3, <2>2
<1>9. <<>> \in Seq(Msg) /\ <<m>> \in Seq(Msg)
  OBVIOUS
<1>10. ToSet(<<>>) = {} /\ ToSet(<<m>>) = {m}
  BY DEF ToSet
<1>11. PICK e : e = <<>>
  OBVIOUS
<1>12. /\ ipc' \in SockType
       /\ \A k \in Nodes : DOMAIN ipc[k] \subseteq DOMAIN ipc'[k]
       /\ \A k \in Nodes : \A f \in DOMAIN ipc[k] : ipc'[k][f] = q[k][f]
       /\ \A k \in Nodes : \A f \in DOMAIN ipc'[k] \ DOMAIN ipc[k] : ToSet(ipc'[k][f]) \subseteq {m}
       /\ opens => new \in DOMAIN ipc'[n]
  <2>1. CASE ~opens
    <3>1. ipc' = q
      BY <2>1
    <3> QED BY <1>5, <2>1, <3>1
  <2>2. PICK p : p = Extend(q, n, e)
    OBVIOUS
  <2>3. e \in Seq(Msg)
    BY <1>9, <1>11
  <2>4. /\ p \in SockType
        /\ \A k \in Nodes : DOMAIN q[k] \subseteq DOMAIN p[k]
        /\ \A k \in Nodes : \A f \in DOMAIN q[k] : p[k][f] = q[k][f]
        /\ \A k \in Nodes : \A f \in DOMAIN p[k] \ DOMAIN q[k] : k = n /\ f = Len(q[n]) + 1
        /\ Len(q[n]) + 1 \in DOMAIN p[n] \ DOMAIN q[n]
        /\ p[n][Len(q[n]) + 1] = e
    BY <1>5, <2>2, <2>3, Opened
  <2>5. \A k \in Nodes : \A f \in DOMAIN p[k] \ DOMAIN ipc[k] : ToSet(p[k][f]) = {}
    BY <1>5, <1>10, <1>11, <2>4
  <2>6. CASE ipc' = Extend(q, n, <<>>)
    BY <1>5, <1>8, <1>11, <2>2, <2>4, <2>5, <2>6, SMTT(30)
  <2>7. CASE ipc' = Extend(p, n, <<m>>)
    <3>1. PICK u : u = <<m>>
      OBVIOUS
    <3>2. u \in Seq(Msg) /\ ToSet(u) = {m} /\ ipc' = Extend(p, n, u)
      BY <1>9, <1>10, <2>7, <3>1
    <3>3. /\ ipc' \in SockType
          /\ \A k \in Nodes : DOMAIN p[k] \subseteq DOMAIN ipc'[k]
          /\ \A k \in Nodes : \A f \in DOMAIN p[k] : ipc'[k][f] = p[k][f]
          /\ \A k \in Nodes : \A f \in DOMAIN ipc'[k] \ DOMAIN p[k] : k = n /\ f = Len(p[n]) + 1
          /\ ipc'[n][Len(p[n]) + 1] = u
      BY <2>4, <3>2, Opened
    <3>4. ASSUME NEW k \in Nodes, NEW f \in DOMAIN ipc'[k] \ DOMAIN ipc[k]
          PROVE  ToSet(ipc'[k][f]) \subseteq {m}
      <4>1. CASE f \in DOMAIN p[k]
        BY <2>5, <3>3, <4>1
      <4>2. CASE f \notin DOMAIN p[k]
        BY <3>2, <3>3, <4>2
      <4> QED BY <4>1, <4>2
    <3>5. \A k \in Nodes : DOMAIN ipc[k] \subseteq DOMAIN ipc'[k]
      BY <1>5, <2>4, <3>3
    <3>6. ASSUME NEW k \in Nodes, NEW f \in DOMAIN ipc[k]
          PROVE  ipc'[k][f] = q[k][f]
      BY <1>5, <2>4, <3>3
    <3>7. new \in DOMAIN ipc'[n]
      BY <1>8, <2>4, <3>3
    <3> QED BY <3>3, <3>4, <3>5, <3>6, <3>7
  <2> QED BY <1>11, <2>1, <2>2, <2>6, <2>7
<1>13. \A k \in Nodes : \A f \in DOMAIN ipc[k] : \A y \in ToSet(ipc'[k][f]) : y \in ToSet(ipc[k][f])
  BY <1>7, <1>12
<1>14. \A k \in Nodes : \A f \in DOMAIN ipc'[k] \ DOMAIN ipc[k] : \A y \in ToSet(ipc'[k][f]) : y.op # "connect"
  BY <1>12
<1>15. Grows /\ SocketRoute'
  BY <1>12, <1>13, <1>14, SocketsFit DEF IInv, RouteInv
<1>16. ASSUME opens PROVE new \in DOMAIN ipc'[n] /\ Targets(n, new)' = {}
  <2>1. new \in DOMAIN ipc'[n] \ DOMAIN ipc[n]
    BY <1>8, <1>12, <1>16
  <2>2. new \notin DOMAIN incomingconnection[n]
    BY <2>1 DEF IInv, MapInv
  <2> QED BY <1>14, <2>1, <2>2 DEF Targets
<1> QED BY <1>8, <1>12, <1>15, <1>16

\* The main thread connects to an object, or reuses the connection, and may
\* hand it a request that is for it.
LEMMA ServesInv ==
    ASSUME IInv, ipc' \in SockType, \A k \in Nodes : DOMAIN ipc[k] \subseteq DOMAIN ipc'[k], Grows, SocketRoute',
           NEW n \in Nodes, NEW out, out \in DOMAIN ipc'[n], Targets(n, out)' = {}, NEW key,
           NEW entry \in [tag : Nat, src : Nodes],
           connectionmap' = [connectionmap EXCEPT ![n] = Put(@, key, out)],
           outgoingconnection' = [outgoingconnection EXCEPT ![n] = Put(@, out, entry)],
           body' \subseteq body, MultipleApart',
           \A r \in serving' \ serving : r.node = n /\ r.fd = out /\ r.m \in Msg /\ Match(r.m, r),
           UNCHANGED <<deployment, multiple, main, cmd, incomingconnection, next_tag, next_object_id, allocation_id,
                       objects, client>>
    PROVE  IInv'
<1>1. SendInv' /\ BodyRoute'
  BY NothingSent
<1>2. TypeInv'
  BY DEF IInv, TypeInv, Clients
<1>3. ClientRoute'
  BY ClientsStay DEF IInv, RouteInv
<1>4. MapInv'
  <2>1. outgoingconnection' = [k \in Nodes |-> outgoingconnection'[k]]
    BY DEF IInv, MapInv
  <2>2. connectionmap' = [k \in Nodes |-> connectionmap'[k]]
    BY DEF IInv, MapInv
  <2>3. ASSUME NEW k \in Nodes, NEW f \in DOMAIN outgoingconnection'[k]
        PROVE  outgoingconnection'[k][f] \in [tag : Nat, src : Nodes]
    BY DEF IInv, MapInv, Put
  <2> QED BY <2>1, <2>2, <2>3 DEF IInv, MapInv
<1>5. ASSUME NEW j \in Nodes, NEW k \in DOMAIN connectionmap'[j], NEW f, f = connectionmap'[j][k]
      PROVE  f \in DOMAIN ipc'[j] /\ Targets(j, f)' = {}
  <2>1. CASE j = n /\ k = key
    <3>1. f = out
      BY <1>5, <2>1 DEF IInv, MapInv, Put
    <3> QED BY <2>1, <3>1
  <2>2. CASE ~(j = n /\ k = key)
    <3>1. k \in DOMAIN connectionmap[j] /\ f = connectionmap[j][k]
      BY <1>5, <2>2 DEF IInv, MapInv, Put
    <3>2. f \in DOMAIN ipc[j] /\ Targets(j, f) = {}
      BY <3>1 DEF IInv, RouteInv, ObjectRoute
    <3> QED BY <3>2 DEF Grows
  <2> QED BY <2>1, <2>2
<1>6. ASSUME NEW r \in serving'
      PROVE  /\ r.node \in Nodes /\ r.fd \in DOMAIN ipc'[r.node] /\ Targets(r.node, r.fd)' = {}
             /\ r.m \in Msg /\ Match(r.m, r)
  <2>1. CASE r \in serving
    BY <2>1 DEF IInv, RouteInv, ObjectRoute, Grows
  <2>2. CASE r \notin serving
    BY <2>2
  <2> QED BY <2>1, <2>2
<1>7. ObjectRoute'
  BY <1>5, <1>6 DEF ObjectRoute, Match, Targets
<1> QED BY <1>1, <1>2, <1>3, <1>4, <1>7, Together

\* 200005: a request of another node is handed to its object.
LEMMA RequestFromMpiInv ==
    ASSUME IInv, NEW n \in Nodes, NEW fd, RequestFromMpi(n, fd)
    PROVE  IInv'
<1>1. PICK w, fresh, q : w = Head(ipc[n][fd]) /\ fresh = Len(ipc[n]) + 1 /\ q = Taken(n, fd)
  OBVIOUS
<1>2. /\ Takes(n, fd, {"request"})
      /\ UNCHANGED <<deployment, multiple, cmd, incomingconnection, next_tag, next_object_id, allocation_id,
                     objects, client>>
  BY DEF RequestFromMpi, counters
<1>3. PICK b \in body :
      /\ b.kind = "request" /\ b.src = Head(ipc[n][fd]).node /\ b.dst = n /\ b.tag = Head(ipc[n][fd]).id
      /\ LET new == NeedsConnection(n, b.src, b.id)
             out == IF new THEN Len(ipc[n]) + 1 ELSE connectionmap[n][<<b.src, b.id>>]
             entry == [tag |-> b.tag, src |-> b.src]
             up == \E o \in objects : o.node = n /\ o.id = b.id /\ o.up IN
         /\ body' = body \ {b}
         /\ IF b.id = 0
            THEN /\ ipc' = [Taken(n, fd) EXCEPT ![n] = @ \o <<<<>>, <<b.m>>>>]
                 /\ owner' = [owner EXCEPT ![n] = @ \o <<None, None>>]
                 /\ UNCHANGED <<main, serving, overlap>>
                 /\ connectionmap' = [connectionmap EXCEPT ![n] = Put(@, <<b.src, b.id>>, out)]
                 /\ outgoingconnection' = [outgoingconnection EXCEPT ![n] = Put(@, out, entry)]
            ELSE IF new /\ ~up
            THEN /\ main' = [main EXCEPT ![n].at = "dead"]
                 /\ UNCHANGED <<local, serving, overlap, connectionmap, outgoingconnection>>
            ELSE /\ ipc' = IF new THEN [Taken(n, fd) EXCEPT ![n] = Append(@, <<>>)] ELSE Taken(n, fd)
                 /\ owner' = IF new THEN [owner EXCEPT ![n] = Append(@, None)] ELSE owner
                 /\ serving' = serving \cup {[node |-> n, id |-> b.id, fd |-> out, m |-> b.m]}
                 /\ overlap' = \/ overlap
                               \/ \E r \in serving : r.node = n /\ r.fd = out /\ r.m.sync
                               \/ ~new /\ ipc[n][out] # <<>>
                 /\ connectionmap' = [connectionmap EXCEPT ![n] = Put(@, <<b.src, b.id>>, out)]
                 /\ outgoingconnection' = [outgoingconnection EXCEPT ![n] = Put(@, out, entry)]
                 /\ UNCHANGED main
  BY Zenon DEF RequestFromMpi
<1>4. PICK m, key, new, out, entry, up :
        /\ m = b.m /\ key = <<b.src, b.id>>
        /\ new = NeedsConnection(n, b.src, b.id)
        /\ out = IF new THEN fresh ELSE connectionmap[n][key]
        /\ entry = [tag |-> b.tag, src |-> b.src]
        /\ up = (\E o \in objects : o.node = n /\ o.id = b.id /\ o.up)
  OBVIOUS
<1>5. /\ m \in Msg /\ m.op # "connect" /\ b.id \in Nat /\ b.tag \in Nat /\ b.src \in Nodes
      /\ b.id # 0 => Match(m, [node |-> n, id |-> b.id])
  <2>1. b \in BodyType
    BY DEF IInv, TypeInv
  <2>2. m \in Msg /\ b.id \in Nat /\ b.tag \in Nat /\ b.src \in Nodes
    BY <1>4, <2>1 DEF BodyType
  <2> QED BY <1>3, <1>4, <2>2 DEF IInv, RouteInv, BodyRoute
<1>6. entry \in [tag : Nat, src : Nodes] /\ (multiple => new)
  BY <1>4, <1>5 DEF NeedsConnection
<1>7. /\ new => out = fresh
      /\ ~new => out \in DOMAIN ipc[n] /\ Targets(n, out) = {}
  BY <1>4 DEF IInv, RouteInv, ObjectRoute, NeedsConnection
<1>8. q \in SockType
  <2>1. ipc \in SockType /\ fd \in DOMAIN ipc[n] /\ ipc[n][fd] # <<>>
    BY <1>2 DEF IInv, TypeInv, Takes
  <2>2. PICK t : t = Tail(ipc[n][fd])
    OBVIOUS
  <2>3. ipc[n][fd] \in Seq(Msg)
    BY <2>1 DEF SockType
  <2>4. t \in Seq(Msg) /\ q = Replace(ipc, n, fd, t)
    BY <1>1, <2>1, <2>2, <2>3, TailSet DEF Taken, Replace
  <2> QED BY <2>1, <2>4, Replaced
<1>9. CASE b.id = 0
  <2>1. /\ ipc' = [q EXCEPT ![n] = @ \o <<<<>>, <<m>>>>]
        /\ UNCHANGED <<main, serving, overlap>>
        /\ connectionmap' = [connectionmap EXCEPT ![n] = Put(@, key, out)]
        /\ outgoingconnection' = [outgoingconnection EXCEPT ![n] = Put(@, out, entry)]
    BY <1>1, <1>3, <1>4, <1>9
  <2>2. q[n] \in Seq(Seq(Msg))
    BY <1>8 DEF SockType
  <2>3. q[n] \o <<<<>>, <<m>>>> = Append(Append(q[n], <<>>), <<m>>)
    <3>1. PICK z, u, v : z = q[n] /\ u = <<>> /\ v = <<m>>
      OBVIOUS
    <3>2. z \in Seq(Seq(Msg)) /\ u \in Seq(Msg) /\ v \in Seq(Msg)
      BY <1>5, <2>2, <3>1
    <3>3. z \o <<u, v>> = Append(Append(z, u), v)
      BY <3>2, AppendTwo
    <3> QED BY <3>1, <3>3
  <2>4. PICK p : p = Extend(q, n, <<>>)
    OBVIOUS
  <2>5. ipc' = Extend(p, n, <<m>>)
    BY <1>8, <2>1, <2>3, <2>4 DEF Extend, SockType
  <2>6. PICK opens : opens = TRUE
    OBVIOUS
  <2>7. IF opens THEN \/ ipc' = Extend(q, n, <<>>)
                      \/ \E pp : pp = Extend(q, n, <<>>) /\ ipc' = Extend(pp, n, <<m>>)
        ELSE ipc' = q
    BY <2>4, <2>5, <2>6
  <2>8. /\ ipc' \in SockType /\ \A k \in Nodes : DOMAIN ipc[k] \subseteq DOMAIN ipc'[k]
        /\ Grows /\ SocketRoute'
        /\ fresh \in DOMAIN ipc'[n] /\ Targets(n, fresh)' = {}
    BY <1>1, <1>2, <1>5, <2>6, <2>7, ConnectFits
  <2>9. out \in DOMAIN ipc'[n] /\ Targets(n, out)' = {}
    <3>1. CASE new
      BY <1>7, <2>8, <3>1
    <3>2. CASE ~new
      BY <1>7, <2>8, <3>2 DEF Grows
    <3> QED BY <3>1, <3>2
  <2>10. body' \subseteq body /\ MultipleApart' /\ serving' \ serving = {}
    BY <1>2, <1>3, <2>1 DEF IInv, MultipleApart
  <2> QED BY <1>2, <1>6, <2>1, <2>8, <2>9, <2>10, ServesInv
<1>10. CASE b.id # 0 /\ new /\ ~up
  <2>1. main' = [main EXCEPT ![n].at = "dead"] /\ UNCHANGED <<ipc, serving, overlap, connectionmap, outgoingconnection>>
    BY <1>3, <1>4, <1>10 DEF local
  <2>2. Grows /\ SocketRoute'
    BY <1>2, <2>1, SocketsStay DEF IInv, RouteInv
  <2>3. main' \in [Nodes -> MainType] /\ \A k \in Nodes : main'[k].at \in {main[k].at, "dead"}
    BY <2>1 DEF IInv, TypeInv, MainType
  <2>4. \A a \in body' : a \in body /\ a.src \in Nodes
    BY <1>3 DEF IInv, TypeInv, BodyType
  <2>5. SendInv' /\ BodyRoute'
    BY <2>3, <2>4, NothingSent
  <2>6. TypeInv'
    BY <1>2, <2>1, <2>3, <2>4 DEF IInv, TypeInv, Clients
  <2> QED BY <1>2, <2>1, <2>2, <2>5, <2>6, InsideInv
<1>11. CASE b.id # 0 /\ ~(new /\ ~up)
  <2>1. PICK s : s = [node |-> n, id |-> b.id, fd |-> out, m |-> m]
    OBVIOUS
  <2>2. /\ ipc' = IF new THEN [q EXCEPT ![n] = Append(@, <<>>)] ELSE q
        /\ serving' = serving \cup {s}
        /\ connectionmap' = [connectionmap EXCEPT ![n] = Put(@, key, out)]
        /\ outgoingconnection' = [outgoingconnection EXCEPT ![n] = Put(@, out, entry)]
        /\ UNCHANGED main
    BY <1>1, <1>3, <1>4, <1>11, <2>1
  <2>3. IF new THEN \/ ipc' = Extend(q, n, <<>>)
                    \/ \E pp : pp = Extend(q, n, <<>>) /\ ipc' = Extend(pp, n, <<m>>)
        ELSE ipc' = q
    BY <2>2 DEF Extend
  <2>4. /\ ipc' \in SockType /\ \A k \in Nodes : DOMAIN ipc[k] \subseteq DOMAIN ipc'[k]
        /\ Grows /\ SocketRoute' /\ fresh \notin DOMAIN ipc[n]
        /\ new => fresh \in DOMAIN ipc'[n] /\ Targets(n, fresh)' = {}
    BY <1>1, <1>2, <1>5, <2>3, ConnectFits
  <2>5. out \in DOMAIN ipc'[n] /\ Targets(n, out)' = {}
    <3>1. CASE new
      BY <1>7, <2>4, <3>1
    <3>2. CASE ~new
      BY <1>7, <2>4, <3>2 DEF Grows
    <3> QED BY <3>1, <3>2
  <2>6. ASSUME multiple PROVE ~overlap'
    <3> DEFINE P == \/ overlap
                    \/ \E r \in serving : r.node = n /\ r.fd = out /\ r.m.sync
                    \/ ~new /\ ipc[n][out] # <<>>
    <3>0. overlap' = P
      BY <1>1, <1>3, <1>4, <1>11
    <3>1. ~overlap /\ new
      BY <1>6, <2>6 DEF IInv, MultipleApart
    <3>2. out = fresh
      BY <1>7, <3>1
    <3>3. \A r \in serving : ~(r.node = n /\ r.fd = out)
      BY <2>4, <3>2 DEF IInv, RouteInv, ObjectRoute
    <3> QED BY <3>0, <3>1, <3>3
  <2>7. MultipleApart' /\ body' \subseteq body
    BY <1>2, <1>3, <2>6 DEF MultipleApart
  <2>8. \A r \in serving' \ serving : r.node = n /\ r.fd = out /\ r.m \in Msg /\ Match(r.m, r)
    <3>1. s.node = n /\ s.fd = out /\ s.m = m /\ s.id = b.id
      BY <2>1
    <3>2. Match(m, s)
      BY <1>5, <1>11, <3>1 DEF Match
    <3>3. \A r \in serving' \ serving : r = s
      BY <2>2
    <3> QED BY <1>5, <3>1, <3>2, <3>3
  <2> QED BY <1>2, <1>6, <2>2, <2>4, <2>5, <2>7, <2>8, ServesInv
<1> QED BY <1>9, <1>10, <1>11

-----------------------------------------------------------------------------
(* The theorems. *)

\* The invariant holds in the beginning.
LEMMA InitInv ==
    ASSUME Init
    PROVE  IInv
<1>1. TypeInv
  <2>1. main \in [Nodes -> MainType]
    BY IdleType DEF Init
  <2>2. cmd \in CmdType
    BY DEF Init, CmdType
  <2>3. ipc \in SockType /\ \A n \in Nodes : 1 \in DOMAIN ipc[n]
    BY DEF Init, SockType
  <2>4. client \in [Clients -> ClientType]
    BY DEF Init, ClientType
  <2>5. FirstTag \in Nat
    BY InterconnectorAssumption
  <2> QED BY <2>1, <2>2, <2>3, <2>4, <2>5 DEF Init, TypeInv
<1>2. MapInv
  BY DEF Init, MapInv
<1>3. SendInv /\ BodyRoute
  BY DEF Init, SendInv, BodyRoute
<1>4. \A n \in Nodes : \A fd \in DOMAIN ipc[n] : ToSet(ipc[n][fd]) = {}
  <2>1. \A n \in Nodes : ipc[n] = <<<<>>>>
    BY DEF Init
  <2> QED BY <2>1 DEF ToSet
<1>5. SocketRoute
  BY <1>4 DEF SocketRoute, Calls
<1>6. ClientRoute
  BY DEF Init, ClientRoute
<1>7. ObjectRoute
  BY DEF Init, ObjectRoute
<1>8. MultipleApart
  BY DEF Init, MultipleApart
<1> QED BY <1>1, <1>2, <1>3, <1>5, <1>6, <1>7, <1>8 DEF IInv, RouteInv

\* A step of a main thread keeps the invariant.
LEMMA MainInv ==
    ASSUME IInv, NEW n \in Nodes, Main(n)
    PROVE  IInv'
<1>1. ASSUME NEW fd,
             \/ Terminate(n, fd) \/ Connection(n, fd) \/ AllocateHere(n, fd) \/ AllocateThere(n, fd)
             \/ AllocationFromMpi(n, fd) \/ RequestFromMpi(n, fd) \/ RedirectResponse(n, fd)
             \/ RedirectRequest(n, fd) \/ SpawnGroup(n, fd) \/ SetRank(n, fd) \/ ForwardToGroup(n, fd)
      PROVE  IInv'
  BY <1>1, TerminateInv, ConnectionInv, ForkInv, AllocateThereInv, RequestFromMpiInv, RedirectResponseInv,
     RedirectRequestInv, GroupInv
<1>2. ASSUME JoinThread(n) \/ SaveReturn(n) \/ SendCompletes(n) PROVE IInv'
  BY <1>2, MainTurnsInv
<1> QED BY <1>1, <1>2 DEF Main

\* A step of a receiving thread keeps the invariant.
LEMMA ReceiverInv ==
    ASSUME IInv, NEW n \in Nodes, Receiver(n)
    PROVE  IInv'
<1>1. ASSUME NEW s \in Nodes, ReceiveCommand(n, s) PROVE IInv'
  BY <1>1, ReceiveCommandInv
<1>2. ASSUME NEW s \in Nodes, ReceiveResponse(n, s) \/ ReceiveAllocated(n, s) PROVE IInv'
  BY <1>2, ReceiveAnswerInv
<1>3. ASSUME NEW fd \in object_group[n], ReceiveGroup(n, fd) PROVE IInv'
  BY <1>3, AsideInv DEF ReceiveGroup, mpi, local, maps, counters
<1> QED BY <1>1, <1>2, <1>3 DEF Receiver

\* A step of a program keeps the invariant.
LEMMA ProgramInv ==
    ASSUME IInv, NEW c \in Clients, Program(c)
    PROVE  IInv'
  BY AllocateInv, BindInv, CallInv, GroupCallInv, AllocateGroupInv, FinalizeInv DEF Program

\* Every step keeps the invariant.
LEMMA NextInv ==
    ASSUME IInv, [Next]_vars
    PROVE  IInv'
<1>1. ASSUME NEW n \in Nodes, CallsBack(n) PROVE IInv'
  BY <1>1, ObjectCallsBackInv DEF CallsBack
<1>2. CASE Members
  BY <1>2, AsideInv DEF Members, MemberRuns, mpi, local, maps, counters
<1>3. CASE UNCHANGED vars
  BY <1>3, AsideInv DEF vars, mpi, local, maps, counters
<1>4. ASSUME NEW c \in Clients, Read(c) PROVE IInv'
  BY <1>4, ReadInv
<1>5. CASE ObjectServes
  BY <1>5, ObjectServesInv
<1>6. CASE ProgramTerminates
  BY <1>6, ProgramTerminatesInv
<1> QED BY <1>1, <1>2, <1>3, <1>4, <1>5, <1>6, MainInv, ReceiverInv, ProgramInv DEF Next

\* The interconnectors keep the invariant: what is on a socket, on its way
\* between two nodes or at an object is for what the socket is connected to, and
\* a main thread sends one thing at a time.
THEOREM Inductive == Spec => []IInv
<1>1. Init => IInv
  BY InitInv
<1>2. IInv /\ [Next]_vars => IInv'
  BY NextInv
<1> QED BY <1>1, <1>2, PTL DEF Spec

\* The parts of two commands between the same nodes with the same tag are never
\* under way together, for any number of nodes and clients: popc_mpi_interconnector
\* waits for its synchronous send before it takes the next message.
THEOREM OneBodyTheorem == Spec => []OneBody
<1>1. IInv => OneBody
  BY DEF IInv, SendInv, OneBody
<1> QED BY <1>1, Inductive, PTL

\* With --multiple-connection no connection to an object carries two requests,
\* for any number of nodes, clients and objects.
THEOREM MultipleApartTheorem == Spec => []MultipleApart
<1>1. IInv => MultipleApart
  BY DEF IInv
<1> QED BY <1>1, Inductive, PTL

\* In a network of at most a hundred nodes a request reaches the object its
\* client is bound to, whatever the connections, tags and answers on the way.
\* With more, an interface may cut the number of the node it reads in the
\* address of the object.
THEOREM RightObjectTheorem == Spec => [](World <= 100 => RightObject)
<1>1. ASSUME IInv, World <= 100 PROVE RightObject
  <2>1. ASSUME NEW r \in serving PROVE r.m.node = r.node /\ r.m.id = r.id
    <3>1. Match(r.m, r) /\ r.m \in Msg
      BY <1>1 DEF IInv, RouteInv, ObjectRoute
    <3>2. r.m.node \in Nodes /\ r.m.id \in Nat
      BY <3>1 DEF Match, Msg
    <3>3. r.m.node \in Nat /\ r.m.node < 100
      BY <1>1, <3>2, InterconnectorAssumption DEF Nodes
    <3>4. DestNode(r.m.node, r.m.id) = r.m.node
      BY <3>2, <3>3 DEF DestNode, Digits
    <3> QED BY <3>1, <3>4 DEF Match
  <2> QED BY <2>1 DEF RightObject
<1>2. IInv => (World <= 100 => RightObject)
  BY <1>1
<1> QED BY <1>2, Inductive, PTL

-----------------------------------------------------------------------------
(* Who is at the other end of a socket, and what the maps say of it. *)

\* What the one at the other end of a socket may say.
Voice(o) ==
    IF o = None THEN {"call", "answer", "terminate", "allocation", "request"}
    ELSE IF o \in Grouping THEN {"group", "rank", "call", "final"}
    ELSE {"alloc", "connect", "call"}

Ranks == 0 .. GroupSize - 1

\* The receiving threads, the answers and the groups.
KindInv ==
    /\ recv \in [Nodes -> {"run", "lost", "ended"}]
    /\ overlap \in BOOLEAN
    /\ inbox \in [Clients -> Seq(Msg)]
    /\ object_group \in [Nodes -> SUBSET Nat]
    /\ DOMAIN member = {g \in Nodes \X Nat : g[2] \in object_group[g[1]]}
    /\ DOMAIN run = DOMAIN member /\ DOMAIN returned = DOMAIN member
    /\ \A g \in DOMAIN member :
        /\ member[g] \in [Ranks -> Seq(Msg)] /\ run[g] \in [Ranks -> Seq(Msg)]
        /\ returned[g] \in Seq(Msg)
    /\ object_group_single = [n \in Nodes |-> object_group_single[n]]

\* The sockets of every node, and the clients at them.
OwnerInv ==
    /\ owner \in [Nodes -> Seq(Clients \cup {None})]
    /\ \A n \in Nodes : Len(owner[n]) = Len(ipc[n]) /\ owner[n][1] = None
    /\ \A n \in Nodes : \A f \in DOMAIN owner[n] : owner[n][f] # None =>
         Home[owner[n][f]] = n /\ client[owner[n][f]].at # "idle"
    /\ \A c \in Clients : client[c].at # "idle" =>
         client[c].fd \in DOMAIN owner[Home[c]] /\ owner[Home[c]][client[c].fd] = c
    /\ \A c \in Grouping : \A n \in Nodes : \A f \in DOMAIN owner[n] : owner[n][f] = c => f = client[c].fd

\* What is on a socket comes from the one at its other end.
SpeechInv ==
    \A n \in Nodes : \A f \in DOMAIN ipc[n] : \A m \in ToSet(ipc[n][f]) :
        m.op \in Voice(owner[n][f]) /\ (owner[n][f] # None => m.who = owner[n][f])

\* A client that asked for an object is at socket f of node n.
Asker(n, f) == f \in DOMAIN owner[n] /\ owner[n][f] \in Clients \ Grouping
\* No client is at socket f of node n.
Inner(n, f) == f \in DOMAIN owner[n] /\ owner[n][f] = None /\ f # 1

\* The maps of tags, allocations and connections lead to such sockets.
TagEnds ==
    /\ incomingtag = [n \in Nodes |-> incomingtag[n]]
    /\ \A n \in Nodes : FirstTag <= next_tag[n]
    /\ \A n \in Nodes : \A t \in DOMAIN incomingtag[n] :
         /\ t \in FirstTag .. next_tag[n] - 1
         /\ incomingtag[n][t] \in DOMAIN owner[n] /\ owner[n][incomingtag[n][t]] \notin Grouping
ReturnEnds ==
    /\ allocation_return = [n \in Nodes |-> allocation_return[n]]
    /\ \A n \in Nodes : \A k \in DOMAIN allocation_return[n] :
         k \in 0 .. allocation_id[n] - 1 /\ Asker(n, allocation_return[n][k])
    /\ \A n \in Nodes :
         main[n].at = "save" \/ (main[n].at = "exec" /\ main[n].src = None) => Asker(n, main[n].fd)
ConnEnds ==
    /\ \A n \in Nodes :
        /\ \A f \in DOMAIN outgoingconnection[n] : Inner(n, f)
        /\ \A k \in DOMAIN connectionmap[n] : Inner(n, connectionmap[n][k])
    /\ \A r \in serving : r.node \in Nodes /\ Inner(r.node, r.fd)
AddressEnds == \A b \in body : b.kind = "address" => b.m.op = "address" /\ b.m.node = b.src
EndsInv == TagEnds /\ ReturnEnds /\ ConnEnds /\ AddressEnds

\* A group is called over its socket once it has been created.
GroupSockets ==
    /\ \A n \in Nodes : \A f \in object_group[n] : f \in DOMAIN owner[n] /\ owner[n][f] \in Grouping
    /\ \A n \in Nodes : \A f \in DOMAIN ipc[n] : owner[n][f] \in Grouping =>
        \A m \in ToSet(ipc[n][f]) : m.op # "group" => f \in object_group[n]
    /\ \A c \in Grouping :
        inbox[c] # <<>> \/ client[c].at \notin {"idle", "alloc"} => client[c].fd \in object_group[Home[c]]

\* A client that has asked for nothing has got nothing.
QuietInv == \A c \in Clients : client[c].at = "idle" => inbox[c] = <<>>

OInv == KindInv /\ QuietInv /\ OwnerInv /\ SpeechInv /\ EndsInv /\ GroupSockets

-----------------------------------------------------------------------------
(* Frames. *)

\* What a step cannot change.
LEMMA Deployment ==
    ASSUME deployment' = deployment
    PROVE  Clients' = Clients /\ Home' = Home /\ Grouping' = Grouping /\ \A o : Voice(o)' = Voice(o)
  BY DEF Clients, Home, Grouping, Voice

\* The sockets of a node, and the clients, are what they seem.
LEMMA Sockets ==
    ASSUME IInv, OwnerInv
    PROVE  /\ \A n \in Nodes : DOMAIN owner[n] = DOMAIN ipc[n] /\ DOMAIN owner[n] \subseteq Nat \ {0}
           /\ \A n \in Nodes : 1 \in DOMAIN owner[n] /\ owner[n] \in Seq(Clients \cup {None})
           /\ \A n \in Nodes : \A f \in DOMAIN owner[n] : owner[n][f] \in Clients \cup {None}
           /\ None \notin Clients /\ Grouping \subseteq Clients /\ None \notin Nodes
<1>1. \A n \in Nodes : owner[n] \in Seq(Clients \cup {None}) /\ ipc[n] \in Seq(Seq(Msg)) /\ Len(owner[n]) = Len(ipc[n])
  BY DEF IInv, TypeInv, SockType, OwnerInv
<1>2. \A n \in Nodes : DOMAIN owner[n] = DOMAIN ipc[n] /\ DOMAIN owner[n] \subseteq Nat \ {0}
  BY <1>1
<1>3. \A n \in Nodes : 1 \in DOMAIN owner[n]
  BY <1>2 DEF IInv, TypeInv
<1>4. \A n \in Nodes : \A f \in DOMAIN owner[n] : owner[n][f] \in Clients \cup {None}
  BY <1>1
<1>5. None \notin Clients /\ Grouping \subseteq Clients /\ None \notin Nodes
  BY InterconnectorAssumption DEF IInv, TypeInv, Clients, Grouping, Nodes
<1> QED BY <1>1, <1>2, <1>3, <1>4, <1>5

\* The sockets stay with those at their other ends.
OwnersGrow == \A k \in Nodes : \A f \in DOMAIN owner[k] : f \in DOMAIN owner'[k] /\ owner'[k][f] = owner[k][f]

LEMMA OwnersSame == owner' = owner => OwnersGrow
  BY DEF OwnersGrow

LEMMA EndsGrow ==
    ASSUME OwnersGrow, deployment' = deployment, NEW n \in Nodes, NEW f
    PROVE  (Asker(n, f) => Asker(n, f)') /\ (Inner(n, f) => Inner(n, f)')
  BY Deployment DEF OwnersGrow, Asker, Inner

LEMMA TagsStay ==
    ASSUME TagEnds, OwnersGrow, UNCHANGED <<deployment, incomingtag, next_tag>>
    PROVE  TagEnds'
  BY Deployment DEF TagEnds, OwnersGrow

LEMMA ReturnsStay ==
    ASSUME ReturnEnds, OwnersGrow, UNCHANGED <<deployment, allocation_return, allocation_id>>,
           \A n \in Nodes : \/ main'[n] = main[n]
                            \/ main'[n].at = "save" \/ (main'[n].at = "exec" /\ main'[n].src = None)
                                 => Asker(n, main'[n].fd)
    PROVE  ReturnEnds'
<1>1. ASSUME NEW n \in Nodes, main'[n].at = "save" \/ (main'[n].at = "exec" /\ main'[n].src = None)
      PROVE  Asker(n, main[n].fd)'
  <2>1. Asker(n, main'[n].fd)
    BY <1>1 DEF ReturnEnds
  <2>2. Clients' = Clients /\ Grouping' = Grouping
    BY Deployment
  <2> QED BY <2>1, <2>2 DEF Asker, OwnersGrow
<1>2. ASSUME NEW n \in Nodes, NEW k \in DOMAIN allocation_return[n]
      PROVE  k \in 0 .. allocation_id'[n] - 1 /\ Asker(n, allocation_return[n][k])'
  <2>1. k \in 0 .. allocation_id[n] - 1 /\ Asker(n, allocation_return[n][k])
    BY DEF ReturnEnds
  <2>2. Asker(n, allocation_return[n][k])'
    <3>1. Clients' = Clients /\ Grouping' = Grouping
      BY Deployment
    <3> QED BY <2>1, <3>1 DEF Asker, OwnersGrow
  <2> QED BY <2>1, <2>2
<1>3. allocation_return' = [n \in Nodes |-> allocation_return'[n]]
  BY DEF ReturnEnds
<1> QED BY <1>1, <1>2, <1>3 DEF ReturnEnds

LEMMA ConnsStay ==
    ASSUME ConnEnds, OwnersGrow, UNCHANGED <<deployment, connectionmap>>, serving' \subseteq serving,
           \A n \in Nodes : DOMAIN outgoingconnection'[n] \subseteq DOMAIN outgoingconnection[n]
    PROVE  ConnEnds'
  BY DEF ConnEnds, Inner, OwnersGrow

LEMMA AddressesStay ==
    ASSUME AddressEnds, \A b \in body' : b \in body \/ b.kind # "address" \/ (b.m.op = "address" /\ b.m.node = b.src)
    PROVE  AddressEnds'
  BY DEF AddressEnds

\* What is new on a socket comes from the one at its other end.
LEMMA SpeechStays ==
    ASSUME IInv, OwnerInv, SpeechInv, OwnersGrow, deployment' = deployment,
           \A k \in Nodes : \A f \in DOMAIN ipc'[k] : \A m \in ToSet(ipc'[k][f]) :
             \/ f \in DOMAIN ipc[k] /\ m \in ToSet(ipc[k][f])
             \/ m.op \in Voice(owner'[k][f]) /\ (owner'[k][f] # None => m.who = owner'[k][f])
    PROVE  SpeechInv'
<1>1. \A k \in Nodes : DOMAIN owner[k] = DOMAIN ipc[k]
  BY Sockets
<1>2. ASSUME NEW k \in Nodes, NEW f \in DOMAIN ipc'[k], NEW m \in ToSet(ipc'[k][f])
      PROVE  m.op \in Voice(owner'[k][f]) /\ (owner'[k][f] # None => m.who = owner'[k][f])
  BY <1>1 DEF SpeechInv, OwnersGrow
<1> QED BY <1>2, Deployment DEF SpeechInv

\* Groups that were created stay, and their sockets are the only ones that
\* are called as such.
LEMMA GroupsStay ==
    ASSUME IInv, OwnerInv, GroupSockets, OwnersGrow, deployment' = deployment,
           \A k \in Nodes : object_group[k] \subseteq object_group'[k],
           \A k \in Nodes : \A f \in object_group'[k] :
             f \in object_group[k] \/ (f \in DOMAIN owner'[k] /\ owner'[k][f] \in Grouping),
           \A k \in Nodes : \A f \in DOMAIN ipc'[k] : \A m \in ToSet(ipc'[k][f]) :
             \/ f \in DOMAIN ipc[k] /\ m \in ToSet(ipc[k][f])
             \/ m.op = "group" \/ owner'[k][f] \notin Grouping \/ f \in object_group'[k],
           \A c \in Grouping :
             \/ /\ inbox'[c] # <<>> => inbox[c] # <<>>
                /\ client'[c].fd = client[c].fd
                /\ client'[c].at \notin {"idle", "alloc"} => client[c].at \notin {"idle", "alloc"} \/ inbox[c] # <<>>
             \/ client'[c].fd \in object_group'[Home[c]]
             \/ inbox'[c] = <<>> /\ client'[c].at \in {"idle", "alloc"}
    PROVE  GroupSockets'
<1>1. \A k \in Nodes : DOMAIN owner[k] = DOMAIN ipc[k]
  BY Sockets
<1>2. Clients' = Clients /\ Home' = Home /\ Grouping' = Grouping
  BY Deployment
<1>3. ASSUME NEW k \in Nodes, NEW f \in object_group'[k]
      PROVE  f \in DOMAIN owner'[k] /\ owner'[k][f] \in Grouping
  BY DEF GroupSockets, OwnersGrow
<1>4. ASSUME NEW k \in Nodes, NEW f \in DOMAIN ipc'[k], owner'[k][f] \in Grouping,
             NEW m \in ToSet(ipc'[k][f]), m.op # "group"
      PROVE  f \in object_group'[k]
  BY <1>1, <1>4 DEF GroupSockets, OwnersGrow
<1>5. ASSUME NEW c \in Grouping, inbox'[c] # <<>> \/ client'[c].at \notin {"idle", "alloc"}
      PROVE  client'[c].fd \in object_group'[Home[c]]
  <2>1. Home[c] \in Nodes
    BY Deployed DEF IInv, Grouping
  <2> QED BY <1>5, <2>1 DEF GroupSockets
<1> QED BY <1>2, <1>3, <1>4, <1>5 DEF GroupSockets

\* The sockets do not change hands.
LEMMA OwnersStay ==
    ASSUME OwnerInv, UNCHANGED <<deployment, owner>>, \A k \in Nodes : Len(ipc'[k]) = Len(ipc[k]),
           \A c \in Clients : client'[c].fd = client[c].fd /\ (client'[c].at = "idle" <=> client[c].at = "idle")
    PROVE  OwnerInv'
<1>1. Clients' = Clients /\ Home' = Home /\ Grouping' = Grouping
  BY Deployment
<1>2. Grouping \subseteq Clients
  BY DEF Grouping
<1>3. \A n \in Nodes : \A f \in DOMAIN owner[n] : owner[n][f] \in Clients \cup {None}
  BY DEF OwnerInv
<1> QED BY <1>1, <1>2, <1>3 DEF OwnerInv

\* The answer goes to the client at the socket.
LEMMA Delivered ==
    ASSUME IInv, inbox \in [Clients -> Seq(Msg)], deployment' = deployment,
           NEW n \in Nodes, NEW f, NEW m \in Msg, Deliver(n, f, m)
    PROVE  /\ inbox' \in [Clients' -> Seq(Msg)]
           /\ \A c \in Clients : inbox'[c] = IF f \in DOMAIN owner[n] /\ owner[n][f] = c
                                             THEN Append(inbox[c], m) ELSE inbox[c]
           /\ \A c \in Clients : inbox[c] \in Seq(Msg) /\ Len(inbox[c]) \in Nat
<1>1. \A c \in Clients : inbox'[c] = IF f \in DOMAIN owner[n] /\ owner[n][f] = c
                                     THEN Append(inbox[c], m) ELSE inbox[c]
  BY DEF Deliver
<1>2. \A c \in Clients : inbox[c] \in Seq(Msg) /\ Append(inbox[c], m) \in Seq(Msg)
  OBVIOUS
<1>3. \A c \in Clients : inbox'[c] \in Seq(Msg)
  BY <1>1, <1>2
<1>4. inbox' = [c \in Clients |-> inbox'[c]]
  BY DEF Deliver
<1>5. Clients' = Clients
  BY Deployment
<1>6. inbox' \in [Clients -> Seq(Msg)]
  BY <1>3, <1>4
<1> QED BY <1>1, <1>2, <1>5, <1>6

-----------------------------------------------------------------------------
(* The steps of the programs. *)

\* A program leaves the interconnectors alone.
LEMMA ProgramKeeps ==
    ASSUME OInv, Untouched, OwnersGrow
    PROVE  KindInv' /\ EndsInv'
<1>1. /\ UNCHANGED <<deployment, main, body, incomingtag, outgoingconnection, connectionmap, allocation_return,
                     next_tag, allocation_id, serving, recv, overlap, inbox>>
      /\ UNCHANGED <<object_group, object_group_single, member, returned, run>>
  BY DEF Untouched, mpi, maps, counters, groups
<1>2. TagEnds' /\ ReturnEnds' /\ ConnEnds' /\ AddressEnds'
  BY <1>1, TagsStay, ReturnsStay, ConnsStay, AddressesStay DEF OInv, EndsInv
<1>3. KindInv'
  BY <1>1, Deployment DEF OInv, KindInv
<1> QED BY <1>2, <1>3 DEF EndsInv

\* Client c becomes v, with messages s on a new socket.
LEMMA OpensO ==
    ASSUME IInv, OInv, Untouched, NEW c \in Clients, NEW s \in Seq(Msg), NEW v \in ClientType, Opens(c, s),
           v.fd = Len(ipc[Home[c]]) + 1, v.at # "idle", client' = [client EXCEPT ![c] = v],
           c \in Grouping => client[c].at = "idle" /\ v.at = "alloc",
           \A m \in ToSet(s) : m.op \in Voice(c) /\ m.who = c /\ (c \in Grouping => m.op = "group")
    PROVE  OInv'
<1>1. PICK h, new : h = Home[c] /\ new = Len(ipc[h]) + 1
  OBVIOUS
<1>2. h \in Nodes /\ c \notin {None} /\ client \in [Clients -> ClientType]
  BY <1>1, Deployed, Sockets DEF IInv, OInv, TypeInv
<1>3. UNCHANGED <<deployment, inbox, object_group>>
  BY DEF Untouched, groups
<1>4. ipc' = Extend(ipc, h, s) /\ owner' = [owner EXCEPT ![h] = Append(@, c)]
  BY <1>1 DEF Opens, Extend
<1>5. ipc \in SockType /\ owner \in [Nodes -> Seq(Clients \cup {None})] /\ Len(owner[h]) = Len(ipc[h])
  BY <1>2 DEF IInv, TypeInv, OInv, OwnerInv
<1>6. /\ ipc' \in SockType
      /\ \A k \in Nodes : \A f \in DOMAIN ipc[k] : ipc'[k][f] = ipc[k][f]
      /\ \A k \in Nodes : \A f \in DOMAIN ipc'[k] \ DOMAIN ipc[k] : k = h /\ f = new
      /\ ipc'[h][new] = s /\ Len(ipc'[h]) = Len(ipc[h]) + 1
  BY <1>1, <1>2, <1>4, <1>5, Opened
<1>7. \A k \in Nodes : k # h => ipc'[k] = ipc[k] /\ owner'[k] = owner[k]
  BY <1>4, <1>5 DEF Extend, SockType
<1>8. /\ owner'[h] \in Seq(Clients \cup {None}) /\ Len(owner'[h]) = Len(owner[h]) + 1
      /\ DOMAIN owner'[h] = DOMAIN owner[h] \cup {new}
      /\ \A f \in DOMAIN owner[h] : owner'[h][f] = owner[h][f]
      /\ owner'[h][new] = c
  <2>1. owner[h] \in Seq(Clients \cup {None}) /\ owner'[h] = Append(owner[h], c) /\ c \in Clients \cup {None}
    BY <1>2, <1>4, <1>5
  <2>2. PICK S, o : S = Clients \cup {None} /\ o = owner[h]
    OBVIOUS
  <2>3. o \in Seq(S) /\ c \in S /\ owner'[h] = Append(o, c)
    BY <2>1, <2>2
  <2>4. /\ Append(o, c) \in Seq(S) /\ Len(Append(o, c)) = Len(o) + 1
        /\ DOMAIN Append(o, c) = DOMAIN o \cup {Len(o) + 1}
        /\ \A i \in DOMAIN o : Append(o, c)[i] = o[i]
        /\ Append(o, c)[Len(o) + 1] = c
    BY <2>3, AppendSet
  <2> QED BY <1>1, <1>5, <2>2, <2>3, <2>4
<1>9. OwnersGrow
  BY <1>7, <1>8 DEF OwnersGrow
<1>10. Clients' = Clients /\ Home' = Home /\ Grouping' = Grouping /\ Grouping \subseteq Clients
  BY <1>3, Deployment DEF Grouping
<1>11. client'[c] = v /\ \A d \in Clients : d # c => client'[d] = client[d]
  BY <1>2
<1>12. OwnerInv'
  <2>1. owner' \in [Nodes -> Seq(Clients \cup {None})]
    BY <1>4, <1>5, <1>8
  <2>2. \A n \in Nodes : Len(owner'[n]) = Len(ipc'[n]) /\ owner'[n][1] = None
    <3>1. ASSUME NEW n \in Nodes PROVE Len(owner'[n]) = Len(ipc'[n]) /\ owner'[n][1] = None
      <4>1. Len(owner[n]) = Len(ipc[n]) /\ owner[n][1] = None /\ 1 \in DOMAIN owner[n]
        BY Sockets DEF OInv, OwnerInv
      <4>2. CASE n = h
        BY <1>6, <1>8, <4>1, <4>2
      <4>3. CASE n # h
        BY <1>7, <4>1, <4>3
      <4> QED BY <4>2, <4>3
    <3> QED BY <3>1
  <2>3. ASSUME NEW n \in Nodes, NEW f \in DOMAIN owner'[n], owner'[n][f] # None
        PROVE  Home[owner'[n][f]] = n /\ client'[owner'[n][f]].at # "idle"
    <3>1. CASE f \in DOMAIN owner[n]
      <4>1. owner'[n][f] = owner[n][f] /\ owner[n][f] \in Clients
        BY <2>3, <3>1, <1>9, Sockets DEF OwnersGrow, OInv
      <4> QED BY <2>3, <3>1, <4>1, <1>11 DEF OInv, OwnerInv
    <3>2. CASE f \notin DOMAIN owner[n]
      BY <1>1, <1>7, <1>8, <1>11, <3>2
    <3> QED BY <3>1, <3>2
  <2>4. ASSUME NEW d \in Clients, client'[d].at # "idle"
        PROVE  client'[d].fd \in DOMAIN owner'[Home[d]] /\ owner'[Home[d]][client'[d].fd] = d
    <3>1. CASE d = c
      BY <1>1, <1>8, <1>11, <3>1
    <3>2. CASE d # c
      <4>1. Home[d] \in Nodes /\ client'[d] = client[d]
        BY <1>11, <3>2, Deployed DEF IInv
      <4> QED BY <2>4, <4>1, <1>9 DEF OInv, OwnerInv, OwnersGrow
    <3> QED BY <3>1, <3>2
  <2>5. ASSUME NEW d \in Grouping, NEW n \in Nodes, NEW f \in DOMAIN owner'[n], owner'[n][f] = d
        PROVE  f = client'[d].fd
    <3>1. CASE f \in DOMAIN owner[n]
      <4>1. owner[n][f] = d /\ d # None /\ d \in Clients
        BY <2>5, <3>1, <1>9, <1>10, Sockets DEF OwnersGrow, OInv
      <4>2. f = client[d].fd /\ client[d].at # "idle"
        BY <3>1, <4>1 DEF OInv, OwnerInv
      <4>3. d # c
        BY <4>2
      <4> QED BY <4>1, <4>2, <4>3, <1>11
    <3>2. CASE f \notin DOMAIN owner[n]
      BY <1>1, <1>7, <1>8, <1>11, <2>5, <3>2, SMTT(30)
    <3> QED BY <3>1, <3>2
  <2> QED BY <1>10, <2>1, <2>2, <2>3, <2>4, <2>5 DEF OwnerInv
<1>13. \A k \in Nodes : \A f \in DOMAIN ipc'[k] : \A m \in ToSet(ipc'[k][f]) :
         \/ f \in DOMAIN ipc[k] /\ m \in ToSet(ipc[k][f])
         \/ /\ owner'[k][f] = c
            /\ m.op \in Voice(c) /\ m.who = c /\ (c \in Grouping => m.op = "group")
  <2>1. ASSUME NEW k \in Nodes, NEW f \in DOMAIN ipc'[k], NEW m \in ToSet(ipc'[k][f]),
               ~(f \in DOMAIN ipc[k] /\ m \in ToSet(ipc[k][f]))
        PROVE  owner'[k][f] = c /\ m \in ToSet(s)
    BY <1>6, <1>8, <2>1
  <2> QED BY <2>1
<1>14. SpeechInv'
  BY <1>3, <1>9, <1>13, SpeechStays DEF OInv
<1>15. QuietInv'
  BY <1>3, <1>10, <1>11 DEF OInv, QuietInv
<1>16. \A d \in Grouping :
         \/ d # c /\ client'[d] = client[d]
         \/ inbox'[d] = <<>> /\ client'[d].at \in {"idle", "alloc"}
  <2>1. ASSUME NEW d \in Grouping, d = c PROVE inbox'[d] = <<>> /\ client'[d].at \in {"idle", "alloc"}
    BY <1>3, <1>11, <2>1 DEF OInv, QuietInv
  <2> QED BY <1>10, <1>11, <2>1
<1>17. GroupSockets'
  <2>1. \A k \in Nodes : \A f \in object_group[k] : f \in object_group'[k]
    BY <1>3
  <2>2. \A k \in Nodes : \A f \in DOMAIN ipc'[k] : \A m \in ToSet(ipc'[k][f]) :
          \/ f \in DOMAIN ipc[k] /\ m \in ToSet(ipc[k][f])
          \/ m.op = "group" \/ owner'[k][f] \notin Grouping \/ f \in object_group'[k]
    BY <1>13
  <2>3. \A d \in Grouping :
             \/ /\ inbox'[d] # <<>> => inbox[d] # <<>>
                /\ client'[d].fd = client[d].fd
                /\ client'[d].at \notin {"idle", "alloc"} => client[d].at \notin {"idle", "alloc"} \/ inbox[d] # <<>>
             \/ client'[d].fd \in object_group'[Home[d]]
             \/ inbox'[d] = <<>> /\ client'[d].at \in {"idle", "alloc"}
    BY <1>3, <1>16
  <2> QED BY <1>3, <1>9, <2>1, <2>2, <2>3, GroupsStay DEF OInv
<1>18. KindInv' /\ EndsInv'
  BY <1>9, ProgramKeeps
<1> QED BY <1>12, <1>14, <1>15, <1>17, <1>18 DEF OInv

\* Client c becomes v, with messages s more on its socket.
LEMMA SaysO ==
    ASSUME IInv, OInv, Untouched, NEW c \in Clients, client[c].at # "idle", NEW s \in Seq(Msg), Says(c, s),
           NEW v \in ClientType, v.fd = client[c].fd, v.at # "idle", client' = [client EXCEPT ![c] = v],
           c \in Grouping => client[c].at # "alloc",
           \A m \in ToSet(s) : m.op \in Voice(c) /\ m.who = c
    PROVE  OInv'
<1>1. PICK h, f : h = Home[c] /\ f = client[c].fd
  OBVIOUS
<1>2. h \in Nodes /\ client \in [Clients -> ClientType] /\ ipc \in SockType
  BY <1>1, Deployed DEF IInv, TypeInv
<1>3. UNCHANGED <<deployment, inbox, object_group, owner>>
  BY DEF Untouched, groups, Says
<1>4. f \in DOMAIN ipc[h] /\ owner[h][f] = c
  <2>1. DOMAIN owner[h] = DOMAIN ipc[h]
    BY <1>2, Sockets DEF OInv
  <2> QED BY <1>1, <2>1 DEF OInv, OwnerInv
<1>5. ipc' = Replace(ipc, h, f, ipc[h][f] \o s)
  BY <1>1 DEF Says, Replace
<1>6. ipc[h][f] \in Seq(Msg)
  BY <1>2, <1>4 DEF SockType
<1>7. PICK t : t = ipc[h][f] \o s
  OBVIOUS
<1>8. t \in Seq(Msg) /\ ToSet(t) \subseteq ToSet(ipc[h][f]) \cup ToSet(s)
  BY <1>6, <1>7, CatSet
<1>9. /\ ipc' \in SockType /\ \A k \in Nodes : DOMAIN ipc'[k] = DOMAIN ipc[k]
      /\ ipc'[h][f] = t
      /\ \A k \in Nodes : \A g \in DOMAIN ipc[k] : k # h \/ g # f => ipc'[k][g] = ipc[k][g]
  <2>1. ipc' = Replace(ipc, h, f, t)
    BY <1>5, <1>7
  <2> QED BY <1>2, <1>4, <1>8, <2>1, Replaced
<1>10. OwnersGrow
  BY <1>3, OwnersSame
<1>11. client'[c] = v /\ \A d \in Clients : d # c => client'[d] = client[d]
  BY <1>2
<1>12. OwnerInv'
  <2>1. \A k \in Nodes : Len(ipc'[k]) = Len(ipc[k])
    BY <1>2, <1>9 DEF SockType
  <2>2. \A d \in Clients : client'[d].fd = client[d].fd /\ (client'[d].at = "idle" <=> client[d].at = "idle")
    BY <1>11
  <2> QED BY <1>3, <2>1, <2>2, OwnersStay DEF OInv
<1>13. \A k \in Nodes : \A g \in DOMAIN ipc'[k] : \A m \in ToSet(ipc'[k][g]) :
         \/ g \in DOMAIN ipc[k] /\ m \in ToSet(ipc[k][g])
         \/ k = h /\ g = f /\ m \in ToSet(s)
  BY <1>8, <1>9
<1>14. SpeechInv'
  BY <1>3, <1>4, <1>10, <1>13, SpeechStays DEF OInv
<1>15. QuietInv'
  BY <1>3, <1>11, Deployment DEF OInv, QuietInv
<1>16. GroupSockets'
  <2>1. c \in Grouping => f \in object_group[h]
    BY <1>1 DEF OInv, GroupSockets
  <2>2. \A k \in Nodes : \A g \in DOMAIN ipc'[k] : \A m \in ToSet(ipc'[k][g]) :
          \/ g \in DOMAIN ipc[k] /\ m \in ToSet(ipc[k][g])
          \/ m.op = "group" \/ owner'[k][g] \notin Grouping \/ g \in object_group'[k]
    BY <1>3, <1>4, <1>13, <2>1
  <2>3. \A d \in Grouping :
             \/ /\ inbox'[d] # <<>> => inbox[d] # <<>>
                /\ client'[d].fd = client[d].fd
                /\ client'[d].at \notin {"idle", "alloc"} => client[d].at \notin {"idle", "alloc"} \/ inbox[d] # <<>>
             \/ client'[d].fd \in object_group'[Home[d]]
             \/ inbox'[d] = <<>> /\ client'[d].at \in {"idle", "alloc"}
    BY <1>1, <1>3, <1>11, <2>1 DEF Grouping
  <2>4. \A k \in Nodes : object_group[k] \subseteq object_group'[k] /\ object_group'[k] = object_group[k]
    BY <1>3
  <2> QED BY <1>3, <1>10, <2>2, <2>3, <2>4, GroupsStay DEF OInv
<1>17. KindInv' /\ EndsInv'
  BY <1>10, ProgramKeeps
<1> QED BY <1>12, <1>14, <1>15, <1>16, <1>17 DEF OInv

\* The programs ask for objects and groups over sockets of their own.
LEMMA AllocateO ==
    ASSUME IInv, OInv, NEW c \in Clients, Allocate(c) \/ AllocateGroup(c)
    PROVE  OInv'
<1>1. client[c] \in ClientType /\ c \in Everyone /\ Home[c] \in Nodes /\ deployment[c].node \in Nat
  BY Deployed DEF IInv
<1>2. PICK new : new = Len(ipc[Home[c]]) + 1
  OBVIOUS
<1>3. new \in Nat
  BY <1>1, <1>2 DEF IInv, TypeInv, SockType
<1>4. c # None
  BY Sockets DEF OInv
<1>5. CASE Allocate(c)
  <2>1. PICK m, v : /\ m = Message("alloc", c, 0, TRUE, deployment[c].node, 0)
                    /\ v = [client[c] EXCEPT !.at = "alloc", !.node = deployment[c].node, !.fd = new]
    OBVIOUS
  <2>2. /\ Untouched /\ Opens(c, <<m>>) /\ client' = [client EXCEPT ![c] = v] /\ c \notin Grouping
    BY <1>2, <1>5, <2>1 DEF Allocate, Grouping
  <2>3. m \in Msg /\ m.op = "alloc" /\ m.who = c
    BY <1>1, <2>1 DEF Msg, Message, Ops
  <2>4. v \in ClientType /\ v.fd = new /\ v.at # "idle"
    BY <1>1, <1>3, <2>1 DEF ClientType
  <2>5. <<m>> \in Seq(Msg)
    BY <2>3
  <2>6. ToSet(<<m>>) = {m}
    BY DEF ToSet
  <2>7. m.op \in Voice(c)
    BY <1>4, <2>2, <2>3 DEF Voice
  <2> QED BY <1>2, <2>2, <2>3, <2>4, <2>5, <2>6, <2>7, OpensO
<1>6. CASE AllocateGroup(c)
  <2>1. PICK m, v : /\ m = Message("group", c, 0, TRUE, 0, 0)
                    /\ v = [client[c] EXCEPT !.at = "alloc", !.fd = new]
    OBVIOUS
  <2>2. /\ Untouched /\ Opens(c, <<m>>) /\ client' = [client EXCEPT ![c] = v] /\ c \in Grouping
        /\ client[c].at = "idle"
    BY <1>2, <1>6, <2>1 DEF AllocateGroup
  <2>3. m \in Msg /\ m.op = "group" /\ m.who = c
    BY <1>1, <2>1 DEF Msg, Message, Ops
  <2>4. v \in ClientType /\ v.fd = new /\ v.at = "alloc"
    BY <1>1, <1>3, <2>1 DEF ClientType
  <2>5. <<m>> \in Seq(Msg)
    BY <2>3
  <2>6. ToSet(<<m>>) = {m}
    BY DEF ToSet
  <2>7. m.op \in Voice(c)
    BY <1>4, <2>2, <2>3 DEF Voice
  <2> QED BY <1>2, <2>2, <2>3, <2>4, <2>5, <2>6, <2>7, OpensO
<1> QED BY <1>5, <1>6

\* So they bind.
LEMMA BindO ==
    ASSUME IInv, OInv, NEW c \in Clients, NEW o \in objects, Bind(c, o)
    PROVE  OInv'
<1>1. PICK h, new : h = Home[c] /\ new = Len(ipc[h]) + 1
  OBVIOUS
<1>2. PICK y, m : /\ y = Message("connect", c, 0, FALSE, DestNode(o.node, o.id), o.id)
                  /\ m = Message("call", c, 1, TRUE, o.node, o.id)
  OBVIOUS
<1>3. PICK v : v = [at |-> "wait", fd |-> new, node |-> o.node, id |-> o.id, n |-> 1, post |-> FALSE]
  OBVIOUS
<1>4. h \in Nodes /\ new \in Nat /\ c \in Everyone /\ c # None
  <2>1. h \in Nodes /\ c \in Everyone
    BY <1>1, Deployed DEF IInv
  <2>2. new \in Nat
    BY <1>1, <2>1 DEF IInv, TypeInv, SockType
  <2> QED BY <2>1, <2>2, Sockets DEF OInv
<1>5. o.node \in Nodes /\ o.node \in Nat /\ o.id \in Nat
  BY InterconnectorAssumption DEF IInv, TypeInv, Nodes
<1>6. DestNode(o.node, o.id) \in Nat
  BY <1>5, DestNodeNat
<1>7. y \in Msg /\ m \in Msg /\ y.op = "connect" /\ m.op = "call" /\ y.who = c /\ m.who = c
  BY <1>2, <1>4, <1>5, <1>6 DEF Msg, Message, Ops
<1>8. v \in ClientType /\ v.fd = new /\ v.at # "idle"
  BY <1>3, <1>4, <1>5 DEF ClientType
<1>9. /\ Untouched /\ c \notin Grouping /\ Opens(c, <<y, m>>)
      /\ client' = [client EXCEPT ![c] = v]
  BY <1>1, <1>2, <1>3 DEF Bind
<1>10. <<y, m>> \in Seq(Msg)
  BY <1>7
<1>11. ToSet(<<y, m>>) = {y, m}
  BY DEF ToSet
<1>12. y.op \in Voice(c) /\ m.op \in Voice(c)
  BY <1>4, <1>7, <1>9 DEF Voice
<1> QED BY <1>1, <1>7, <1>8, <1>9, <1>10, <1>11, <1>12, OpensO

\* A call goes over the socket of its client.
LEMMA CallO ==
    ASSUME IInv, OInv, NEW c \in Clients, NEW sync \in BOOLEAN, Call(c, sync)
    PROVE  OInv'
<1>1. client[c] \in ClientType /\ c \in Everyone /\ c # None
  BY Deployed, Sockets DEF IInv, OInv
<1>2. PICK m : m = Message("call", c, client[c].n + 1, sync, client[c].node, client[c].id)
  OBVIOUS
<1>3. m \in Msg /\ m.op = "call" /\ m.who = c
  BY <1>1, <1>2 DEF Msg, Message, Ops, ClientType
<1>4. PICK v : v = [client[c] EXCEPT !.n = @ + 1, !.at = IF sync THEN "wait" ELSE "bound"]
  OBVIOUS
<1>5. v \in ClientType /\ v.fd = client[c].fd /\ v.at # "idle"
  <2>1. client[c].n + 1 \in Nat
    BY <1>1 DEF ClientType
  <2>2. CASE sync
    BY <1>1, <1>4, <2>1, <2>2 DEF ClientType
  <2>3. CASE ~sync
    BY <1>1, <1>4, <2>1, <2>3 DEF ClientType
  <2> QED BY <2>2, <2>3
<1>6. /\ client[c].at = "bound" /\ Untouched /\ Says(c, <<m>>) /\ c \notin Grouping
      /\ client' = [client EXCEPT ![c] = v]
  BY <1>2, <1>4 DEF Call
<1>7. <<m>> \in Seq(Msg)
  BY <1>3
<1>8. ToSet(<<m>>) = {m}
  BY DEF ToSet
<1>9. m.op \in Voice(c)
  BY <1>1, <1>3, <1>6 DEF Voice
<1> QED BY <1>3, <1>5, <1>6, <1>7, <1>8, <1>9, SaysO

\* What a call of a group puts on its socket.
GroupSaying(target, r, m) == IF target = All THEN <<m>> ELSE <<r, m>>

LEMMA GroupSaid ==
    ASSUME NEW target, NEW r \in Msg, NEW m \in Msg
    PROVE  GroupSaying(target, r, m) \in Seq(Msg) /\ ToSet(GroupSaying(target, r, m)) \subseteq {r, m}
<1>1. <<m>> \in Seq(Msg) /\ <<r, m>> \in Seq(Msg)
  OBVIOUS
<1>2. ToSet(<<m>>) = {m} /\ ToSet(<<r, m>>) = {r, m}
  BY DEF ToSet
<1> QED BY <1>1, <1>2 DEF GroupSaying

\* Calls and finalize of a group.
LEMMA GroupCallO ==
    ASSUME IInv, OInv, NEW c \in Clients, NEW target \in 0 .. All, NEW sync \in BOOLEAN, GroupCall(c, target, sync)
    PROVE  OInv'
<1>1. client[c] \in ClientType /\ c \in Everyone /\ c # None /\ target \in Nat
  BY Deployed, Sockets, InterconnectorAssumption DEF IInv, OInv, All
<1>2. PICK m, r : /\ m = Message("call", c, client[c].n + 1, sync, target, 0)
                  /\ r = Message("rank", c, 0, FALSE, target, target)
  OBVIOUS
<1>3. m \in Msg /\ m.op = "call" /\ m.who = c /\ r \in Msg /\ r.op = "rank" /\ r.who = c
  BY <1>1, <1>2 DEF Msg, Message, Ops, ClientType
<1>4. PICK v : v = [client[c] EXCEPT !.n = @ + 1, !.at = IF sync THEN "wait" ELSE "bound", !.post = @ \/ ~sync]
  OBVIOUS
<1>5. v \in ClientType /\ v.fd = client[c].fd /\ v.at # "idle"
  <2>1. client[c].n + 1 \in Nat /\ client[c].post \in BOOLEAN
    BY <1>1 DEF ClientType
  <2>2. CASE sync
    BY <1>1, <1>4, <2>1, <2>2 DEF ClientType
  <2>3. CASE ~sync
    BY <1>1, <1>4, <2>1, <2>3 DEF ClientType
  <2> QED BY <2>2, <2>3
<1>6. /\ client[c].at = "bound" /\ Untouched /\ Says(c, GroupSaying(target, r, m)) /\ c \in Grouping
      /\ client' = [client EXCEPT ![c] = v]
  BY <1>2, <1>4 DEF GroupCall, GroupSaying
<1>7. m.op \in Voice(c) /\ r.op \in Voice(c)
  BY <1>1, <1>3, <1>6 DEF Voice
<1>8. PICK s : s = GroupSaying(target, r, m)
  OBVIOUS
<1>9. s \in Seq(Msg) /\ ToSet(s) \subseteq {r, m}
  BY <1>3, <1>8, GroupSaid
<1>10. \A x \in ToSet(s) : x.op \in Voice(c) /\ x.who = c
  BY <1>3, <1>7, <1>9
<1> QED BY <1>5, <1>6, <1>8, <1>9, <1>10, SaysO

LEMMA FinalizeO ==
    ASSUME IInv, OInv, NEW c \in Clients, Finalize(c)
    PROVE  OInv'
<1>1. client[c] \in ClientType /\ c \in Everyone /\ c # None /\ All \in Nat
  BY Deployed, Sockets, InterconnectorAssumption DEF IInv, OInv, All
<1>2. PICK m : m = Message("final", c, client[c].n + 1, TRUE, All, 0)
  OBVIOUS
<1>3. m \in Msg /\ m.op = "final" /\ m.who = c
  BY <1>1, <1>2 DEF Msg, Message, Ops, ClientType
<1>4. PICK v : v = [client[c] EXCEPT !.n = @ + 1, !.at = "final"]
  OBVIOUS
<1>5. v \in ClientType /\ v.fd = client[c].fd /\ v.at # "idle"
  <2>1. client[c].n + 1 \in Nat
    BY <1>1 DEF ClientType
  <2> QED BY <1>1, <1>4, <2>1 DEF ClientType
<1>6. /\ client[c].at = "bound" /\ Untouched /\ Says(c, <<m>>) /\ c \in Grouping
      /\ client' = [client EXCEPT ![c] = v]
  BY <1>2, <1>4 DEF Finalize
<1>7. <<m>> \in Seq(Msg)
  BY <1>3
<1>8. ToSet(<<m>>) = {m}
  BY DEF ToSet
<1>9. m.op \in Voice(c)
  BY <1>1, <1>3, <1>6 DEF Voice
<1> QED BY <1>3, <1>5, <1>6, <1>7, <1>8, <1>9, SaysO

\* A client reads.
LEMMA ReadO ==
    ASSUME IInv, OInv, NEW c \in Clients, Read(c)
    PROVE  OInv'
<1>1. /\ client[c].at \in {"alloc", "wait", "final"} /\ inbox[c] # <<>>
      /\ inbox' = [inbox EXCEPT ![c] = Tail(@)]
      /\ UNCHANGED <<deployment, main, body, ipc, owner, incomingtag, outgoingconnection, connectionmap,
                     allocation_return, next_tag, allocation_id, serving, recv, overlap>>
      /\ UNCHANGED <<object_group, object_group_single, member, returned, run>>
  BY DEF Read, mpi, local, maps, counters, groups
<1>2. PICK at \in {"bound", "finished", "ready"} : client' = [client EXCEPT ![c].at = at]
  BY <1>1 DEF Read
<1>3. client \in [Clients -> ClientType] /\ inbox \in [Clients -> Seq(Msg)]
  BY DEF IInv, TypeInv, OInv, KindInv
<1>4. /\ client'[c].fd = client[c].fd /\ client'[c].at = at
      /\ \A d \in Clients : d # c => client'[d] = client[d] /\ inbox'[d] = inbox[d]
  BY <1>1, <1>2, <1>3 DEF ClientType
<1>5. inbox' \in [Clients -> Seq(Msg)]
  BY <1>1, <1>3
<1>6. OwnersGrow
  BY <1>1, OwnersSame
<1>7. OwnerInv'
  <2>1. \A d \in Clients : client'[d].fd = client[d].fd /\ (client'[d].at = "idle" <=> client[d].at = "idle")
    BY <1>1, <1>4
  <2> QED BY <1>1, <2>1, OwnersStay DEF OInv
<1>8. KindInv'
  BY <1>1, <1>5, Deployment DEF OInv, KindInv
<1>9. QuietInv'
  BY <1>1, <1>4, Deployment DEF OInv, QuietInv
<1>10. SpeechInv'
  BY <1>1, <1>6, SpeechStays DEF OInv
<1>11. EndsInv'
  BY <1>1, <1>6, TagsStay, ReturnsStay, ConnsStay, AddressesStay DEF OInv, EndsInv
<1>12. GroupSockets'
  <2>1. \A d \in Grouping :
             \/ /\ inbox'[d] # <<>> => inbox[d] # <<>>
                /\ client'[d].fd = client[d].fd
                /\ client'[d].at \notin {"idle", "alloc"} => client[d].at \notin {"idle", "alloc"} \/ inbox[d] # <<>>
             \/ client'[d].fd \in object_group'[Home[d]]
             \/ inbox'[d] = <<>> /\ client'[d].at \in {"idle", "alloc"}
    BY <1>1, <1>4 DEF Grouping
  <2> QED BY <1>1, <1>6, <2>1, GroupsStay DEF OInv
<1> QED BY <1>7, <1>8, <1>9, <1>10, <1>11, <1>12 DEF OInv

-----------------------------------------------------------------------------
(* The interconnectors and the objects. *)

InnerVoice == {"call", "answer", "terminate", "allocation", "request"}

\* A step of these leaves the clients alone; they open sockets and speak on
\* sockets no client is at, and pass answers to clients that asked.
LEMMA StepO ==
    ASSUME IInv, OInv, UNCHANGED <<deployment, client>>, OwnersGrow, KindInv', EndsInv',
           owner' \in [Nodes -> Seq(Clients \cup {None})], \A k \in Nodes : Len(owner'[k]) = Len(ipc'[k]),
           \A k \in Nodes : \A f \in DOMAIN owner'[k] : f \in DOMAIN owner[k] \/ owner'[k][f] = None,
           \A k \in Nodes : \A f \in DOMAIN ipc'[k] : \A m \in ToSet(ipc'[k][f]) :
             \/ f \in DOMAIN ipc[k] /\ m \in ToSet(ipc[k][f])
             \/ owner'[k][f] = None /\ m.op \in InnerVoice,
           \A k \in Nodes : object_group[k] \subseteq object_group'[k],
           \A k \in Nodes : \A f \in object_group'[k] :
             f \in object_group[k] \/ (f \in DOMAIN owner'[k] /\ owner'[k][f] \in Grouping),
           \A c \in Clients :
             \/ inbox'[c] = inbox[c]
             \/ client[c].at # "idle" /\ (c \in Grouping => client[c].fd \in object_group'[Home[c]])
    PROVE  OInv'
<1>1. Clients' = Clients /\ Home' = Home /\ Grouping' = Grouping
  BY Deployment
<1>2. None \notin Clients /\ Grouping \subseteq Clients
  BY Sockets DEF OInv
<1>3. OwnerInv'
  <2>1. \A n \in Nodes : owner'[n][1] = None
    BY Sockets DEF OInv, OwnerInv, OwnersGrow
  <2>2. ASSUME NEW n \in Nodes, NEW f \in DOMAIN owner'[n], owner'[n][f] # None
        PROVE  Home[owner'[n][f]] = n /\ client[owner'[n][f]].at # "idle"
    BY <2>2 DEF OInv, OwnerInv, OwnersGrow
  <2>3. ASSUME NEW c \in Clients, client[c].at # "idle"
        PROVE  client[c].fd \in DOMAIN owner'[Home[c]] /\ owner'[Home[c]][client[c].fd] = c
    <3>1. Home[c] \in Nodes
      BY Deployed DEF IInv
    <3> QED BY <2>3, <3>1 DEF OInv, OwnerInv, OwnersGrow
  <2>4. ASSUME NEW c \in Grouping, NEW n \in Nodes, NEW f \in DOMAIN owner'[n], owner'[n][f] = c
        PROVE  f = client[c].fd
    BY <1>2, <2>4 DEF OInv, OwnerInv, OwnersGrow
  <2> QED BY <1>1, <2>1, <2>2, <2>3, <2>4 DEF OwnerInv
<1>4. SpeechInv'
  <2>1. \A k \in Nodes : \A f \in DOMAIN ipc'[k] : \A m \in ToSet(ipc'[k][f]) :
             \/ f \in DOMAIN ipc[k] /\ m \in ToSet(ipc[k][f])
             \/ m.op \in Voice(owner'[k][f]) /\ (owner'[k][f] # None => m.who = owner'[k][f])
    BY DEF Voice, InnerVoice
  <2> QED BY <2>1, SpeechStays DEF OInv
<1>5. GroupSockets'
  <2>1. \A k \in Nodes : \A f \in DOMAIN ipc'[k] : \A m \in ToSet(ipc'[k][f]) :
             \/ f \in DOMAIN ipc[k] /\ m \in ToSet(ipc[k][f])
             \/ m.op = "group" \/ owner'[k][f] \notin Grouping \/ f \in object_group'[k]
    BY <1>2
  <2>2. \A c \in Grouping :
             \/ /\ inbox'[c] # <<>> => inbox[c] # <<>>
                /\ client'[c].fd = client[c].fd
                /\ client'[c].at \notin {"idle", "alloc"} => client[c].at \notin {"idle", "alloc"} \/ inbox[c] # <<>>
             \/ client'[c].fd \in object_group'[Home[c]]
             \/ inbox'[c] = <<>> /\ client'[c].at \in {"idle", "alloc"}
    BY <1>2
  <2> QED BY <2>1, <2>2, GroupsStay DEF OInv
<1>6. QuietInv'
  BY <1>1 DEF OInv, QuietInv
<1> QED BY <1>3, <1>4, <1>5, <1>6 DEF OInv

\* The same when no socket is opened.
LEMMA TurnO ==
    ASSUME IInv, OInv, UNCHANGED <<deployment, client, owner>>, KindInv', EndsInv', ipc' \in SockType,
           \A k \in Nodes : DOMAIN ipc'[k] = DOMAIN ipc[k],
           \A k \in Nodes : \A f \in DOMAIN ipc[k] : \A m \in ToSet(ipc'[k][f]) :
             \/ m \in ToSet(ipc[k][f])
             \/ owner[k][f] = None /\ m.op \in InnerVoice,
           \A k \in Nodes : object_group[k] \subseteq object_group'[k],
           \A k \in Nodes : \A f \in object_group'[k] :
             f \in object_group[k] \/ (f \in DOMAIN owner[k] /\ owner[k][f] \in Grouping),
           \A c \in Clients :
             \/ inbox'[c] = inbox[c]
             \/ client[c].at # "idle" /\ (c \in Grouping => client[c].fd \in object_group'[Home[c]])
    PROVE  OInv'
<1>1. OwnersGrow
  BY OwnersSame
<1>2. \A k \in Nodes : Len(ipc'[k]) = Len(ipc[k])
  BY DEF IInv, TypeInv, SockType
<1>3. owner' \in [Nodes -> Seq(Clients \cup {None})] /\ \A k \in Nodes : Len(owner'[k]) = Len(ipc'[k])
  BY <1>2 DEF OInv, OwnerInv
<1> QED BY <1>1, <1>3, StepO

\* What taking a message does to the sockets.
LEMMA TakeShape ==
    ASSUME IInv, NEW n \in Nodes, NEW fd, NEW ops, Takes(n, fd, ops), ipc' = Taken(n, fd)
    PROVE  /\ fd \in DOMAIN ipc[n] /\ ipc[n][fd] \in Seq(Msg) /\ ipc[n][fd] # <<>>
           /\ ipc' \in SockType /\ \A k \in Nodes : DOMAIN ipc'[k] = DOMAIN ipc[k]
           /\ ipc'[n][fd] = Tail(ipc[n][fd])
           /\ \A k \in Nodes : \A f \in DOMAIN ipc[k] : k # n \/ f # fd => ipc'[k][f] = ipc[k][f]
           /\ \A k \in Nodes : \A f \in DOMAIN ipc[k] : ToSet(ipc'[k][f]) \subseteq ToSet(ipc[k][f])
<1>1. ipc \in SockType /\ fd \in DOMAIN ipc[n] /\ ipc[n][fd] # <<>>
  BY DEF IInv, TypeInv, Takes
<1>2. ipc[n][fd] \in Seq(Msg)
  BY <1>1 DEF SockType
<1>3. PICK t : t = Tail(ipc[n][fd])
  OBVIOUS
<1>4. t \in Seq(Msg) /\ ToSet(t) \subseteq ToSet(ipc[n][fd])
  BY <1>1, <1>2, <1>3, TailSet
<1>5. ipc' = Replace(ipc, n, fd, t)
  BY <1>3 DEF Taken, Replace
<1>6. /\ ipc' \in SockType /\ \A k \in Nodes : DOMAIN ipc'[k] = DOMAIN ipc[k]
      /\ ipc'[n][fd] = t
      /\ \A k \in Nodes : \A f \in DOMAIN ipc[k] : k # n \/ f # fd => ipc'[k][f] = ipc[k][f]
  BY <1>1, <1>4, <1>5, Replaced
<1>7. \A k \in Nodes : \A f \in DOMAIN ipc[k] : ToSet(ipc'[k][f]) \subseteq ToSet(ipc[k][f])
  BY <1>4, <1>6
<1> QED BY <1>1, <1>2, <1>3, <1>6, <1>7

\* What putting a message on a socket does.
LEMMA PushShape ==
    ASSUME IInv, NEW n \in Nodes, NEW fd \in DOMAIN ipc[n], NEW m \in Msg,
           ipc' = Replace(ipc, n, fd, Append(ipc[n][fd], m))
    PROVE  /\ ipc[n][fd] \in Seq(Msg)
           /\ ipc' \in SockType /\ \A k \in Nodes : DOMAIN ipc'[k] = DOMAIN ipc[k]
           /\ ipc'[n][fd] = Append(ipc[n][fd], m)
           /\ \A k \in Nodes : \A f \in DOMAIN ipc[k] : k # n \/ f # fd => ipc'[k][f] = ipc[k][f]
           /\ \A k \in Nodes : \A f \in DOMAIN ipc[k] : \A x \in ToSet(ipc'[k][f]) :
                x \in ToSet(ipc[k][f]) \/ (k = n /\ f = fd /\ x = m)
<1>1. ipc \in SockType /\ ipc[n][fd] \in Seq(Msg)
  BY DEF IInv, TypeInv, SockType
<1>2. PICK t : t = Append(ipc[n][fd], m)
  OBVIOUS
<1>3. t \in Seq(Msg) /\ ToSet(t) \subseteq ToSet(ipc[n][fd]) \cup {m}
  BY <1>1, <1>2, AppendSet
<1>4. ipc' = Replace(ipc, n, fd, t)
  BY <1>2
<1>5. ipc' \in SockType /\ ipc'[n][fd] = t
  BY <1>1, <1>3, <1>4, Replaced
<1>6. \A k \in Nodes : DOMAIN ipc'[k] = DOMAIN ipc[k]
  BY <1>1, <1>3, <1>4, Replaced
<1>7. \A k \in Nodes : \A f \in DOMAIN ipc[k] : k # n \/ f # fd => ipc'[k][f] = ipc[k][f]
  BY <1>1, <1>3, <1>4, Replaced
<1>8. \A k \in Nodes : \A f \in DOMAIN ipc[k] : \A x \in ToSet(ipc'[k][f]) :
        x \in ToSet(ipc[k][f]) \/ (k = n /\ f = fd /\ x = m)
  BY <1>3, <1>5, <1>7
<1> QED BY <1>1, <1>2, <1>5, <1>6, <1>7, <1>8

\* The main program ends: a socket with one message.
LEMMA ProgramTerminatesO ==
    ASSUME IInv, OInv, ProgramTerminates
    PROVE  OInv'
<1>1. PICK w : w = Wake("terminate", 0, 0)
  OBVIOUS
<1>2. 0 \in Nodes /\ w \in Msg /\ w.op = "terminate"
  BY <1>1, InterconnectorAssumption DEF Nodes, Wake, Message, Msg, Ops
<1>3. /\ ipc' = Extend(ipc, 0, <<w>>) /\ owner' = [owner EXCEPT ![0] = Append(owner[0], None)]
      /\ UNCHANGED <<deployment, main, body, incomingtag, outgoingconnection, connectionmap, client, inbox,
                     allocation_return, next_tag, allocation_id, serving, recv, overlap>>
      /\ UNCHANGED <<object_group, object_group_single, member, returned, run>>
  BY <1>1 DEF ProgramTerminates, Extend, mpi, maps, counters, groups
<1>4. PICK new : new = Len(ipc[0]) + 1
  OBVIOUS
<1>5. ipc \in SockType /\ owner \in [Nodes -> Seq(Clients \cup {None})] /\ \A k \in Nodes : Len(owner[k]) = Len(ipc[k])
  BY DEF IInv, TypeInv, OInv, OwnerInv
<1>6. <<w>> \in Seq(Msg) /\ ToSet(<<w>>) = {w}
  <2>1. <<w>> \in Seq(Msg)
    BY <1>2
  <2> QED BY <2>1 DEF ToSet
<1>7. /\ \A k \in Nodes : \A f \in DOMAIN ipc[k] : ipc'[k][f] = ipc[k][f]
      /\ \A k \in Nodes : \A f \in DOMAIN ipc'[k] \ DOMAIN ipc[k] : k = 0 /\ f = new
      /\ ipc'[0][new] = <<w>> /\ Len(ipc'[0]) = Len(ipc[0]) + 1
  <2>1. PICK s : s = <<w>>
    OBVIOUS
  <2>2. s \in Seq(Msg) /\ ipc \in SockType /\ 0 \in Nodes /\ ipc' = Extend(ipc, 0, s)
    BY <1>2, <1>3, <1>5, <1>6, <2>1
  <2>3. /\ \A k \in Nodes : \A f \in DOMAIN ipc[k] : ipc'[k][f] = ipc[k][f]
        /\ \A k \in Nodes : \A f \in DOMAIN ipc'[k] \ DOMAIN ipc[k] : k = 0 /\ f = Len(ipc[0]) + 1
        /\ ipc'[0][Len(ipc[0]) + 1] = s /\ Len(ipc'[0]) = Len(ipc[0]) + 1
    BY <2>2, Opened
  <2> QED BY <1>4, <2>1, <2>3
<1>8. \A k \in Nodes : k # 0 => ipc'[k] = ipc[k] /\ owner'[k] = owner[k]
  BY <1>3, <1>5 DEF Extend, SockType
<1>9. /\ owner'[0] \in Seq(Clients \cup {None}) /\ Len(owner'[0]) = Len(owner[0]) + 1
      /\ DOMAIN owner'[0] = DOMAIN owner[0] \cup {new}
      /\ \A f \in DOMAIN owner[0] : owner'[0][f] = owner[0][f]
      /\ owner'[0][new] = None
  <2>1. PICK S, o : S = Clients \cup {None} /\ o = owner[0]
    OBVIOUS
  <2>2. o \in Seq(S) /\ None \in S /\ owner'[0] = Append(o, None)
    BY <1>2, <1>3, <1>5, <2>1
  <2>3. /\ Append(o, None) \in Seq(S) /\ Len(Append(o, None)) = Len(o) + 1
        /\ DOMAIN Append(o, None) = DOMAIN o \cup {Len(o) + 1}
        /\ \A i \in DOMAIN o : Append(o, None)[i] = o[i]
        /\ Append(o, None)[Len(o) + 1] = None
    BY <2>2, AppendSet
  <2> QED BY <1>2, <1>4, <1>5, <2>1, <2>2, <2>3
<1>10. OwnersGrow
  BY <1>8, <1>9 DEF OwnersGrow
<1>11. /\ owner' \in [Nodes -> Seq(Clients \cup {None})] /\ \A k \in Nodes : Len(owner'[k]) = Len(ipc'[k])
       /\ \A k \in Nodes : \A f \in DOMAIN owner'[k] : f \in DOMAIN owner[k] \/ owner'[k][f] = None
  BY <1>3, <1>5, <1>7, <1>8, <1>9
<1>12. \A k \in Nodes : \A f \in DOMAIN ipc'[k] : \A m \in ToSet(ipc'[k][f]) :
             \/ f \in DOMAIN ipc[k] /\ m \in ToSet(ipc[k][f])
             \/ owner'[k][f] = None /\ m.op \in InnerVoice
  BY <1>2, <1>6, <1>7, <1>9 DEF InnerVoice
<1>13. KindInv'
  BY <1>3, Deployment DEF OInv, KindInv
<1>14. EndsInv'
  BY <1>3, <1>10, TagsStay, ReturnsStay, ConnsStay, AddressesStay DEF OInv, EndsInv
<1> QED BY <1>3, <1>10, <1>11, <1>12, <1>13, <1>14, StepO

\* An object answers over the connection the request came on.
LEMMA ObjectServesO ==
    ASSUME IInv, OInv, ObjectServes
    PROVE  OInv'
<1>1. PICK r \in serving :
        /\ serving' = serving \ {r}
        /\ ipc' = IF r.m.sync
                  THEN [ipc EXCEPT ![r.node][r.fd] = Append(@, [r.m EXCEPT !.op = "answer"])] ELSE ipc
        /\ UNCHANGED <<deployment, main, body, owner, incomingtag, outgoingconnection, connectionmap, client, inbox,
                       allocation_return, next_tag, allocation_id, recv, overlap>>
        /\ UNCHANGED <<object_group, object_group_single, member, returned, run>>
  BY DEF ObjectServes, mpi, maps, counters, groups
<1>2. r.node \in Nodes /\ r.fd \in DOMAIN ipc[r.node] /\ r.m \in Msg /\ owner[r.node][r.fd] = None
  BY DEF IInv, RouteInv, ObjectRoute, OInv, EndsInv, ConnEnds, Inner
<1>3. PICK k, f, m : k = r.node /\ f = r.fd /\ m = [r.m EXCEPT !.op = "answer"]
  OBVIOUS
<1>4. m \in Msg /\ m.op = "answer" /\ k \in Nodes /\ f \in DOMAIN ipc[k]
  BY <1>2, <1>3 DEF Msg, Ops
<1>5. /\ ipc' \in SockType /\ \A i \in Nodes : DOMAIN ipc'[i] = DOMAIN ipc[i]
      /\ \A i \in Nodes : \A g \in DOMAIN ipc[i] : \A x \in ToSet(ipc'[i][g]) :
             \/ x \in ToSet(ipc[i][g])
             \/ owner[i][g] = None /\ x.op \in InnerVoice
  <2>1. CASE ipc' = ipc
    BY <2>1 DEF IInv, TypeInv
  <2>2. CASE ipc' # ipc
    <3>1. ipc' = Replace(ipc, k, f, Append(ipc[k][f], m))
      BY <1>1, <1>3, <2>2 DEF Replace
    <3>2. ipc' \in SockType
      BY <1>4, <3>1, PushShape
    <3>3. \A i \in Nodes : DOMAIN ipc'[i] = DOMAIN ipc[i]
      BY <1>4, <3>1, PushShape
    <3>4. \A i \in Nodes : \A g \in DOMAIN ipc[i] : \A x \in ToSet(ipc'[i][g]) :
             x \in ToSet(ipc[i][g]) \/ (i = k /\ g = f /\ x = m)
      BY <1>4, <3>1, PushShape, ZenonT(60)
    <3> QED BY <1>2, <1>3, <1>4, <3>2, <3>3, <3>4 DEF InnerVoice
  <2> QED BY <2>1, <2>2
<1>6. KindInv'
  BY <1>1, Deployment DEF OInv, KindInv
<1>7. OwnersGrow
  BY <1>1, OwnersSame
<1>8. serving' \subseteq serving
  BY <1>1
<1>9. EndsInv'
  BY <1>1, <1>7, <1>8, TagsStay, ReturnsStay, ConnsStay, AddressesStay DEF OInv, EndsInv
<1> QED BY <1>1, <1>5, <1>6, <1>9, TurnO

\* Nothing of the groups and the answers changes.
LEMMA KindStays ==
    ASSUME KindInv, UNCHANGED <<deployment, recv, overlap, inbox, groups>>
    PROVE  KindInv'
  BY Deployment DEF KindInv, groups

\* Of the maps only what the main thread does changes.
LEMMA EndsStay ==
    ASSUME EndsInv, OwnersGrow, UNCHANGED <<deployment, maps, counters, serving>>,
           \A n \in Nodes : \/ main'[n] = main[n]
                            \/ main'[n].at = "save" \/ (main'[n].at = "exec" /\ main'[n].src = None)
                                 => Asker(n, main'[n].fd),
           \A b \in body' : b \in body \/ b.kind # "address" \/ (b.m.op = "address" /\ b.m.node = b.src)
    PROVE  EndsInv'
<1>1. UNCHANGED <<incomingtag, next_tag, allocation_return, allocation_id, connectionmap, outgoingconnection>>
  BY DEF maps, counters
<1>2. TagEnds' /\ ReturnEnds' /\ ConnEnds' /\ AddressEnds'
  BY <1>1, TagsStay, ReturnsStay, ConnsStay, AddressesStay DEF EndsInv
<1> QED BY <1>2 DEF EndsInv

\* The main thread of node n becomes v.
LEMMA MainBecomes ==
    ASSUME IInv, NEW n \in Nodes, NEW v, main' = [main EXCEPT ![n] = v],
           v.at = "save" \/ (v.at = "exec" /\ v.src = None) => Asker(n, v.fd)
    PROVE  \A k \in Nodes : \/ main'[k] = main[k]
                            \/ main'[k].at = "save" \/ (main'[k].at = "exec" /\ main'[k].src = None)
                                 => Asker(k, main'[k].fd)
<1>1. main'[n] = v /\ \A k \in Nodes : k # n => main'[k] = main[k]
  BY DEF IInv, TypeInv
<1> QED BY <1>1

\* The main thread of node n goes to at.
LEMMA MainGoes ==
    ASSUME IInv, NEW n \in Nodes, NEW at, at \notin {"save", "exec"}, main' = [main EXCEPT ![n].at = at]
    PROVE  \A k \in Nodes : \/ main'[k] = main[k]
                            \/ main'[k].at = "save" \/ (main'[k].at = "exec" /\ main'[k].src = None)
                                 => Asker(k, main'[k].fd)
<1>1. PICK v : v = [main[n] EXCEPT !.at = at]
  OBVIOUS
<1>2. main[n] \in MainType
  BY DEF IInv, TypeInv
<1>3. v.at = at /\ main' = [main EXCEPT ![n] = v]
  BY <1>1, <1>2 DEF MainType
<1> QED BY <1>3, MainBecomes

\* A message is taken, and no client is told anything.
LEMMA TakeO ==
    ASSUME IInv, OInv, NEW n \in Nodes, NEW fd, NEW ops, Takes(n, fd, ops), ipc' = Taken(n, fd),
           UNCHANGED <<deployment, client, owner, inbox, object_group>>, KindInv', EndsInv'
    PROVE  OInv'
<1>1. ipc' \in SockType
  BY TakeShape
<1>2. \A k \in Nodes : DOMAIN ipc'[k] = DOMAIN ipc[k]
  BY TakeShape
<1>3. \A k \in Nodes : \A f \in DOMAIN ipc[k] : ToSet(ipc'[k][f]) \subseteq ToSet(ipc[k][f])
  BY TakeShape
<1> QED BY <1>1, <1>2, <1>3, TurnO

\* Nothing of the sockets changes, and no client is told anything.
LEMMA RestO ==
    ASSUME IInv, OInv, UNCHANGED <<deployment, client, local, inbox, object_group>>, KindInv', EndsInv'
    PROVE  OInv'
<1>1. UNCHANGED <<ipc, owner>> /\ ipc' \in SockType
  BY DEF local, IInv, TypeInv
<1> QED BY <1>1, TurnO

\* The client at socket f is told m.
LEMMA DeliverTo ==
    ASSUME IInv, OInv, deployment' = deployment, NEW n \in Nodes, NEW f, NEW m \in Msg, Deliver(n, f, m),
           f \in DOMAIN owner[n] /\ owner[n][f] \in Grouping => f \in object_group'[n]
    PROVE  /\ inbox' \in [Clients' -> Seq(Msg)]
           /\ \A c \in Clients :
                \/ inbox'[c] = inbox[c]
                \/ client[c].at # "idle" /\ (c \in Grouping => client[c].fd \in object_group'[Home[c]])
<1>1. inbox \in [Clients -> Seq(Msg)]
  BY DEF OInv, KindInv
<1>2. inbox' \in [Clients' -> Seq(Msg)]
  BY <1>1, Delivered
<1>3. \A c \in Clients : inbox'[c] = IF f \in DOMAIN owner[n] /\ owner[n][f] = c
                                     THEN Append(inbox[c], m) ELSE inbox[c]
  BY <1>1, Delivered
<1>4. ASSUME NEW c \in Clients, inbox'[c] # inbox[c]
      PROVE  client[c].at # "idle" /\ (c \in Grouping => client[c].fd \in object_group'[Home[c]])
  <2>1. f \in DOMAIN owner[n] /\ owner[n][f] = c /\ c # None
    BY <1>3, <1>4, Sockets DEF OInv
  <2> QED BY <2>1 DEF OInv, OwnerInv
<1> QED BY <1>2, <1>4

\* Who says op at socket fd is a client that asked for an object.
LEMMA Asks ==
    ASSUME IInv, OInv, NEW n \in Nodes, NEW fd, Takes(n, fd, {"alloc"})
    PROVE  Asker(n, fd) /\ fd \in Nat
<1>1. fd \in DOMAIN ipc[n] /\ ipc[n][fd] # <<>> /\ Head(ipc[n][fd]).op = "alloc" /\ ipc[n][fd] \in Seq(Msg)
  BY DEF Takes, IInv, TypeInv, SockType
<1>2. Head(ipc[n][fd]) \in ToSet(ipc[n][fd])
  BY <1>1, TailSet
<1>3. "alloc" \in Voice(owner[n][fd])
  BY <1>1, <1>2 DEF OInv, SpeechInv
<1>4. owner[n][fd] # None /\ owner[n][fd] \notin Grouping
  BY <1>3 DEF Voice
<1>5. fd \in DOMAIN owner[n] /\ owner[n][fd] \in Clients \cup {None} /\ fd \in Nat
  BY <1>1, Sockets DEF OInv
<1> QED BY <1>4, <1>5 DEF Asker

LEMMA TerminateO ==
    ASSUME IInv, OInv, NEW n \in Nodes, NEW fd, Terminate(n, fd)
    PROVE  OInv'
<1>1. /\ Takes(n, fd, {"terminate"}) /\ ipc' = Taken(n, fd) /\ main' = [main EXCEPT ![n].at = "ended"]
      /\ UNCHANGED <<deployment, recv, overlap, inbox, groups, maps, counters, serving, body, owner, client>>
  BY DEF Terminate
<1>2. KindInv' /\ object_group' = object_group
  BY <1>1, KindStays DEF OInv, groups
<1>3. OwnersGrow
  BY <1>1, OwnersSame
<1>4. EndsInv'
  BY <1>1, <1>3, MainGoes, EndsStay DEF OInv
<1> QED BY <1>1, <1>2, <1>4, TakeO

LEMMA JoinThreadO ==
    ASSUME IInv, OInv, NEW n \in Nodes, JoinThread(n)
    PROVE  OInv'
<1>1. /\ main' = [main EXCEPT ![n].at = "exited"]
      /\ UNCHANGED <<deployment, recv, overlap, inbox, groups, maps, counters, serving, body, local, owner, client>>
  BY DEF JoinThread, mpi, local
<1>2. KindInv' /\ object_group' = object_group
  BY <1>1, KindStays DEF OInv, groups
<1>3. OwnersGrow
  BY <1>1, OwnersSame
<1>4. EndsInv'
  BY <1>1, <1>3, MainGoes, EndsStay DEF OInv
<1> QED BY <1>1, <1>2, <1>4, RestO

LEMMA SendCompletesO ==
    ASSUME IInv, OInv, NEW n \in Nodes, SendCompletes(n)
    PROVE  OInv'
<1>1. /\ main' = [main EXCEPT ![n] = Idle] /\ Idle.at = "poll"
      /\ UNCHANGED <<deployment, recv, overlap, inbox, groups, maps, counters, serving, body, local, owner, client>>
  BY DEF SendCompletes, mpi, local, Idle
<1>2. KindInv' /\ object_group' = object_group
  BY <1>1, KindStays DEF OInv, groups
<1>3. OwnersGrow
  BY <1>1, OwnersSame
<1>4. EndsInv'
  BY <1>1, <1>3, MainBecomes, EndsStay DEF OInv
<1> QED BY <1>1, <1>2, <1>4, RestO

LEMMA ConnectionO ==
    ASSUME IInv, OInv, NEW n \in Nodes, NEW fd, Connection(n, fd)
    PROVE  OInv'
<1>1. /\ Takes(n, fd, {"connect"}) /\ ipc' = Taken(n, fd)
      /\ UNCHANGED <<deployment, recv, overlap, inbox, groups, serving, body, owner, client, main>>
      /\ UNCHANGED <<incomingtag, outgoingconnection, connectionmap, allocation_return, next_tag, allocation_id>>
  BY DEF Connection, counters, mpi
<1>2. KindInv' /\ object_group' = object_group
  BY <1>1, KindStays DEF OInv, groups
<1>3. OwnersGrow
  BY <1>1, OwnersSame
<1>4. EndsInv'
  BY <1>1, <1>3, TagsStay, ReturnsStay, ConnsStay, AddressesStay DEF OInv, EndsInv
<1> QED BY <1>1, <1>2, <1>4, TakeO

LEMMA AllocateHereO ==
    ASSUME IInv, OInv, NEW n \in Nodes, NEW fd, AllocateHere(n, fd)
    PROVE  OInv'
<1>1. PICK v : v = [at |-> "exec", fd |-> fd, src |-> None, id |-> next_object_id[n]]
  OBVIOUS
<1>2. /\ Takes(n, fd, {"alloc"}) /\ ipc' = Taken(n, fd) /\ main' = [main EXCEPT ![n] = v]
      /\ UNCHANGED <<deployment, recv, overlap, inbox, groups, serving, body, owner, client>>
      /\ UNCHANGED <<incomingtag, outgoingconnection, connectionmap, allocation_return, next_tag, allocation_id>>
  BY <1>1 DEF AllocateHere, Fork, maps, mpi
<1>3. KindInv' /\ object_group' = object_group
  BY <1>2, KindStays DEF OInv, groups
<1>4. OwnersGrow
  BY <1>2, OwnersSame
<1>5. Asker(n, v.fd)
  BY <1>1, <1>2, Asks
<1>6. EndsInv'
  BY <1>2, <1>4, <1>5, MainBecomes, TagsStay, ReturnsStay, ConnsStay, AddressesStay DEF OInv, EndsInv
<1> QED BY <1>2, <1>3, <1>6, TakeO

LEMMA AllocateThereO ==
    ASSUME IInv, OInv, NEW n \in Nodes, NEW fd, AllocateThere(n, fd)
    PROVE  OInv'
<1>1. PICK v, b : v = [Idle EXCEPT !.at = "save", !.fd = fd]
                  /\ b = Body("alloc", n, Head(ipc[n][fd]).node, 17, allocation_id[n], Head(ipc[n][fd]))
  OBVIOUS
<1>2. /\ Takes(n, fd, {"alloc"}) /\ ipc' = Taken(n, fd) /\ main' = [main EXCEPT ![n] = v] /\ body' = body \cup {b}
      /\ UNCHANGED <<deployment, recv, overlap, inbox, groups, maps, counters, serving, owner, client>>
  BY <1>1 DEF AllocateThere
<1>3. KindInv' /\ object_group' = object_group
  BY <1>2, KindStays DEF OInv, groups
<1>4. OwnersGrow
  BY <1>2, OwnersSame
<1>5. Asker(n, v.fd) /\ b.kind = "alloc"
  BY <1>1, <1>2, Asks DEF Idle, Body
<1>6. \A x \in body' : x \in body \/ x.kind # "address"
  BY <1>2, <1>5
<1>7. EndsInv'
  BY <1>2, <1>4, <1>5, <1>6, MainBecomes, EndsStay DEF OInv
<1> QED BY <1>2, <1>3, <1>7, TakeO

LEMMA SaveReturnO ==
    ASSUME IInv, OInv, NEW n \in Nodes, SaveReturn(n)
    PROVE  OInv'
<1>1. /\ main[n].at = "save"
      /\ allocation_return' = [allocation_return EXCEPT ![n] = Put(@, allocation_id[n], main[n].fd)]
      /\ allocation_id' = [allocation_id EXCEPT ![n] = @ + 1]
      /\ main' = [main EXCEPT ![n] = Idle] /\ Idle.at = "poll"
      /\ UNCHANGED <<deployment, recv, overlap, inbox, groups, serving, body, local, owner, client>>
      /\ UNCHANGED <<incomingtag, outgoingconnection, connectionmap, next_tag>>
  BY DEF SaveReturn, mpi, local, Idle
<1>2. KindInv' /\ object_group' = object_group
  BY <1>1, KindStays DEF OInv, groups
<1>3. OwnersGrow
  BY <1>1, OwnersSame
<1>4. TagEnds' /\ ConnEnds' /\ AddressEnds'
  BY <1>1, <1>3, TagsStay, ConnsStay, AddressesStay DEF OInv, EndsInv
<1>5. PICK i, f : i = allocation_id[n] /\ f = main[n].fd
  OBVIOUS
<1>6. i \in Nat /\ Asker(n, f) /\ \A k \in Nodes : allocation_id[k] \in Nat
  BY <1>1, <1>5 DEF IInv, TypeInv, OInv, EndsInv, ReturnEnds
<1>7. /\ allocation_return' = [k \in Nodes |-> allocation_return'[k]]
      /\ \A k \in Nodes : k # n => allocation_return'[k] = allocation_return[k]
      /\ allocation_return'[n] = Put(allocation_return[n], i, f)
  <2>1. allocation_return = [k \in Nodes |-> allocation_return[k]]
    BY DEF OInv, EndsInv, ReturnEnds
  <2> QED BY <1>1, <1>5, <2>1
<1>8. \A k \in Nodes : allocation_id'[k] = IF k = n THEN i + 1 ELSE allocation_id[k]
  BY <1>1, <1>5 DEF IInv, TypeInv
<1>9. \A k \in Nodes : \A g : Asker(k, g)' <=> Asker(k, g)
  BY <1>1, Deployment DEF Asker
<1>10. \A k \in Nodes : \A j \in DOMAIN allocation_return[k] :
         j \in 0 .. allocation_id[k] - 1 /\ Asker(k, allocation_return[k][j])
  BY DEF OInv, EndsInv, ReturnEnds
<1>11. ASSUME NEW k \in Nodes, NEW j \in DOMAIN allocation_return'[k]
       PROVE  j \in 0 .. allocation_id'[k] - 1 /\ Asker(k, allocation_return'[k][j])
  <2>1. CASE k = n
    <3>1. CASE j = i
      <4>1. allocation_return'[k][j] = f
        BY <1>7, <2>1, <3>1 DEF Put
      <4> QED BY <1>6, <1>8, <2>1, <3>1, <4>1
    <3>2. CASE j # i
      <4>1. j \in DOMAIN allocation_return[n] /\ allocation_return'[k][j] = allocation_return[n][j]
        BY <1>7, <2>1, <3>2 DEF Put
      <4>2. j \in 0 .. i - 1 /\ Asker(n, allocation_return[n][j])
        BY <1>5, <1>10, <4>1
      <4> QED BY <1>6, <1>8, <2>1, <4>1, <4>2
    <3> QED BY <3>1, <3>2
  <2>2. CASE k # n
    BY <1>7, <1>8, <1>10, <2>2
  <2> QED BY <2>1, <2>2
<1>12. \A k \in Nodes : main'[k].at = "save" \/ (main'[k].at = "exec" /\ main'[k].src = None)
         => Asker(k, main'[k].fd)
  <2>1. \A k \in Nodes : \/ main'[k] = main[k]
                         \/ main'[k].at = "save" \/ (main'[k].at = "exec" /\ main'[k].src = None)
                              => Asker(k, main'[k].fd)
    BY <1>1, MainBecomes
  <2> QED BY <2>1 DEF OInv, EndsInv, ReturnEnds
<1>13. ReturnEnds'
  BY <1>7, <1>9, <1>11, <1>12 DEF ReturnEnds
<1>14. EndsInv'
  BY <1>4, <1>13 DEF EndsInv
<1> QED BY <1>1, <1>2, <1>14, RestO

LEMMA AllocationFromMpiO ==
    ASSUME IInv, OInv, NEW n \in Nodes, NEW fd, AllocationFromMpi(n, fd)
    PROVE  OInv'
<1>1. PICK b \in body : /\ b.kind = "alloc" /\ b.dst = n
                        /\ body' = body \ {b}
                        /\ Fork(n, b.id, b.src)
  BY DEF AllocationFromMpi
<1>2. PICK v : v = [at |-> "exec", fd |-> b.id, src |-> b.src, id |-> next_object_id[n]]
  OBVIOUS
<1>3. /\ Takes(n, fd, {"allocation"}) /\ ipc' = Taken(n, fd) /\ main' = [main EXCEPT ![n] = v]
      /\ UNCHANGED <<deployment, recv, overlap, inbox, groups, serving, owner, client>>
      /\ UNCHANGED <<incomingtag, outgoingconnection, connectionmap, allocation_return, next_tag, allocation_id>>
  BY <1>1, <1>2 DEF AllocationFromMpi, Fork, maps
<1>4. KindInv' /\ object_group' = object_group
  BY <1>3, KindStays DEF OInv, groups
<1>5. OwnersGrow
  BY <1>3, OwnersSame
<1>6. b.src \in Nodes
  BY DEF IInv, TypeInv, BodyType
<1>7. v.at = "exec" /\ v.src # None
  BY <1>2, <1>6, Sockets DEF OInv
<1>8. EndsInv'
  BY <1>1, <1>3, <1>5, <1>7, MainBecomes, TagsStay, ReturnsStay, ConnsStay, AddressesStay DEF OInv, EndsInv
<1> QED BY <1>3, <1>4, <1>8, TakeO

LEMMA RedirectResponseO ==
    ASSUME IInv, OInv, NEW n \in Nodes, NEW fd, RedirectResponse(n, fd)
    PROVE  OInv'
<1>1. PICK b : b = Body("response", n, outgoingconnection[n][fd].src, outgoingconnection[n][fd].tag, 0, Head(ipc[n][fd]))
  OBVIOUS
<1>2. /\ Takes(n, fd, {"call", "answer"}) /\ ipc' = Taken(n, fd) /\ main' = [main EXCEPT ![n].at = "sent"]
      /\ outgoingconnection' = [outgoingconnection EXCEPT ![n] = Erase(@, fd)]
      /\ body' = body \cup {b}
      /\ UNCHANGED <<deployment, recv, overlap, inbox, groups, serving, owner, client>>
      /\ UNCHANGED <<incomingtag, connectionmap, allocation_return, next_tag, allocation_id>>
  BY <1>1 DEF RedirectResponse, counters
<1>3. KindInv' /\ object_group' = object_group
  BY <1>2, KindStays DEF OInv, groups
<1>4. OwnersGrow
  BY <1>2, OwnersSame
<1>5. \A x \in body' : x \in body \/ x.kind # "address"
  BY <1>1, <1>2 DEF Body
<1>6. \A k \in Nodes : DOMAIN outgoingconnection'[k] \subseteq DOMAIN outgoingconnection[k]
  <2>1. outgoingconnection = [k \in Nodes |-> outgoingconnection[k]]
    BY DEF IInv, MapInv
  <2>2. \A k \in Nodes : outgoingconnection'[k] = IF k = n THEN Erase(outgoingconnection[n], fd) ELSE outgoingconnection[k]
    BY <1>2, <2>1
  <2> QED BY <2>2 DEF Erase
<1>7. TagEnds' /\ ReturnEnds' /\ ConnEnds' /\ AddressEnds'
  BY <1>2, <1>4, <1>5, <1>6, MainGoes, TagsStay, ReturnsStay, ConnsStay, AddressesStay DEF OInv, EndsInv
<1>8. EndsInv'
  BY <1>7 DEF EndsInv
<1> QED BY <1>2, <1>3, <1>8, TakeO

\* Who speaks to an object is no client of a group.
LEMMA Requests ==
    ASSUME IInv, OInv, NEW n \in Nodes, NEW fd, Takes(n, fd, {"call", "answer"}), fd \notin object_group[n]
    PROVE  fd \in DOMAIN owner[n] /\ owner[n][fd] \notin Grouping
<1>1. fd \in DOMAIN ipc[n] /\ ipc[n][fd] # <<>> /\ Head(ipc[n][fd]).op # "group" /\ ipc[n][fd] \in Seq(Msg)
  BY DEF Takes, IInv, TypeInv, SockType
<1>2. Head(ipc[n][fd]) \in ToSet(ipc[n][fd])
  BY <1>1, TailSet
<1>3. owner[n][fd] \notin Grouping
  BY <1>1, <1>2 DEF OInv, GroupSockets
<1>4. fd \in DOMAIN owner[n]
  BY <1>1, Sockets DEF OInv
<1> QED BY <1>3, <1>4

LEMMA RedirectRequestO ==
    ASSUME IInv, OInv, NEW n \in Nodes, NEW fd, RedirectRequest(n, fd)
    PROVE  OInv'
<1>0. PICK to : body' = body \cup {Body("request", n, to.node, next_tag[n], to.id, Head(ipc[n][fd]))}
  BY DEF RedirectRequest
<1>1. PICK b : body' = body \cup {b} /\ b.kind = "request"
  <2>1. PICK b : b = Body("request", n, to.node, next_tag[n], to.id, Head(ipc[n][fd]))
    OBVIOUS
  <2>2. body' = body \cup {b} /\ b.kind = "request"
    BY <1>0, <2>1 DEF Body
  <2> QED BY <2>2
<1>2. /\ Takes(n, fd, {"call", "answer"}) /\ ipc' = Taken(n, fd) /\ main' = [main EXCEPT ![n].at = "sent"]
      /\ incomingtag' = [incomingtag EXCEPT ![n] = Put(@, next_tag[n], fd)]
      /\ next_tag' = [next_tag EXCEPT ![n] = @ + 1]
      /\ fd \notin object_group[n]
      /\ UNCHANGED <<deployment, recv, overlap, inbox, groups, serving, owner, client>>
      /\ UNCHANGED <<outgoingconnection, connectionmap, allocation_return, allocation_id>>
  BY DEF RedirectRequest
<1>3. KindInv' /\ object_group' = object_group
  BY <1>2, KindStays DEF OInv, groups
<1>4. OwnersGrow
  BY <1>2, OwnersSame
<1>5. \A x \in body' : x \in body \/ x.kind # "address"
  BY <1>1
<1>6. ReturnEnds' /\ ConnEnds' /\ AddressEnds'
  BY <1>2, <1>4, <1>5, MainGoes, ReturnsStay, ConnsStay, AddressesStay DEF OInv, EndsInv
<1>7. fd \in DOMAIN owner[n] /\ owner[n][fd] \notin Grouping
  BY <1>2, Requests
<1>8. PICK i : i = next_tag[n]
  OBVIOUS
<1>9. i \in Nat /\ i >= FirstTag /\ FirstTag \in Nat /\ \A k \in Nodes : next_tag[k] \in Nat
  BY <1>8, InterconnectorAssumption DEF IInv, TypeInv, OInv, EndsInv, TagEnds
<1>10. /\ incomingtag' = [k \in Nodes |-> incomingtag'[k]]
       /\ \A k \in Nodes : k # n => incomingtag'[k] = incomingtag[k]
       /\ incomingtag'[n] = Put(incomingtag[n], i, fd)
  <2>1. incomingtag = [k \in Nodes |-> incomingtag[k]]
    BY DEF OInv, EndsInv, TagEnds
  <2> QED BY <1>2, <1>8, <2>1
<1>11. \A k \in Nodes : next_tag'[k] = IF k = n THEN i + 1 ELSE next_tag[k]
  BY <1>2, <1>8 DEF IInv, TypeInv
<1>12. \A k \in Nodes : \A t \in DOMAIN incomingtag[k] :
         /\ t \in FirstTag .. next_tag[k] - 1
         /\ incomingtag[k][t] \in DOMAIN owner[k] /\ owner[k][incomingtag[k][t]] \notin Grouping
  BY DEF OInv, EndsInv, TagEnds
<1>13. ASSUME NEW k \in Nodes, NEW t \in DOMAIN incomingtag'[k]
       PROVE  /\ t \in FirstTag .. next_tag'[k] - 1
              /\ incomingtag'[k][t] \in DOMAIN owner[k] /\ owner[k][incomingtag'[k][t]] \notin Grouping
  <2>1. CASE k = n
    <3>1. CASE t = i
      <4>1. incomingtag'[k][t] = fd
        BY <1>10, <2>1, <3>1 DEF Put
      <4> QED BY <1>7, <1>9, <1>11, <2>1, <3>1, <4>1
    <3>2. CASE t # i
      <4>1. t \in DOMAIN incomingtag[n] /\ incomingtag'[k][t] = incomingtag[n][t]
        BY <1>10, <2>1, <3>2 DEF Put
      <4>2. t \in FirstTag .. i - 1
        BY <1>8, <1>12, <4>1
      <4> QED BY <1>9, <1>11, <1>12, <2>1, <4>1, <4>2
    <3> QED BY <3>1, <3>2
  <2>2. CASE k # n
    BY <1>10, <1>11, <1>12, <2>2
  <2> QED BY <2>1, <2>2
<1>14. TagEnds'
  <2>1. \A k \in Nodes : FirstTag <= next_tag'[k]
    BY <1>9, <1>11 DEF OInv, EndsInv, TagEnds
  <2> QED BY <1>2, <1>10, <1>13, <2>1, Deployment DEF TagEnds
<1>15. EndsInv'
  BY <1>6, <1>14 DEF EndsInv
<1> QED BY <1>2, <1>3, <1>15, TakeO

\* The command a receiving thread takes.
LEMMA ReceiveCommandO ==
    ASSUME IInv, OInv, NEW n \in Nodes, NEW s \in Nodes, ReceiveCommand(n, s)
    PROVE  OInv'
<1>1. /\ recv' = recv \/ recv' = [recv EXCEPT ![n] = "ended"]
      /\ UNCHANGED <<deployment, overlap, inbox, groups, serving, owner, client, main, body, maps, counters>>
  BY DEF ReceiveCommand
<1>2. UNCHANGED <<object_group, object_group_single, member, returned, run>>
  BY <1>1 DEF groups
<1>3. recv' \in [Nodes -> {"run", "lost", "ended"}]
  BY <1>1 DEF OInv, KindInv
<1>4. KindInv'
  BY <1>1, <1>2, <1>3, Deployment DEF OInv, KindInv
<1>5. OwnersGrow
  BY <1>1, OwnersSame
<1>6. EndsInv'
  BY <1>1, <1>5, EndsStay DEF OInv
<1>7. 1 \in DOMAIN ipc[n] /\ owner[n][1] = None
  BY DEF IInv, TypeInv, OInv, OwnerInv
<1>8. PICK c : c = Head(cmd[s][n])
  OBVIOUS
<1>9. c.tag \in Nat /\ s \in Nat
  <2>1. cmd[s][n] \in Seq([what : Commands, tag : Nat]) /\ cmd[s][n] # <<>>
    BY DEF ReceiveCommand, IInv, TypeInv, CmdType
  <2>2. c \in [what : Commands, tag : Nat]
    <3>1. PICK S, q : S = [what : Commands, tag : Nat] /\ q = cmd[s][n]
      OBVIOUS
    <3>2. q \in Seq(S) /\ q # <<>> /\ c = Head(q)
      BY <1>8, <2>1, <3>1
    <3>3. c \in S
      BY <3>2, TailSet
    <3> QED BY <3>1, <3>3
  <2>3. s \in Nat
    BY InterconnectorAssumption DEF Nodes
  <2> QED BY <2>2, <2>3
<1>10. ipc' = ipc \/ \E w \in Msg : w.op \in InnerVoice /\ ipc' = Replace(ipc, n, 1, Append(ipc[n][1], w))
  <2>1. Wake("terminate", 0, 0) \in Msg /\ Wake("allocation", 0, 0) \in Msg /\ Wake("request", s, c.tag) \in Msg
    BY <1>9 DEF Wake, Message, Msg, Ops
  <2>2. /\ Wake("terminate", 0, 0).op \in InnerVoice /\ Wake("allocation", 0, 0).op \in InnerVoice
        /\ Wake("request", s, c.tag).op \in InnerVoice
    BY DEF Wake, Message, InnerVoice
  <2>3. \/ ipc' = ipc \/ WakeMain(n, Wake("terminate", 0, 0)) \/ WakeMain(n, Wake("allocation", 0, 0))
        \/ WakeMain(n, Wake("request", s, c.tag))
    BY <1>8 DEF ReceiveCommand
  <2> QED BY <2>1, <2>2, <2>3 DEF WakeMain, Replace
<1>11. CASE ipc' = ipc
  <2>1. UNCHANGED local
    BY <1>1, <1>11 DEF local
  <2> QED BY <1>1, <1>2, <1>4, <1>6, <2>1, RestO
<1>12. CASE ipc' # ipc
  <2>1. PICK w \in Msg : w.op \in InnerVoice /\ ipc' = Replace(ipc, n, 1, Append(ipc[n][1], w))
    BY <1>10, <1>12
  <2>2. ipc' \in SockType
    BY <1>7, <2>1, PushShape
  <2>3. \A i \in Nodes : DOMAIN ipc'[i] = DOMAIN ipc[i]
    BY <1>7, <2>1, PushShape
  <2>4. \A i \in Nodes : \A g \in DOMAIN ipc[i] : \A x \in ToSet(ipc'[i][g]) :
           x \in ToSet(ipc[i][g]) \/ (i = n /\ g = 1 /\ x = w)
    BY <1>7, <2>1, PushShape, ZenonT(60)
  <2>5. \A i \in Nodes : \A g \in DOMAIN ipc[i] : \A x \in ToSet(ipc'[i][g]) :
           x \in ToSet(ipc[i][g]) \/ (owner[i][g] = None /\ x.op \in InnerVoice)
    BY <1>7, <2>1, <2>4
  <2> QED BY <1>1, <1>2, <1>4, <1>6, <2>2, <2>3, <2>5, TurnO
<1> QED BY <1>11, <1>12

\* Nothing of the sockets changes, and a client is told m.
LEMMA TellO ==
    ASSUME IInv, OInv, UNCHANGED <<deployment, client, local, object_group>>, KindInv', EndsInv',
           NEW n \in Nodes, NEW f, NEW m \in Msg, Deliver(n, f, m),
           f \in DOMAIN owner[n] /\ owner[n][f] \in Grouping => f \in object_group'[n]
    PROVE  OInv'
<1>1. UNCHANGED <<ipc, owner>> /\ ipc' \in SockType
  BY DEF local, IInv, TypeInv
<1>2. \A c \in Clients :
        \/ inbox'[c] = inbox[c]
        \/ client[c].at # "idle" /\ (c \in Grouping => client[c].fd \in object_group'[Home[c]])
  BY DeliverTo
<1> QED BY <1>1, <1>2, TurnO

LEMMA ReceiveResponseO ==
    ASSUME IInv, OInv, NEW n \in Nodes, NEW s \in Nodes, ReceiveResponse(n, s)
    PROVE  OInv'
<1>1. PICK t : t = Head(cmd[s][n]).tag
  OBVIOUS
<1>2. PICK f : f = IF t \in DOMAIN incomingtag[n] THEN incomingtag[n][t] ELSE 0
  OBVIOUS
<1>3. PICK b \in body : body' = body \ {b} /\ Deliver(n, f, b.m)
  BY <1>1, <1>2 DEF ReceiveResponse
<1>4. /\ incomingtag' = [incomingtag EXCEPT ![n] = Erase(@, t)]
      /\ UNCHANGED <<deployment, recv, overlap, groups, serving, local, owner, client, main>>
      /\ UNCHANGED <<outgoingconnection, connectionmap, allocation_return, allocation_id, next_tag>>
  BY <1>1 DEF ReceiveResponse, local, counters
<1>5. UNCHANGED <<object_group, object_group_single, member, returned, run>>
  BY <1>4 DEF groups
<1>6. b.m \in Msg
  BY DEF IInv, TypeInv, BodyType
<1>7. ~(f \in DOMAIN owner[n] /\ owner[n][f] \in Grouping)
  <2>1. 0 \notin DOMAIN owner[n]
    BY Sockets DEF OInv
  <2> QED BY <1>2, <2>1 DEF OInv, EndsInv, TagEnds
<1>8. inbox' \in [Clients' -> Seq(Msg)]
  BY <1>3, <1>4, <1>6, <1>7, DeliverTo
<1>9. KindInv'
  BY <1>4, <1>5, <1>8, Deployment DEF OInv, KindInv
<1>10. OwnersGrow
  BY <1>4, OwnersSame
<1>11. /\ incomingtag' = [k \in Nodes |-> incomingtag'[k]]
       /\ \A k \in Nodes : k # n => incomingtag'[k] = incomingtag[k]
       /\ incomingtag'[n] = Erase(incomingtag[n], t)
  <2>1. incomingtag = [k \in Nodes |-> incomingtag[k]]
    BY DEF OInv, EndsInv, TagEnds
  <2> QED BY <1>4, <2>1
<1>12. \A k \in Nodes : \A x \in DOMAIN incomingtag'[k] :
         x \in DOMAIN incomingtag[k] /\ incomingtag'[k][x] = incomingtag[k][x]
  BY <1>11 DEF Erase
<1>13. TagEnds'
  <2>1. /\ \A k \in Nodes : FirstTag <= next_tag[k]
        /\ \A k \in Nodes : \A x \in DOMAIN incomingtag[k] :
             /\ x \in FirstTag .. next_tag[k] - 1
             /\ incomingtag[k][x] \in DOMAIN owner[k] /\ owner[k][incomingtag[k][x]] \notin Grouping
    BY DEF OInv, EndsInv, TagEnds
  <2>2. \A k \in Nodes : \A x \in DOMAIN incomingtag'[k] :
             /\ x \in FirstTag .. next_tag[k] - 1
             /\ incomingtag'[k][x] \in DOMAIN owner[k] /\ owner[k][incomingtag'[k][x]] \notin Grouping
    BY <1>12, <2>1
  <2>3. Grouping' = Grouping /\ next_tag' = next_tag /\ owner' = owner
    BY <1>4, Deployment
  <2>4. incomingtag' = [k \in Nodes |-> incomingtag'[k]]
    BY <1>11
  <2> QED BY <2>1, <2>2, <2>3, <2>4 DEF TagEnds
<1>14. ReturnEnds' /\ ConnEnds' /\ AddressEnds'
  BY <1>3, <1>4, <1>10, ReturnsStay, ConnsStay, AddressesStay DEF OInv, EndsInv
<1>15. EndsInv'
  BY <1>13, <1>14 DEF EndsInv
<1> QED BY <1>3, <1>4, <1>5, <1>6, <1>7, <1>9, <1>15, TellO

LEMMA ReceiveAllocatedO ==
    ASSUME IInv, OInv, NEW n \in Nodes, NEW s \in Nodes, ReceiveAllocated(n, s)
    PROVE  OInv'
<1>1. PICK t : t = Head(cmd[s][n]).tag
  OBVIOUS
<1>2. PICK f : f = allocation_return[n][t]
  OBVIOUS
<1>3. PICK b \in body :
        /\ body' = body \ {b}
        /\ \/ t \in DOMAIN allocation_return[n] /\ Deliver(n, f, b.m) /\ main' = main
           \/ main' = [main EXCEPT ![n].at = "dead"] /\ inbox' = inbox
  BY <1>1, <1>2 DEF ReceiveAllocated
<1>4. UNCHANGED <<deployment, recv, overlap, groups, serving, local, owner, client, maps, counters>>
  BY DEF ReceiveAllocated, local
<1>5. UNCHANGED <<object_group, object_group_single, member, returned, run>>
  BY <1>4 DEF groups
<1>6. b.m \in Msg
  BY DEF IInv, TypeInv, BodyType
<1>7. OwnersGrow
  BY <1>4, OwnersSame
<1>8. CASE t \in DOMAIN allocation_return[n] /\ Deliver(n, f, b.m) /\ main' = main
  <2>1. ~(f \in DOMAIN owner[n] /\ owner[n][f] \in Grouping)
    BY <1>2, <1>8 DEF OInv, EndsInv, ReturnEnds, Asker
  <2>2. inbox' \in [Clients' -> Seq(Msg)]
    BY <1>4, <1>6, <1>8, <2>1, DeliverTo
  <2>3. KindInv'
    BY <1>4, <1>5, <2>2, Deployment DEF OInv, KindInv
  <2>4. EndsInv'
    BY <1>3, <1>4, <1>7, <1>8, EndsStay DEF OInv
  <2> QED BY <1>4, <1>5, <1>6, <1>8, <2>1, <2>3, <2>4, TellO
<1>9. CASE main' = [main EXCEPT ![n].at = "dead"] /\ inbox' = inbox
  <2>1. KindInv'
    BY <1>4, <1>9, KindStays DEF OInv
  <2>2. EndsInv'
    BY <1>3, <1>4, <1>7, <1>9, MainGoes, EndsStay DEF OInv
  <2> QED BY <1>4, <1>5, <1>9, <2>1, <2>2, RestO
<1> QED BY <1>3, <1>8, <1>9

LEMMA ReceiveGroupO ==
    ASSUME IInv, OInv, NEW n \in Nodes, NEW fd, ReceiveGroup(n, fd)
    PROVE  OInv'
<1>1. PICK g : g = <<n, fd>>
  OBVIOUS
<1>2. /\ fd \in object_group[n] /\ returned[g] # <<>>
      /\ Deliver(n, fd, Head(returned[g])) /\ returned' = [returned EXCEPT ![g] = Tail(@)]
      /\ UNCHANGED <<deployment, recv, overlap, serving, local, owner, client, maps, counters, main, body>>
      /\ UNCHANGED <<object_group, object_group_single, member, run>>
  BY <1>1 DEF ReceiveGroup, local, mpi
<1>3. g \in DOMAIN member /\ DOMAIN returned = DOMAIN member /\ \A h \in DOMAIN member : returned[h] \in Seq(Msg)
  BY <1>1, <1>2 DEF OInv, KindInv
<1>4. PICK m : m = Head(returned[g])
  OBVIOUS
<1>5. m \in Msg /\ Tail(returned[g]) \in Seq(Msg)
  BY <1>2, <1>3, <1>4, TailSet
<1>6. inbox' \in [Clients' -> Seq(Msg)]
  BY <1>2, <1>4, <1>5, DeliverTo
<1>7. DOMAIN returned' = DOMAIN member /\ \A h \in DOMAIN member : returned'[h] \in Seq(Msg)
  BY <1>2, <1>3, <1>5
<1>8. KindInv'
  BY <1>2, <1>6, <1>7, Deployment DEF OInv, KindInv
<1>9. OwnersGrow
  BY <1>2, OwnersSame
<1>10. EndsInv'
  BY <1>2, <1>9, EndsStay DEF OInv
<1> QED BY <1>2, <1>4, <1>5, <1>8, <1>10, TellO

LEMMA MemberRunsO ==
    ASSUME IInv, OInv, NEW g \in DOMAIN member, NEW i \in DOMAIN member[g], MemberRuns(g, i)
    PROVE  OInv'
<1>1. /\ member[g][i] # <<>> /\ member' = [member EXCEPT ![g][i] = Tail(@)]
      /\ run' = [run EXCEPT ![g][i] = Append(@, Head(member[g][i]))]
      /\ returned' = returned \/ returned' = [returned EXCEPT ![g] = Append(@, Head(member[g][i]))]
      /\ UNCHANGED <<deployment, recv, overlap, serving, local, owner, client, maps, counters, main, body, inbox>>
      /\ UNCHANGED <<object_group, object_group_single>>
  BY DEF MemberRuns, local, mpi
<1>2. /\ member[g] \in [Ranks -> Seq(Msg)] /\ run[g] \in [Ranks -> Seq(Msg)] /\ returned[g] \in Seq(Msg)
      /\ DOMAIN run = DOMAIN member /\ DOMAIN returned = DOMAIN member
  BY DEF OInv, KindInv
<1>3. i \in Ranks /\ member[g][i] \in Seq(Msg) /\ run[g][i] \in Seq(Msg)
  BY <1>2
<1>4. PICK m : m = Head(member[g][i])
  OBVIOUS
<1>5. m \in Msg /\ Tail(member[g][i]) \in Seq(Msg)
  BY <1>1, <1>3, <1>4, TailSet
<1>6. Append(run[g][i], m) \in Seq(Msg) /\ Append(returned[g], m) \in Seq(Msg)
  BY <1>2, <1>3, <1>5
<1>7. /\ DOMAIN member' = DOMAIN member /\ \A h \in DOMAIN member : h # g => member'[h] = member[h]
      /\ member'[g] \in [Ranks -> Seq(Msg)]
  BY <1>1, <1>2, <1>3, <1>5
<1>8. /\ DOMAIN run' = DOMAIN run /\ \A h \in DOMAIN run : h # g => run'[h] = run[h]
      /\ run'[g] \in [Ranks -> Seq(Msg)]
  BY <1>1, <1>2, <1>3, <1>4, <1>6
<1>9. /\ DOMAIN returned' = DOMAIN returned /\ \A h \in DOMAIN returned : h # g => returned'[h] = returned[h]
      /\ returned'[g] \in Seq(Msg)
  BY <1>1, <1>2, <1>4, <1>6
<1>10. KindInv'
  BY <1>1, <1>2, <1>7, <1>8, <1>9, Deployment DEF OInv, KindInv
<1>11. OwnersGrow
  BY <1>1, OwnersSame
<1>12. EndsInv'
  BY <1>1, <1>11, EndsStay DEF OInv
<1> QED BY <1>1, <1>10, <1>12, RestO

\* A message is taken, and the client at its socket is told m.
LEMMA TakeTellO ==
    ASSUME IInv, OInv, NEW n \in Nodes, NEW fd, NEW ops, Takes(n, fd, ops), ipc' = Taken(n, fd),
           UNCHANGED <<deployment, client, owner>>, KindInv', EndsInv', NEW m \in Msg, Deliver(n, fd, m),
           \A k \in Nodes : object_group[k] \subseteq object_group'[k] /\ object_group'[k] \subseteq object_group[k] \cup {fd},
           \A k \in Nodes : k # n => object_group'[k] = object_group[k],
           fd \in object_group'[n], owner[n][fd] \in Grouping
    PROVE  OInv'
<1>1. ipc' \in SockType
  BY TakeShape
<1>2. \A k \in Nodes : DOMAIN ipc'[k] = DOMAIN ipc[k]
  BY TakeShape
<1>3. \A k \in Nodes : \A f \in DOMAIN ipc[k] : ToSet(ipc'[k][f]) \subseteq ToSet(ipc[k][f])
  BY TakeShape
<1>4. \A c \in Clients :
        \/ inbox'[c] = inbox[c]
        \/ client[c].at # "idle" /\ (c \in Grouping => client[c].fd \in object_group'[Home[c]])
  BY DeliverTo
<1>5. fd \in DOMAIN owner[n]
  BY Sockets DEF OInv, Takes
<1>6. \A k \in Nodes : \A f \in object_group'[k] :
         f \in object_group[k] \/ (f \in DOMAIN owner[k] /\ owner[k][f] \in Grouping)
  BY <1>5
<1> QED BY <1>1, <1>2, <1>3, <1>4, <1>6, TurnO

\* Who calls a group is its client.
LEMMA GroupSpeaks ==
    ASSUME IInv, OInv, NEW n \in Nodes, NEW fd, NEW ops, Takes(n, fd, ops), ops \cap Voice(None) = {},
           ops \cap {"alloc", "connect", "call"} = {}
    PROVE  owner[n][fd] \in Grouping /\ fd \in DOMAIN owner[n] /\ fd \in Nat
<1>1. fd \in DOMAIN ipc[n] /\ ipc[n][fd] # <<>> /\ Head(ipc[n][fd]).op \in ops /\ ipc[n][fd] \in Seq(Msg)
  BY DEF Takes, IInv, TypeInv, SockType
<1>2. Head(ipc[n][fd]) \in ToSet(ipc[n][fd])
  BY <1>1, TailSet
<1>3. Head(ipc[n][fd]).op \in Voice(owner[n][fd])
  BY <1>1, <1>2 DEF OInv, SpeechInv
<1>4. owner[n][fd] # None /\ owner[n][fd] \in Grouping
  BY <1>1, <1>3 DEF Voice
<1> QED BY <1>1, <1>4, Sockets DEF OInv

LEMMA SpawnGroupO ==
    ASSUME IInv, OInv, NEW n \in Nodes, NEW fd, SpawnGroup(n, fd)
    PROVE  OInv'
<1>1. PICK g, m, z : /\ g = <<n, fd>> /\ m = Message("address", None, 0, FALSE, n, 0)
                     /\ z = [i \in Ranks |-> <<>>]
  OBVIOUS
<1>2. /\ Takes(n, fd, {"group"}) /\ ipc' = Taken(n, fd)
      /\ object_group' = [object_group EXCEPT ![n] = @ \cup {fd}]
      /\ member' = Put(member, g, z) /\ returned' = Put(returned, g, <<>>) /\ run' = Put(run, g, z)
      /\ Deliver(n, fd, m)
      /\ UNCHANGED <<deployment, recv, overlap, serving, owner, client, maps, counters, main, body>>
      /\ UNCHANGED <<object_group_single>>
  BY <1>1 DEF SpawnGroup, Ranks, mpi
<1>3. m \in Msg /\ n \in Nat
  <2>1. n \in Nat
    BY InterconnectorAssumption DEF Nodes
  <2> QED BY <1>1, <2>1 DEF Msg, Message, Ops
<1>4. owner[n][fd] \in Grouping /\ fd \in DOMAIN owner[n] /\ fd \in Nat
  <2>1. {"group"} \cap Voice(None) = {} /\ {"group"} \cap {"alloc", "connect", "call"} = {}
    BY DEF Voice
  <2> QED BY <1>2, <2>1, GroupSpeaks
<1>5. /\ object_group' \in [Nodes -> SUBSET Nat]
      /\ \A k \in Nodes : object_group'[k] = IF k = n THEN object_group[n] \cup {fd} ELSE object_group[k]
  BY <1>2, <1>4 DEF OInv, KindInv
<1>6. inbox' \in [Clients' -> Seq(Msg)]
  BY <1>2, <1>3, <1>5, DeliverTo
<1>7. /\ DOMAIN member' = DOMAIN member \cup {g} /\ DOMAIN run' = DOMAIN member' /\ DOMAIN returned' = DOMAIN member'
      /\ \A h \in DOMAIN member' :
          /\ member'[h] \in [Ranks -> Seq(Msg)] /\ run'[h] \in [Ranks -> Seq(Msg)]
          /\ returned'[h] \in Seq(Msg)
  <2>1. z \in [Ranks -> Seq(Msg)] /\ <<>> \in Seq(Msg)
    BY <1>1
  <2>2. /\ DOMAIN run = DOMAIN member /\ DOMAIN returned = DOMAIN member
        /\ \A h \in DOMAIN member :
            /\ member[h] \in [Ranks -> Seq(Msg)] /\ run[h] \in [Ranks -> Seq(Msg)]
            /\ returned[h] \in Seq(Msg)
    BY DEF OInv, KindInv
  <2>3. /\ DOMAIN member' = DOMAIN member \cup {g} /\ DOMAIN run' = DOMAIN member' /\ DOMAIN returned' = DOMAIN member'
    BY <1>2, <2>2 DEF Put
  <2>4. \A h \in DOMAIN member' : /\ member'[h] = (IF h = g THEN z ELSE member[h])
                                  /\ run'[h] = (IF h = g THEN z ELSE run[h])
                                  /\ returned'[h] = (IF h = g THEN <<>> ELSE returned[h])
    BY <1>2, <2>2, <2>3 DEF Put
  <2> QED BY <2>1, <2>2, <2>3, <2>4
<1>8. DOMAIN member' = {h \in Nodes \X Nat : h[2] \in object_group'[h[1]]}
  <2>1. DOMAIN member = {h \in Nodes \X Nat : h[2] \in object_group[h[1]]}
    BY DEF OInv, KindInv
  <2> QED BY <1>1, <1>4, <1>5, <1>7, <2>1
<1>9. KindInv'
  BY <1>2, <1>5, <1>6, <1>7, <1>8, Deployment DEF OInv, KindInv
<1>10. OwnersGrow
  BY <1>2, OwnersSame
<1>11. EndsInv'
  BY <1>2, <1>10, EndsStay DEF OInv
<1>12. /\ \A k \in Nodes : object_group[k] \subseteq object_group'[k] /\ object_group'[k] \subseteq object_group[k] \cup {fd}
       /\ \A k \in Nodes : k # n => object_group'[k] = object_group[k]
       /\ fd \in object_group'[n]
  BY <1>5
<1> QED BY <1>2, <1>3, <1>4, <1>9, <1>11, <1>12, TakeTellO

LEMMA SetRankO ==
    ASSUME IInv, OInv, NEW n \in Nodes, NEW fd, SetRank(n, fd)
    PROVE  OInv'
<1>1. PICK x : object_group_single' = [object_group_single EXCEPT ![n] = x]
  BY DEF SetRank
<1>2. /\ Takes(n, fd, {"rank"}) /\ ipc' = Taken(n, fd)
      /\ UNCHANGED <<deployment, recv, overlap, serving, owner, client, maps, counters, main, body, inbox>>
      /\ UNCHANGED <<object_group, member, returned, run>>
  BY DEF SetRank, mpi
<1>3. object_group_single' = [k \in Nodes |-> object_group_single'[k]]
  <2>1. object_group_single = [k \in Nodes |-> object_group_single[k]]
    BY DEF OInv, KindInv
  <2> QED BY <1>1, <2>1
<1>4. KindInv'
  BY <1>2, <1>3, Deployment DEF OInv, KindInv
<1>5. OwnersGrow
  BY <1>2, OwnersSame
<1>6. EndsInv'
  BY <1>2, <1>5, EndsStay DEF OInv
<1> QED BY <1>2, <1>4, <1>6, TakeO

LEMMA ForwardToGroupO ==
    ASSUME IInv, OInv, NEW n \in Nodes, NEW fd, ForwardToGroup(n, fd)
    PROVE  OInv'
<1>1. PICK g, m, u : /\ g = <<n, fd>> /\ m = Head(ipc[n][fd])
                     /\ u = [i \in DOMAIN member[g] |->
                               IF fd \in DOMAIN object_group_single[n] /\ object_group_single[n][fd] # i
                               THEN member[g][i] ELSE Append(member[g][i], m)]
  OBVIOUS
<1>2. PICK x : object_group_single' = [object_group_single EXCEPT ![n] = x]
  BY DEF ForwardToGroup
<1>3. /\ Takes(n, fd, {"call", "final"}) /\ ipc' = Taken(n, fd)
      /\ fd \in object_group[n]
      /\ member' = [member EXCEPT ![g] = u]
      /\ Deliver(n, fd, m) \/ inbox' = inbox
      /\ UNCHANGED <<deployment, recv, overlap, serving, owner, client, maps, counters, main, body>>
      /\ UNCHANGED <<object_group, returned, run>>
  BY <1>1 DEF ForwardToGroup, mpi
<1>4. m \in Msg
  <2>1. ipc[n][fd] \in Seq(Msg) /\ ipc[n][fd] # <<>>
    BY <1>3 DEF Takes, IInv, TypeInv, SockType
  <2> QED BY <1>1, <2>1, TailSet
<1>5. object_group_single' = [k \in Nodes |-> object_group_single'[k]]
  <2>1. object_group_single = [k \in Nodes |-> object_group_single[k]]
    BY DEF OInv, KindInv
  <2> QED BY <1>2, <2>1
<1>6. g \in DOMAIN member /\ member[g] \in [Ranks -> Seq(Msg)]
  BY <1>1, <1>3 DEF OInv, KindInv
<1>7. u \in [Ranks -> Seq(Msg)]
  <2>1. \A i \in Ranks : member[g][i] \in Seq(Msg) /\ Append(member[g][i], m) \in Seq(Msg)
    BY <1>4, <1>6
  <2> QED BY <1>1, <1>6, <2>1
<1>8. DOMAIN member' = DOMAIN member /\ \A h \in DOMAIN member : member'[h] = IF h = g THEN u ELSE member[h]
  BY <1>3
<1>9. fd \in DOMAIN owner[n] /\ owner[n][fd] \in Grouping
  BY <1>3 DEF OInv, GroupSockets
<1>10. inbox' \in [Clients' -> Seq(Msg)]
  <2>1. CASE Deliver(n, fd, m)
    BY <1>3, <1>4, <2>1, DeliverTo
  <2>2. CASE inbox' = inbox
    BY <1>3, <2>2, Deployment DEF OInv, KindInv
  <2> QED BY <1>3, <2>1, <2>2
<1>11. KindInv'
  BY <1>3, <1>5, <1>7, <1>8, <1>10, Deployment DEF OInv, KindInv
<1>12. OwnersGrow
  BY <1>3, OwnersSame
<1>13. EndsInv'
  BY <1>3, <1>12, EndsStay DEF OInv
<1>14. CASE Deliver(n, fd, m)
  BY <1>3, <1>4, <1>9, <1>11, <1>13, <1>14, TakeTellO
<1>15. CASE inbox' = inbox
  BY <1>3, <1>11, <1>13, <1>15, TakeO
<1> QED BY <1>3, <1>14, <1>15

LEMMA ObjectCallsBackO ==
    ASSUME IInv, OInv, NEW n \in Nodes, NEW outcome, ObjectCallsBack(n, outcome)
    PROVE  OInv'
<1>1. PICK a, f, s : a = Message("address", None, 0, FALSE, n, main[n].id) /\ f = main[n].fd /\ s = main[n].src
  OBVIOUS
<1>2. /\ main[n].at = "exec"
      /\ UNCHANGED <<deployment, recv, overlap, groups, serving, local, owner, client, maps, counters>>
      /\ \/ main' = [main EXCEPT ![n].at = "stuck"] /\ UNCHANGED <<body, inbox>>
         \/ s = None /\ Deliver(n, f, a) /\ main' = [main EXCEPT ![n] = Idle] /\ UNCHANGED body
         \/ /\ main' = [main EXCEPT ![n].at = "sent"] /\ UNCHANGED inbox
            /\ body' = body \cup {Body("address", n, s, f, 0, a)}
  BY <1>1 DEF ObjectCallsBack, local, mpi
<1>3. UNCHANGED <<object_group, object_group_single, member, returned, run>>
  BY <1>2 DEF groups
<1>4. OwnersGrow
  BY <1>2, OwnersSame
<1>5. a \in Msg /\ a.op = "address" /\ a.node = n
  <2>1. main[n] \in MainType
    BY DEF IInv, TypeInv
  <2>2. n \in Nat /\ main[n].id \in Nat
    BY <2>1, InterconnectorAssumption DEF Nodes, MainType
  <2> QED BY <1>1, <2>2 DEF Msg, Message, Ops
<1>6. CASE main' = [main EXCEPT ![n].at = "stuck"] /\ UNCHANGED <<body, inbox>>
  <2>1. KindInv'
    BY <1>2, <1>6, KindStays DEF OInv
  <2>2. EndsInv'
    BY <1>2, <1>4, <1>6, MainGoes, EndsStay DEF OInv
  <2> QED BY <1>2, <1>3, <1>6, <2>1, <2>2, RestO
<1>7. CASE s = None /\ Deliver(n, f, a) /\ main' = [main EXCEPT ![n] = Idle] /\ UNCHANGED body
  <2>1. Asker(n, f)
    BY <1>1, <1>2, <1>7 DEF OInv, EndsInv, ReturnEnds
  <2>2. ~(f \in DOMAIN owner[n] /\ owner[n][f] \in Grouping)
    BY <2>1 DEF Asker
  <2>3. inbox' \in [Clients' -> Seq(Msg)]
    BY <1>2, <1>5, <1>7, <2>2, DeliverTo
  <2>4. KindInv'
    BY <1>2, <1>3, <2>3, Deployment DEF OInv, KindInv
  <2>5. Idle.at = "poll"
    BY DEF Idle
  <2>6. EndsInv'
    BY <1>2, <1>4, <1>7, <2>5, MainBecomes, EndsStay DEF OInv
  <2> QED BY <1>2, <1>3, <1>5, <1>7, <2>2, <2>4, <2>6, TellO
<1>8. CASE /\ main' = [main EXCEPT ![n].at = "sent"] /\ UNCHANGED inbox
           /\ body' = body \cup {Body("address", n, s, f, 0, a)}
  <2>1. KindInv'
    BY <1>2, <1>8, KindStays DEF OInv
  <2>2. \A b \in body' : b \in body \/ (b.m.op = "address" /\ b.m.node = b.src)
    BY <1>5, <1>8 DEF Body
  <2>3. EndsInv'
    BY <1>2, <1>4, <1>8, <2>2, MainGoes, EndsStay DEF OInv
  <2> QED BY <1>2, <1>3, <1>8, <2>1, <2>3, RestO
<1> QED BY <1>2, <1>6, <1>7, <1>8

\* Sockets p of the nodes where n has one more, and no client is at it.
LEMMA Unowned ==
    ASSUME NEW S, None \in S, NEW p \in [Nodes -> Seq(S)], NEW n \in Nodes, NEW q, q = Extend(p, n, None)
    PROVE  /\ q \in [Nodes -> Seq(S)]
           /\ \A k \in Nodes : \A f \in DOMAIN p[k] : f \in DOMAIN q[k] /\ q[k][f] = p[k][f]
           /\ \A k \in Nodes : \A f \in DOMAIN q[k] : f \in DOMAIN p[k] \/ q[k][f] = None
           /\ Len(q[n]) = Len(p[n]) + 1
           /\ \A k \in Nodes : k # n => q[k] = p[k]
<1>1. PICK o : o = p[n]
  OBVIOUS
<1>2. o \in Seq(S) /\ q[n] = Append(o, None)
  BY <1>1 DEF Extend
<1>3. \A k \in Nodes : k # n => q[k] = p[k]
  BY DEF Extend
<1>4. /\ q[n] \in Seq(S) /\ Len(q[n]) = Len(o) + 1
      /\ DOMAIN q[n] = DOMAIN o \cup {Len(o) + 1}
      /\ \A i \in DOMAIN o : q[n][i] = o[i]
      /\ q[n][Len(o) + 1] = None
  BY <1>2, AppendSet
<1>5. q = [k \in Nodes |-> IF k = n THEN q[n] ELSE p[k]]
  BY DEF Extend
<1>6. q \in [Nodes -> Seq(S)]
  BY <1>4, <1>5
<1> QED BY <1>1, <1>3, <1>4, <1>6

\* The main thread of n takes a message from socket fd and opens sockets,
\* which no client is at and with at most m on them.
Opening(n, fd, m) ==
    /\ ipc' \in SockType /\ owner' \in [Nodes -> Seq(Clients \cup {None})]
    /\ \A k \in Nodes : Len(owner'[k]) = Len(ipc'[k])
    /\ \A k \in Nodes : \A f \in DOMAIN ipc[k] : f \in DOMAIN ipc'[k] /\ owner'[k][f] = owner[k][f]
    /\ ipc'[n][fd] = Tail(ipc[n][fd])
    /\ \A k \in Nodes : \A f \in DOMAIN ipc[k] : k # n \/ f # fd => ipc'[k][f] = ipc[k][f]
    /\ \A k \in Nodes : \A f \in DOMAIN ipc'[k] :
         f \in DOMAIN ipc[k] \/ (owner'[k][f] = None /\ (ipc'[k][f] = <<>> \/ ipc'[k][f] = <<m>>))

\* No, one or two sockets are opened.
LEMMA OpensNone ==
    ASSUME IInv, OwnerInv, NEW n \in Nodes, NEW fd, NEW ops, Takes(n, fd, ops), NEW m \in Msg,
           ipc' = Taken(n, fd), owner' = owner
    PROVE  Opening(n, fd, m)
<1>1. ipc' \in SockType /\ \A k \in Nodes : DOMAIN ipc'[k] = DOMAIN ipc[k]
  BY TakeShape
<1>2. ipc'[n][fd] = Tail(ipc[n][fd])
  BY TakeShape
<1>3. \A k \in Nodes : \A f \in DOMAIN ipc[k] : k # n \/ f # fd => ipc'[k][f] = ipc[k][f]
  BY TakeShape
<1>4. \A k \in Nodes : Len(ipc'[k]) = Len(ipc[k])
  BY <1>1 DEF IInv, TypeInv, SockType
<1>5. owner' \in [Nodes -> Seq(Clients \cup {None})] /\ \A k \in Nodes : Len(owner'[k]) = Len(ipc'[k])
  BY <1>4 DEF OwnerInv
<1> QED BY <1>1, <1>2, <1>3, <1>5 DEF Opening

\* What is left of the sockets of node n.
LEMMA TakenShape ==
    ASSUME IInv, NEW n \in Nodes, NEW fd, NEW ops, Takes(n, fd, ops), NEW q, q = Taken(n, fd)
    PROVE  /\ q \in SockType
           /\ \A k \in Nodes : DOMAIN q[k] = DOMAIN ipc[k] /\ Len(q[k]) = Len(ipc[k])
           /\ q[n][fd] = Tail(ipc[n][fd])
           /\ \A k \in Nodes : \A f \in DOMAIN ipc[k] : k # n \/ f # fd => q[k][f] = ipc[k][f]
<1>1. ipc \in SockType /\ fd \in DOMAIN ipc[n] /\ ipc[n][fd] # <<>>
  BY DEF IInv, TypeInv, Takes
<1>2. ipc[n][fd] \in Seq(Msg)
  BY <1>1 DEF SockType
<1>3. PICK t : t = Tail(ipc[n][fd])
  OBVIOUS
<1>4. t \in Seq(Msg)
  BY <1>1, <1>2, <1>3, TailSet
<1>5. q = Replace(ipc, n, fd, t)
  BY <1>3 DEF Taken, Replace
<1>6. q \in SockType /\ q[n][fd] = t
  BY <1>1, <1>4, <1>5, Replaced
<1>7. \A k \in Nodes : DOMAIN q[k] = DOMAIN ipc[k]
  BY <1>1, <1>4, <1>5, Replaced
<1>8. \A k \in Nodes : \A f \in DOMAIN ipc[k] : k # n \/ f # fd => q[k][f] = ipc[k][f]
  BY <1>1, <1>4, <1>5, Replaced
<1>9. \A k \in Nodes : Len(q[k]) = Len(ipc[k])
  BY <1>1, <1>6, <1>7 DEF SockType
<1> QED BY <1>3, <1>6, <1>7, <1>8, <1>9

LEMMA OpensOne ==
    ASSUME IInv, OwnerInv, NEW n \in Nodes, NEW fd, NEW ops, Takes(n, fd, ops), NEW m \in Msg, NEW q, q = Taken(n, fd),
           ipc' = Extend(q, n, <<>>), owner' = Extend(owner, n, None)
    PROVE  /\ Opening(n, fd, m) /\ Len(ipc[n]) + 1 \in DOMAIN ipc'[n] \ DOMAIN ipc[n]
           /\ \A k \in Nodes : \A f \in DOMAIN ipc'[k] : f \in DOMAIN ipc[k] \/ ipc'[k][f] = <<>>
<1>1. /\ q \in SockType
      /\ \A k \in Nodes : DOMAIN q[k] = DOMAIN ipc[k] /\ Len(q[k]) = Len(ipc[k])
      /\ q[n][fd] = Tail(ipc[n][fd])
      /\ \A k \in Nodes : \A f \in DOMAIN ipc[k] : k # n \/ f # fd => q[k][f] = ipc[k][f]
  BY TakenShape
<1>2. PICK e : e = <<>>
  OBVIOUS
<1>3. e \in Seq(Msg) /\ ipc' = Extend(q, n, e)
  BY <1>2
<1>4. /\ ipc' \in SockType
      /\ \A k \in Nodes : DOMAIN q[k] \subseteq DOMAIN ipc'[k]
      /\ \A k \in Nodes : \A f \in DOMAIN q[k] : ipc'[k][f] = q[k][f]
      /\ \A k \in Nodes : \A f \in DOMAIN ipc'[k] \ DOMAIN q[k] : k = n /\ f = Len(q[n]) + 1
      /\ Len(q[n]) + 1 \in DOMAIN ipc'[n] \ DOMAIN q[n]
      /\ ipc'[n][Len(q[n]) + 1] = e
      /\ Len(ipc'[n]) = Len(q[n]) + 1
  BY <1>1, <1>3, Opened
<1>5. \A k \in Nodes : k # n => ipc'[k] = q[k]
  BY <1>1, <1>3 DEF Extend, SockType
<1>6. PICK S : S = Clients \cup {None}
  OBVIOUS
<1>7. None \in S /\ owner \in [Nodes -> Seq(S)] /\ \A k \in Nodes : Len(owner[k]) = Len(ipc[k])
  BY <1>6 DEF OwnerInv
<1>8. /\ owner' \in [Nodes -> Seq(S)]
      /\ \A k \in Nodes : \A f \in DOMAIN owner[k] : f \in DOMAIN owner'[k] /\ owner'[k][f] = owner[k][f]
      /\ \A k \in Nodes : \A f \in DOMAIN owner'[k] : f \in DOMAIN owner[k] \/ owner'[k][f] = None
      /\ Len(owner'[n]) = Len(owner[n]) + 1
      /\ \A k \in Nodes : k # n => owner'[k] = owner[k]
  BY <1>7, Unowned
<1>9. \A k \in Nodes : Len(owner'[k]) = Len(ipc'[k])
  <2>1. Len(owner'[n]) = Len(ipc'[n])
    BY <1>1, <1>4, <1>7, <1>8
  <2>2. ASSUME NEW k \in Nodes, k # n PROVE Len(owner'[k]) = Len(ipc'[k])
    BY <1>1, <1>5, <1>7, <1>8, <2>2
  <2> QED BY <2>1, <2>2
<1>10. \A k \in Nodes : DOMAIN owner'[k] = DOMAIN ipc'[k] /\ DOMAIN owner[k] = DOMAIN ipc[k]
  <2>1. \A k \in Nodes : owner'[k] \in Seq(S) /\ ipc'[k] \in Seq(Seq(Msg)) /\ owner[k] \in Seq(S)
    BY <1>4, <1>7, <1>8 DEF SockType
  <2>2. \A k \in Nodes : DOMAIN owner'[k] = DOMAIN ipc'[k]
    BY <1>9, <2>1
  <2>3. \A k \in Nodes : DOMAIN owner[k] = DOMAIN ipc[k]
    BY Sockets
  <2> QED BY <2>2, <2>3
<1>11. \A k \in Nodes : \A f \in DOMAIN ipc'[k] : f \in DOMAIN ipc[k] \/ (owner'[k][f] = None /\ ipc'[k][f] = <<>>)
  BY <1>1, <1>2, <1>4, <1>8, <1>10
<1>12. fd \in DOMAIN ipc[n]
  BY DEF Takes
<1>13. Opening(n, fd, m)
  BY <1>1, <1>4, <1>6, <1>8, <1>9, <1>10, <1>11, <1>12, SMTT(30) DEF Opening
<1> QED BY <1>1, <1>4, <1>11, <1>13

LEMMA OpensTwo ==
    ASSUME IInv, OwnerInv, NEW n \in Nodes, NEW fd, NEW ops, Takes(n, fd, ops), NEW m \in Msg, NEW q, q = Taken(n, fd),
           NEW p, p = Extend(q, n, <<>>), ipc' = Extend(p, n, <<m>>),
           NEW o, o = Extend(owner, n, None), owner' = Extend(o, n, None)
    PROVE  Opening(n, fd, m) /\ Len(ipc[n]) + 1 \in DOMAIN ipc'[n] \ DOMAIN ipc[n]
<1>1. /\ q \in SockType
      /\ \A k \in Nodes : DOMAIN q[k] = DOMAIN ipc[k] /\ Len(q[k]) = Len(ipc[k])
      /\ q[n][fd] = Tail(ipc[n][fd])
      /\ \A k \in Nodes : \A f \in DOMAIN ipc[k] : k # n \/ f # fd => q[k][f] = ipc[k][f]
  BY TakenShape
<1>2. PICK e, s : e = <<>> /\ s = <<m>>
  OBVIOUS
<1>3. e \in Seq(Msg) /\ s \in Seq(Msg) /\ p = Extend(q, n, e) /\ ipc' = Extend(p, n, s)
  BY <1>2
<1>4. /\ p \in SockType
      /\ \A k \in Nodes : DOMAIN q[k] \subseteq DOMAIN p[k]
      /\ \A k \in Nodes : \A f \in DOMAIN q[k] : p[k][f] = q[k][f]
      /\ \A k \in Nodes : \A f \in DOMAIN p[k] \ DOMAIN q[k] : k = n /\ f = Len(q[n]) + 1
      /\ Len(q[n]) + 1 \in DOMAIN p[n] \ DOMAIN q[n]
      /\ p[n][Len(q[n]) + 1] = e
      /\ Len(p[n]) = Len(q[n]) + 1
  <2>1. q \in SockType
    BY <1>1
  <2>2. e \in Seq(Msg) /\ p = Extend(q, n, e)
    BY <1>3
  <2> QED BY <2>1, <2>2, Opened
<1>5. /\ ipc' \in SockType
      /\ \A k \in Nodes : DOMAIN p[k] \subseteq DOMAIN ipc'[k]
      /\ \A k \in Nodes : \A f \in DOMAIN p[k] : ipc'[k][f] = p[k][f]
      /\ \A k \in Nodes : \A f \in DOMAIN ipc'[k] \ DOMAIN p[k] : k = n /\ f = Len(p[n]) + 1
      /\ Len(p[n]) + 1 \in DOMAIN ipc'[n] \ DOMAIN p[n]
      /\ ipc'[n][Len(p[n]) + 1] = s
      /\ Len(ipc'[n]) = Len(p[n]) + 1
  <2>1. p \in SockType
    BY <1>4
  <2>2. s \in Seq(Msg) /\ ipc' = Extend(p, n, s)
    BY <1>3
  <2> QED BY <2>1, <2>2, Opened
<1>6. \A k \in Nodes : k # n => ipc'[k] = q[k]
  BY <1>1, <1>3 DEF Extend, SockType
<1>7. PICK S : S = Clients \cup {None}
  OBVIOUS
<1>8. None \in S /\ owner \in [Nodes -> Seq(S)] /\ \A k \in Nodes : Len(owner[k]) = Len(ipc[k])
  BY <1>7 DEF OwnerInv
<1>9. /\ o \in [Nodes -> Seq(S)]
      /\ \A k \in Nodes : \A f \in DOMAIN owner[k] : f \in DOMAIN o[k] /\ o[k][f] = owner[k][f]
      /\ \A k \in Nodes : \A f \in DOMAIN o[k] : f \in DOMAIN owner[k] \/ o[k][f] = None
      /\ Len(o[n]) = Len(owner[n]) + 1
      /\ \A k \in Nodes : k # n => o[k] = owner[k]
  BY <1>8, Unowned
<1>10. /\ owner' \in [Nodes -> Seq(S)]
       /\ \A k \in Nodes : \A f \in DOMAIN o[k] : f \in DOMAIN owner'[k] /\ owner'[k][f] = o[k][f]
       /\ \A k \in Nodes : \A f \in DOMAIN owner'[k] : f \in DOMAIN o[k] \/ owner'[k][f] = None
       /\ Len(owner'[n]) = Len(o[n]) + 1
       /\ \A k \in Nodes : k # n => owner'[k] = o[k]
  <2>1. None \in S /\ o \in [Nodes -> Seq(S)]
    BY <1>8, <1>9
  <2> QED BY <2>1, Unowned
<1>11. /\ \A k \in Nodes : \A f \in DOMAIN owner[k] : f \in DOMAIN owner'[k] /\ owner'[k][f] = owner[k][f]
       /\ \A k \in Nodes : \A f \in DOMAIN owner'[k] : f \in DOMAIN owner[k] \/ owner'[k][f] = None
  BY <1>9, <1>10
<1>12. \A k \in Nodes : Len(owner'[k]) = Len(ipc'[k])
  <2>1. Len(owner'[n]) = Len(ipc'[n])
    <3>1. Len(owner'[n]) = Len(ipc[n]) + 1 + 1
      BY <1>8, <1>9, <1>10
    <3>2. Len(ipc'[n]) = Len(ipc[n]) + 1 + 1
      BY <1>1, <1>4, <1>5
    <3> QED BY <3>1, <3>2
  <2>2. ASSUME NEW k \in Nodes, k # n PROVE Len(owner'[k]) = Len(ipc'[k])
    <3>1. owner'[k] = owner[k]
      BY <1>9, <1>10, <2>2
    <3>2. ipc'[k] = q[k] /\ Len(q[k]) = Len(ipc[k])
      BY <1>1, <1>6, <2>2
    <3> QED BY <1>8, <3>1, <3>2
  <2> QED BY <2>1, <2>2
<1>13. \A k \in Nodes : DOMAIN owner'[k] = DOMAIN ipc'[k] /\ DOMAIN owner[k] = DOMAIN ipc[k]
  <2>1. \A k \in Nodes : owner'[k] \in Seq(S) /\ ipc'[k] \in Seq(Seq(Msg))
    BY <1>5, <1>10 DEF SockType
  <2>2. \A k \in Nodes : DOMAIN owner'[k] = DOMAIN ipc'[k]
    BY <1>12, <2>1
  <2>3. \A k \in Nodes : DOMAIN owner[k] = DOMAIN ipc[k]
    BY Sockets
  <2> QED BY <2>2, <2>3
<1>14. ASSUME NEW k \in Nodes, NEW f \in DOMAIN ipc'[k], f \notin DOMAIN ipc[k]
       PROVE  owner'[k][f] = None /\ (ipc'[k][f] = <<>> \/ ipc'[k][f] = <<m>>)
  <2>1. owner'[k][f] = None
    BY <1>11, <1>13, <1>14
  <2>2. CASE f \in DOMAIN p[k]
    BY <1>1, <1>2, <1>4, <1>5, <1>14, <2>1, <2>2
  <2>3. CASE f \notin DOMAIN p[k]
    BY <1>2, <1>5, <2>1, <2>3
  <2> QED BY <2>1, <2>2, <2>3
<1>15. fd \in DOMAIN ipc[n]
  BY DEF Takes
<1>16. \A k \in Nodes : \A f \in DOMAIN ipc[k] : f \in DOMAIN ipc'[k] /\ ipc'[k][f] = q[k][f]
  BY <1>1, <1>4, <1>5
<1>17. \A k \in Nodes : \A f \in DOMAIN ipc[k] : owner'[k][f] = owner[k][f]
  BY <1>11, <1>13
<1>18. Opening(n, fd, m)
  <2>1. owner' \in [Nodes -> Seq(Clients \cup {None})] /\ ipc' \in SockType
    BY <1>5, <1>7, <1>10
  <2>2. ipc'[n][fd] = Tail(ipc[n][fd])
    BY <1>1, <1>15, <1>16
  <2>3. \A k \in Nodes : \A f \in DOMAIN ipc[k] : k # n \/ f # fd => ipc'[k][f] = ipc[k][f]
    BY <1>1, <1>16
  <2> QED BY <1>12, <1>14, <1>16, <1>17, <2>1, <2>2, <2>3 DEF Opening
<1> QED BY <1>1, <1>4, <1>5, <1>18

\* What a request from another node does: it is taken, and goes to out; or the
\* process dies.
Hands(n, fd, b, new, out) ==
    /\ Takes(n, fd, {"request"})
    /\ b \in body /\ b.kind = "request" /\ b.dst = n /\ body' = body \ {b}
    /\ b.src \in Nodes /\ b.tag \in Nat /\ b.m \in Msg /\ b.m.op \in {"call", "answer"}
    /\ out = IF new THEN Len(ipc[n]) + 1 ELSE connectionmap[n][<<b.src, b.id>>]
    /\ ~new => <<b.src, b.id>> \in DOMAIN connectionmap[n]
    /\ UNCHANGED <<deployment, multiple, recv, cmd, incomingconnection, incomingtag, allocation_return, counters, groups,
                   objects, client, inbox>>

Dies(n) ==
    /\ main' = [main EXCEPT ![n].at = "dead"]
    /\ UNCHANGED <<local, serving, overlap, connectionmap, outgoingconnection>>

Passes(n, fd, b, new, out) ==
    /\ Opening(n, fd, b.m)
    /\ new => out \in DOMAIN ipc'[n] \ DOMAIN ipc[n]
    /\ connectionmap' = [connectionmap EXCEPT ![n] = Put(@, <<b.src, b.id>>, out)]
    /\ outgoingconnection' = [outgoingconnection EXCEPT ![n] = Put(@, out, [tag |-> b.tag, src |-> b.src])]
    /\ main' = main
    /\ \/ b.id = 0 /\ UNCHANGED <<serving, overlap>>
       \/ /\ b.id # 0 /\ serving' = serving \cup {[node |-> n, id |-> b.id, fd |-> out, m |-> b.m]}
          /\ \A k \in Nodes : \A f \in DOMAIN ipc'[k] : f \in DOMAIN ipc[k] \/ ipc'[k][f] = <<>>
          /\ overlap' = \/ overlap
                        \/ \E r \in serving : r.node = n /\ r.fd = out /\ r.m.sync
                        \/ ~new /\ ipc[n][out] # <<>>

LEMMA RequestShape ==
    ASSUME IInv, OwnerInv, NEW n \in Nodes, NEW fd, RequestFromMpi(n, fd)
    PROVE  \E b, out : \E new \in BOOLEAN : Hands(n, fd, b, new, out) /\ (Dies(n) \/ Passes(n, fd, b, new, out))
<1>1. PICK w, fresh, q : w = Head(ipc[n][fd]) /\ fresh = Len(ipc[n]) + 1 /\ q = Taken(n, fd)
  OBVIOUS
<1>2. /\ Takes(n, fd, {"request"})
      /\ UNCHANGED <<deployment, multiple, recv, cmd, incomingconnection, incomingtag, allocation_return, counters, groups,
                     objects, client, inbox>>
  BY DEF RequestFromMpi
<1>3. PICK b \in body :
      /\ b.kind = "request" /\ b.src = Head(ipc[n][fd]).node /\ b.dst = n /\ b.tag = Head(ipc[n][fd]).id
      /\ LET new == NeedsConnection(n, b.src, b.id)
             out == IF new THEN Len(ipc[n]) + 1 ELSE connectionmap[n][<<b.src, b.id>>]
             entry == [tag |-> b.tag, src |-> b.src]
             up == \E o \in objects : o.node = n /\ o.id = b.id /\ o.up IN
         /\ body' = body \ {b}
         /\ IF b.id = 0
            THEN /\ ipc' = [Taken(n, fd) EXCEPT ![n] = @ \o <<<<>>, <<b.m>>>>]
                 /\ owner' = [owner EXCEPT ![n] = @ \o <<None, None>>]
                 /\ UNCHANGED <<main, serving, overlap>>
                 /\ connectionmap' = [connectionmap EXCEPT ![n] = Put(@, <<b.src, b.id>>, out)]
                 /\ outgoingconnection' = [outgoingconnection EXCEPT ![n] = Put(@, out, entry)]
            ELSE IF new /\ ~up
            THEN /\ main' = [main EXCEPT ![n].at = "dead"]
                 /\ UNCHANGED <<local, serving, overlap, connectionmap, outgoingconnection>>
            ELSE /\ ipc' = IF new THEN [Taken(n, fd) EXCEPT ![n] = Append(@, <<>>)] ELSE Taken(n, fd)
                 /\ owner' = IF new THEN [owner EXCEPT ![n] = Append(@, None)] ELSE owner
                 /\ serving' = serving \cup {[node |-> n, id |-> b.id, fd |-> out, m |-> b.m]}
                 /\ overlap' = \/ overlap
                               \/ \E r \in serving : r.node = n /\ r.fd = out /\ r.m.sync
                               \/ ~new /\ ipc[n][out] # <<>>
                 /\ connectionmap' = [connectionmap EXCEPT ![n] = Put(@, <<b.src, b.id>>, out)]
                 /\ outgoingconnection' = [outgoingconnection EXCEPT ![n] = Put(@, out, entry)]
                 /\ UNCHANGED main
  BY Zenon DEF RequestFromMpi
<1>4. PICK m, key, new, out, entry, up :
        /\ m = b.m /\ key = <<b.src, b.id>>
        /\ new = NeedsConnection(n, b.src, b.id)
        /\ out = IF new THEN fresh ELSE connectionmap[n][key]
        /\ entry = [tag |-> b.tag, src |-> b.src]
        /\ up = (\E o \in objects : o.node = n /\ o.id = b.id /\ o.up)
  OBVIOUS
<1>5. m \in Msg /\ b.id \in Nat /\ b.tag \in Nat /\ b.src \in Nodes /\ m.op \in {"call", "answer"}
  <2>1. b \in BodyType
    BY DEF IInv, TypeInv
  <2>2. m \in Msg /\ b.id \in Nat /\ b.tag \in Nat /\ b.src \in Nodes
    BY <1>4, <2>1 DEF BodyType
  <2> QED BY <1>3, <1>4, <2>2 DEF IInv, RouteInv, BodyRoute
<1>6. new \in BOOLEAN /\ (~new => key \in DOMAIN connectionmap[n])
  BY <1>4 DEF NeedsConnection
<1>7. body' = body \ {b} /\ out = (IF new THEN Len(ipc[n]) + 1 ELSE connectionmap[n][key])
  BY <1>1, <1>3, <1>4
<1>8. Hands(n, fd, b, new, out)
  BY <1>2, <1>3, <1>4, <1>5, <1>6, <1>7 DEF Hands
<1>9. q \in SockType /\ q[n] \in Seq(Seq(Msg)) /\ owner \in [Nodes -> Seq(Clients \cup {None})]
  <2>1. q \in SockType
    BY <1>1, <1>2, TakenShape
  <2> QED BY <2>1 DEF SockType, OwnerInv
<1>10. CASE b.id = 0
  <2>1. /\ ipc' = [q EXCEPT ![n] = @ \o <<<<>>, <<m>>>>]
        /\ owner' = [owner EXCEPT ![n] = @ \o <<None, None>>]
        /\ UNCHANGED <<main, serving, overlap>>
        /\ connectionmap' = [connectionmap EXCEPT ![n] = Put(@, key, out)]
        /\ outgoingconnection' = [outgoingconnection EXCEPT ![n] = Put(@, out, entry)]
    BY <1>1, <1>3, <1>4, <1>10
  <2>2. q[n] \o <<<<>>, <<m>>>> = Append(Append(q[n], <<>>), <<m>>)
    <3>1. PICK z, u, v : z = q[n] /\ u = <<>> /\ v = <<m>>
      OBVIOUS
    <3>2. z \in Seq(Seq(Msg)) /\ u \in Seq(Msg) /\ v \in Seq(Msg)
      BY <1>5, <1>9, <3>1
    <3>3. z \o <<u, v>> = Append(Append(z, u), v)
      BY <3>2, AppendTwo
    <3> QED BY <3>1, <3>3
  <2>3. owner[n] \o <<None, None>> = Append(Append(owner[n], None), None)
    <3>1. PICK z, S : z = owner[n] /\ S = Clients \cup {None}
      OBVIOUS
    <3>2. z \in Seq(S) /\ None \in S
      BY <1>9, <3>1
    <3>3. z \o <<None, None>> = Append(Append(z, None), None)
      BY <3>2, AppendTwo
    <3> QED BY <3>1, <3>3
  <2>4. PICK p, o : p = Extend(q, n, <<>>) /\ o = Extend(owner, n, None)
    OBVIOUS
  <2>5. ipc' = Extend(p, n, <<m>>)
    BY <1>9, <2>1, <2>2, <2>4 DEF Extend, SockType
  <2>6. owner' = Extend(o, n, None)
    BY <1>9, <2>1, <2>3, <2>4 DEF Extend
  <2>7. Opening(n, fd, m) /\ Len(ipc[n]) + 1 \in DOMAIN ipc'[n] \ DOMAIN ipc[n]
    BY <1>1, <1>2, <1>5, <2>4, <2>5, <2>6, OpensTwo
  <2>8. Passes(n, fd, b, new, out)
    BY <1>4, <1>7, <1>10, <2>1, <2>7 DEF Passes
  <2> QED BY <1>6, <1>8, <2>8
<1>11. CASE b.id # 0 /\ new /\ ~up
  <2>1. Dies(n)
    BY <1>3, <1>4, <1>11 DEF Dies
  <2> QED BY <1>6, <1>8, <2>1
<1>12. CASE b.id # 0 /\ ~(new /\ ~up)
  <2>1. /\ ipc' = IF new THEN [q EXCEPT ![n] = Append(@, <<>>)] ELSE q
        /\ owner' = IF new THEN [owner EXCEPT ![n] = Append(@, None)] ELSE owner
        /\ serving' = serving \cup {[node |-> n, id |-> b.id, fd |-> out, m |-> m]}
        /\ connectionmap' = [connectionmap EXCEPT ![n] = Put(@, key, out)]
        /\ outgoingconnection' = [outgoingconnection EXCEPT ![n] = Put(@, out, entry)]
        /\ UNCHANGED main
    BY <1>1, <1>3, <1>4, <1>12
  <2>2. overlap' = \/ overlap
                   \/ \E r \in serving : r.node = n /\ r.fd = out /\ r.m.sync
                   \/ ~new /\ ipc[n][out] # <<>>
    BY <1>1, <1>3, <1>4, <1>12
  <2>3. /\ Opening(n, fd, m)
        /\ new => Len(ipc[n]) + 1 \in DOMAIN ipc'[n] \ DOMAIN ipc[n]
        /\ \A k \in Nodes : \A f \in DOMAIN ipc'[k] : f \in DOMAIN ipc[k] \/ ipc'[k][f] = <<>>
    <3>1. CASE new
      <4>1. ipc' = Extend(q, n, <<>>) /\ owner' = Extend(owner, n, None)
        BY <2>1, <3>1 DEF Extend
      <4> QED BY <1>1, <1>2, <1>5, <4>1, OpensOne
    <3>2. CASE ~new
      <4>1. ipc' = Taken(n, fd) /\ owner' = owner
        BY <1>1, <2>1, <3>2
      <4>2. Opening(n, fd, m)
        BY <1>2, <1>5, <4>1, OpensNone
      <4>3. \A k \in Nodes : DOMAIN ipc'[k] = DOMAIN ipc[k]
        BY <1>2, <4>1, TakeShape
      <4> QED BY <3>2, <4>2, <4>3
    <3> QED BY <1>6, <3>1, <3>2
  <2>4. Passes(n, fd, b, new, out)
    BY <1>4, <1>7, <1>12, <2>1, <2>2, <2>3 DEF Passes
  <2> QED BY <1>6, <1>8, <2>4
<1> QED BY <1>10, <1>11, <1>12

\* The sockets stay with those at their other ends, and out is one of the node's own.
LEMMA OpeningOwners ==
    ASSUME IInv, OInv, NEW n \in Nodes, NEW fd, NEW m, Opening(n, fd, m)
    PROVE  OwnersGrow /\ \A k \in Nodes : DOMAIN owner'[k] = DOMAIN ipc'[k]
<1>1. \A k \in Nodes : DOMAIN owner[k] = DOMAIN ipc[k]
  BY Sockets DEF OInv
<1>2. \A k \in Nodes : owner'[k] \in Seq(Clients \cup {None}) /\ ipc'[k] \in Seq(Seq(Msg)) /\ Len(owner'[k]) = Len(ipc'[k])
  BY DEF Opening, SockType
<1>3. \A k \in Nodes : DOMAIN owner'[k] = DOMAIN ipc'[k]
  BY <1>2
<1> QED BY <1>1, <1>3 DEF Opening, OwnersGrow

LEMMA PassesTo ==
    ASSUME IInv, OInv, NEW n \in Nodes, NEW fd, NEW b, NEW new \in BOOLEAN, NEW out,
           Hands(n, fd, b, new, out), Passes(n, fd, b, new, out)
    PROVE  Inner(n, out)' /\ (~new => Inner(n, out))
<1>1. OwnersGrow /\ \A k \in Nodes : DOMAIN owner'[k] = DOMAIN ipc'[k]
  BY OpeningOwners DEF Passes
<1>2. CASE new
  <2>1. out \in DOMAIN ipc'[n] /\ out \notin DOMAIN ipc[n]
    BY <1>2 DEF Passes
  <2>2. owner'[n][out] = None
    BY <2>1 DEF Passes, Opening
  <2>3. 1 \in DOMAIN ipc[n]
    BY DEF IInv, TypeInv
  <2> QED BY <1>1, <1>2, <2>1, <2>2, <2>3 DEF Inner
<1>3. CASE ~new
  <2>1. Inner(n, out)
    BY <1>3 DEF Hands, OInv, EndsInv, ConnEnds
  <2> QED BY <1>1, <1>3, <2>1 DEF Inner, OwnersGrow
<1> QED BY <1>2, <1>3

LEMMA RequestFromMpiO ==
    ASSUME IInv, OInv, NEW n \in Nodes, NEW fd, RequestFromMpi(n, fd)
    PROVE  OInv'
<1>1. PICK b, out : \E new \in BOOLEAN : Hands(n, fd, b, new, out) /\ (Dies(n) \/ Passes(n, fd, b, new, out))
  BY RequestShape DEF OInv
<1>2. PICK new \in BOOLEAN : Hands(n, fd, b, new, out) /\ (Dies(n) \/ Passes(n, fd, b, new, out))
  BY <1>1
<1>3. /\ Takes(n, fd, {"request"}) /\ b \in body /\ body' = body \ {b} /\ b.m.op \in {"call", "answer"}
      /\ UNCHANGED <<deployment, recv, groups, client, inbox, incomingtag, allocation_return, counters>>
  BY <1>2 DEF Hands
<1>4. /\ UNCHANGED <<object_group, object_group_single, member, returned, run>>
      /\ UNCHANGED <<next_tag, allocation_id>>
  BY <1>3 DEF groups, counters
<1>5. CASE Dies(n)
  <2>1. /\ main' = [main EXCEPT ![n].at = "dead"]
        /\ UNCHANGED <<local, owner, serving, overlap, connectionmap, outgoingconnection>>
    BY <1>5 DEF Dies, local
  <2>2. KindInv'
    BY <1>3, <2>1, KindStays DEF OInv
  <2>3. OwnersGrow
    BY <2>1, OwnersSame
  <2>4. TagEnds' /\ ReturnEnds' /\ ConnEnds' /\ AddressEnds'
    BY <1>3, <1>4, <2>1, <2>3, MainGoes, TagsStay, ReturnsStay, ConnsStay, AddressesStay DEF OInv, EndsInv
  <2>5. EndsInv'
    BY <2>4 DEF EndsInv
  <2> QED BY <1>3, <1>4, <2>1, <2>2, <2>5, RestO
<1>6. CASE Passes(n, fd, b, new, out)
  <2>1. OwnersGrow /\ \A k \in Nodes : DOMAIN owner'[k] = DOMAIN ipc'[k]
    BY <1>6, OpeningOwners DEF Passes
  <2>2. overlap' \in BOOLEAN
    BY <1>6 DEF Passes, OInv, KindInv
  <2>3. KindInv'
    BY <1>3, <1>4, <2>2, Deployment DEF OInv, KindInv
  <2>4. main' = main
    BY <1>6 DEF Passes
  <2>5. TagEnds' /\ ReturnEnds' /\ AddressEnds'
    BY <1>3, <1>4, <2>1, <2>4, TagsStay, ReturnsStay, AddressesStay DEF OInv, EndsInv
  <2>6. Inner(n, out)'
    BY <1>2, <1>6, PassesTo
  <2>7. PICK c0, o0, key, entry : /\ c0 = connectionmap[n] /\ o0 = outgoingconnection[n] /\ key = <<b.src, b.id>>
                                  /\ entry = [tag |-> b.tag, src |-> b.src]
    OBVIOUS
  <2>8. /\ connectionmap'[n] = Put(c0, key, out) /\ outgoingconnection'[n] = Put(o0, out, entry)
        /\ \A k \in Nodes : k # n => connectionmap'[k] = connectionmap[k] /\ outgoingconnection'[k] = outgoingconnection[k]
    <3>1. /\ connectionmap' = [connectionmap EXCEPT ![n] = Put(c0, key, out)]
          /\ outgoingconnection' = [outgoingconnection EXCEPT ![n] = Put(o0, out, entry)]
      BY <1>6, <2>7 DEF Passes
    <3>2. connectionmap = [k \in Nodes |-> connectionmap[k]] /\ outgoingconnection = [k \in Nodes |-> outgoingconnection[k]]
      BY DEF IInv, MapInv
    <3> QED BY <3>1, <3>2
  <2>9. ASSUME NEW k \in Nodes, NEW f, Inner(k, f) PROVE Inner(k, f)'
    BY <2>1, <2>9 DEF Inner, OwnersGrow
  <2>10. ASSUME NEW k \in Nodes, NEW f \in DOMAIN outgoingconnection'[k] PROVE Inner(k, f)'
    <3>1. CASE k = n /\ f = out
      BY <2>6, <3>1
    <3>2. CASE ~(k = n /\ f = out)
      <4>1. f \in DOMAIN outgoingconnection[k]
        BY <2>7, <2>8, <2>10, <3>2 DEF Put
      <4> QED BY <2>9, <4>1 DEF OInv, EndsInv, ConnEnds
    <3> QED BY <3>1, <3>2
  <2>11. ASSUME NEW k \in Nodes, NEW x \in DOMAIN connectionmap'[k] PROVE Inner(k, connectionmap[k][x])'
    <3>1. CASE k = n /\ x = key
      <4>1. connectionmap'[k][x] = out
        BY <2>8, <3>1 DEF Put
      <4> QED BY <2>6, <3>1, <4>1
    <3>2. CASE ~(k = n /\ x = key)
      <4>1. x \in DOMAIN connectionmap[k] /\ connectionmap'[k][x] = connectionmap[k][x]
        BY <2>7, <2>8, <2>11, <3>2 DEF Put
      <4>2. PICK f : f = connectionmap[k][x]
        OBVIOUS
      <4>3. Inner(k, f)
        BY <4>1, <4>2 DEF OInv, EndsInv, ConnEnds
      <4>4. Inner(k, f)'
        BY <2>9, <4>3
      <4> QED BY <4>1, <4>2, <4>4
    <3> QED BY <3>1, <3>2
  <2>12. ASSUME NEW r \in serving' PROVE r.node \in Nodes /\ Inner(r.node, r.fd)'
    <3>1. CASE r \in serving
      BY <2>9, <3>1 DEF OInv, EndsInv, ConnEnds
    <3>2. CASE r \notin serving
      <4>1. PICK s : s = [node |-> n, id |-> b.id, fd |-> out, m |-> b.m]
        OBVIOUS
      <4>2. serving' = serving \/ serving' = serving \cup {s}
        BY <1>6, <4>1 DEF Passes
      <4>3. r.node = n /\ r.fd = out
        BY <3>2, <4>1, <4>2
      <4> QED BY <2>6, <4>3
    <3> QED BY <3>1, <3>2
  <2>13. ConnEnds'
    BY <2>10, <2>11, <2>12 DEF ConnEnds
  <2>14. EndsInv'
    BY <2>5, <2>13 DEF EndsInv
  <2>15. owner' \in [Nodes -> Seq(Clients \cup {None})] /\ \A k \in Nodes : Len(owner'[k]) = Len(ipc'[k])
    BY <1>6 DEF Passes, Opening
  <2>16. \A k \in Nodes : DOMAIN owner[k] = DOMAIN ipc[k]
    BY Sockets DEF OInv
  <2>17. \A k \in Nodes : \A f \in DOMAIN owner'[k] : f \in DOMAIN owner[k] \/ owner'[k][f] = None
    <3>1. \A k \in Nodes : \A f \in DOMAIN ipc'[k] : f \in DOMAIN ipc[k] \/ owner'[k][f] = None
      BY <1>6 DEF Passes, Opening
    <3> QED BY <2>1, <2>16, <3>1
  <2>18. ipc[n][fd] \in Seq(Msg) /\ ipc[n][fd] # <<>> /\ fd \in DOMAIN ipc[n]
    BY <1>3 DEF Takes, IInv, TypeInv, SockType
  <2>19. ToSet(Tail(ipc[n][fd])) \subseteq ToSet(ipc[n][fd])
    BY <2>18, TailSet
  <2>20. ASSUME NEW k \in Nodes, NEW f \in DOMAIN ipc'[k], NEW m \in ToSet(ipc'[k][f])
         PROVE  \/ f \in DOMAIN ipc[k] /\ m \in ToSet(ipc[k][f])
                \/ owner'[k][f] = None /\ m.op \in InnerVoice
    <3>1. CASE f \in DOMAIN ipc[k]
      BY <1>6, <2>19, <3>1 DEF Passes, Opening
    <3>2. CASE f \notin DOMAIN ipc[k]
      <4>1. owner'[k][f] = None /\ (ipc'[k][f] = <<>> \/ ipc'[k][f] = <<b.m>>)
        BY <1>6, <3>2 DEF Passes, Opening
      <4>2. m = b.m
        BY <4>1 DEF ToSet
      <4> QED BY <1>3, <4>1, <4>2 DEF InnerVoice
    <3> QED BY <3>1, <3>2
  <2> QED BY <1>3, <1>4, <2>1, <2>3, <2>14, <2>15, <2>17, <2>20, StepO
<1> QED BY <1>2, <1>5, <1>6

-----------------------------------------------------------------------------
(* The sockets are what they seem. *)

LEMMA InitO == Init /\ IInv => OInv
<1> SUFFICES ASSUME Init, IInv PROVE OInv
  OBVIOUS
<1> USE DEF Init
<1>1. KindInv
  <2>1. \A c \in Clients : inbox[c] = <<>>
    OBVIOUS
  <2>2. inbox \in [Clients -> Seq(Msg)]
    OBVIOUS
  <2>3. DOMAIN member = {} /\ DOMAIN run = {} /\ DOMAIN returned = {}
    OBVIOUS
  <2>4. {g \in Nodes \X Nat : g[2] \in object_group[g[1]]} = {}
    OBVIOUS
  <2> QED BY <2>2, <2>3, <2>4 DEF KindInv
<1>2. QuietInv
  BY DEF QuietInv
<1>3. \A n \in Nodes : Len(owner[n]) = 1 /\ Len(ipc[n]) = 1 /\ owner[n][1] = None /\ ipc[n][1] = <<>>
                       /\ DOMAIN owner[n] = {1} /\ DOMAIN ipc[n] = {1}
  OBVIOUS
<1>4. owner \in [Nodes -> Seq(Clients \cup {None})]
  OBVIOUS
<1>5. None \notin Clients /\ Grouping \subseteq Clients /\ \A c \in Clients : client[c].at = "idle"
  BY InterconnectorAssumption DEF Clients, Grouping
<1>6. OwnerInv
  BY <1>3, <1>4, <1>5 DEF OwnerInv
<1>7. SpeechInv
  <2>1. \A n \in Nodes : \A f \in DOMAIN ipc[n] : ToSet(ipc[n][f]) = {}
    BY <1>3 DEF ToSet
  <2> QED BY <2>1 DEF SpeechInv
<1>8. EndsInv
  <2>1. \A n \in Nodes : DOMAIN incomingtag[n] = {} /\ next_tag[n] = FirstTag
    OBVIOUS
  <2>2. TagEnds
    <3>1. FirstTag <= FirstTag
      BY InterconnectorAssumption
    <3> QED BY <2>1, <3>1 DEF TagEnds
  <2>3. ReturnEnds
    BY DEF ReturnEnds, Idle
  <2>4. ConnEnds
    BY DEF ConnEnds
  <2>5. AddressEnds
    BY DEF AddressEnds
  <2> QED BY <2>2, <2>3, <2>4, <2>5 DEF EndsInv
<1>9. GroupSockets
  <2>1. \A n \in Nodes : object_group[n] = {}
    OBVIOUS
  <2>2. \A n \in Nodes : \A f \in DOMAIN ipc[n] : owner[n][f] \notin Grouping
    BY <1>3, <1>5
  <2>3. \A c \in Grouping : inbox[c] = <<>> /\ client[c].at = "idle"
    BY <1>5
  <2> QED BY <2>1, <2>2, <2>3 DEF GroupSockets
<1> QED BY <1>1, <1>2, <1>6, <1>7, <1>8, <1>9 DEF OInv

LEMMA MainO ==
    ASSUME IInv, OInv, NEW n \in Nodes, Main(n)
    PROVE  OInv'
<1>1. CASE \E fd \in DOMAIN ipc[n] :
        \/ Terminate(n, fd) \/ Connection(n, fd) \/ AllocateHere(n, fd) \/ AllocateThere(n, fd)
        \/ AllocationFromMpi(n, fd) \/ RequestFromMpi(n, fd) \/ RedirectResponse(n, fd)
        \/ RedirectRequest(n, fd) \/ SpawnGroup(n, fd) \/ SetRank(n, fd) \/ ForwardToGroup(n, fd)
  BY <1>1, TerminateO, ConnectionO, AllocateHereO, AllocateThereO, AllocationFromMpiO, RequestFromMpiO,
     RedirectResponseO, RedirectRequestO, SpawnGroupO, SetRankO, ForwardToGroupO
<1>2. CASE SaveReturn(n) \/ SendCompletes(n) \/ JoinThread(n)
  BY <1>2, SaveReturnO, SendCompletesO, JoinThreadO
<1> QED BY <1>1, <1>2 DEF Main

LEMMA ReceiverO ==
    ASSUME IInv, OInv, NEW n \in Nodes, Receiver(n)
    PROVE  OInv'
  BY ReceiveCommandO, ReceiveResponseO, ReceiveAllocatedO, ReceiveGroupO DEF Receiver

LEMMA UnchangedO == IInv /\ OInv /\ UNCHANGED vars => OInv'
<1> SUFFICES ASSUME IInv, OInv, UNCHANGED vars PROVE OInv'
  OBVIOUS
<1>1. /\ UNCHANGED <<deployment, client, local, inbox, object_group, recv, overlap, groups>>
      /\ UNCHANGED <<maps, counters, serving, main, body, owner>>
  BY DEF vars, local, groups, mpi
<1>2. KindInv'
  BY <1>1, KindStays DEF OInv
<1>3. OwnersGrow
  BY <1>1, OwnersSame
<1>4. EndsInv'
  BY <1>1, <1>3, EndsStay DEF OInv
<1> QED BY <1>1, <1>2, <1>4, RestO

LEMMA NextO == IInv /\ OInv /\ [Next]_vars => OInv'
<1> SUFFICES ASSUME IInv, OInv, [Next]_vars PROVE OInv'
  OBVIOUS
<1>1. ASSUME NEW n \in Nodes, Main(n) \/ Receiver(n) \/ CallsBack(n) PROVE OInv'
  BY <1>1, MainO, ReceiverO, ObjectCallsBackO DEF CallsBack
<1>2. CASE ObjectServes \/ Members
  BY <1>2, ObjectServesO, MemberRunsO DEF Members
<1>3. ASSUME NEW c \in Clients, Program(c) \/ Read(c) PROVE OInv'
  BY <1>3, AllocateO, BindO, CallO, GroupCallO, FinalizeO, ReadO DEF Program
<1>4. CASE ProgramTerminates
  BY <1>4, ProgramTerminatesO
<1>5. CASE UNCHANGED vars
  BY <1>5, UnchangedO
<1> QED BY <1>1, <1>2, <1>3, <1>4, <1>5 DEF Next

\* Sockets, those at their ends, and the maps that lead to them stay together
\* in every reachable state.
THEOREM SocketsInductive == Spec => [](IInv /\ OInv)
<1>1. Init => IInv /\ OInv
  BY InitInv, InitO
<1>2. IInv /\ OInv /\ [Next]_vars => (IInv /\ OInv)'
  BY NextInv, NextO
<1> QED BY <1>1, <1>2, PTL DEF Spec

\* The threads, maps, messages and clients of the interconnectors are well
\* formed.
THEOREM TypeCorrect == Spec => []TypeOK
<1>1. IInv /\ OInv => TypeOK
  <2> SUFFICES ASSUME IInv, OInv PROVE TypeOK
    OBVIOUS
  <2>1. multiple \in BOOLEAN /\ overlap \in BOOLEAN /\ recv \in [Nodes -> {"run", "lost", "ended"}]
    BY DEF IInv, TypeInv, OInv, KindInv
  <2>2. main \in [Nodes -> [at : {"poll", "save", "exec", "sent", "stuck", "ended", "exited", "dead"},
                            fd : Nat, src : Nodes \cup {None}, id : Nat]]
    BY DEF IInv, TypeInv, MainType
  <2>3. \A s, d \in Nodes : \A i \in DOMAIN cmd[s][d] :
          cmd[s][d][i].what \in {"terminate", "wait", "allocate", "request", "response", "allocated"}
    <3>1. \A s, d \in Nodes : cmd[s][d] \in Seq([what : Commands, tag : Nat])
      BY DEF IInv, TypeInv, CmdType
    <3>2. ASSUME NEW s \in Nodes, NEW d \in Nodes, NEW i \in DOMAIN cmd[s][d]
          PROVE  cmd[s][d][i] \in [what : Commands, tag : Nat]
      <4>1. PICK S, q : S = [what : Commands, tag : Nat] /\ q = cmd[s][d]
        OBVIOUS
      <4>2. q \in Seq(S) /\ i \in DOMAIN q
        BY <3>1, <4>1
      <4>3. q[i] \in S
        BY <4>2
      <4> QED BY <4>1, <4>3
    <3> QED BY <3>2 DEF Commands
  <2>4. \A n \in Nodes : DOMAIN owner[n] = DOMAIN ipc[n] /\ DOMAIN owner[n] \subseteq Nat \ {0}
    BY Sockets DEF OInv
  <2>5. \A n \in Nodes :
          DOMAIN incomingconnection[n] \cup DOMAIN outgoingconnection[n] \cup object_group[n] \subseteq DOMAIN ipc[n]
    BY <2>4 DEF IInv, MapInv, OInv, EndsInv, ConnEnds, Inner, GroupSockets
  <2>6. \A n \in Nodes : \A t \in DOMAIN incomingtag[n] :
          t \in FirstTag .. next_tag[n] - 1 /\ incomingtag[n][t] \in DOMAIN ipc[n]
    BY <2>4 DEF OInv, EndsInv, TagEnds
  <2>7. \A n \in Nodes : \A k \in DOMAIN allocation_return[n] : k < allocation_id[n]
    <3>1. \A n \in Nodes : \A k \in DOMAIN allocation_return[n] : k \in 0 .. allocation_id[n] - 1
      BY DEF OInv, EndsInv, ReturnEnds
    <3>2. \A n \in Nodes : allocation_id[n] \in Nat
      BY DEF IInv, TypeInv
    <3> QED BY <3>1, <3>2
  <2>8. \A c \in Clients : client[c].at \in {"idle", "alloc", "ready", "bound", "wait", "final", "finished"}
    <3>1. \A c \in Clients : client[c] \in ClientType
      BY DEF IInv, TypeInv
    <3> QED BY <3>1 DEF ClientType
  <2> QED BY <2>1, <2>2, <2>3, <2>4, <2>5, <2>6, <2>7, <2>8 DEF TypeOK
<1> QED BY <1>1, SocketsInductive, PTL

-----------------------------------------------------------------------------
(* The calls of a group: a socket s, with the messages of its client, the  *)
(* queues q and the executed calls u of the members, the answers r, and    *)
(* the inbox b of the client, which is v.                                  *)

\* The member the j-th message of s is for, when the first is for x.
Aim(s, x, j) == IF j = 1 THEN x ELSE IF s[j - 1].op = "rank" THEN s[j - 1].id ELSE All

\* The calls of s are for the members named before them, and come in order.
Turns(s, x) ==
    /\ \A j \in DOMAIN s : s[j].op # "rank" => s[j].node = Aim(s, x, j)
    /\ \A j, k \in DOMAIN s : j < k /\ s[j].op # "rank" /\ s[k].op # "rank" => s[j].n < s[k].n
InTurn(s, x) == Turns(s, x) /\ Aim(s, x, Len(s) + 1) = All

Said(s) == {m \in ToSet(s) : m.op # "rank"}

\* What the members have, executed or queued.
Joined(u, q) == [i \in Ranks |-> u[i] \o q[i]]

\* It was called before what is on the socket, and each call once.
Behind(v, s, h) ==
    /\ \A m \in ToSet(s) : m.op # "group" /\ (m.op # "rank" => m.n <= v.n)
    /\ \A i \in Ranks : \A x \in ToSet(h[i]) : x.n <= v.n /\ \A m \in Said(s) : x.n < m.n
    /\ \A i, k \in Ranks : \A x \in ToSet(h[i]), y \in ToSet(h[k]) : x.n = y.n => x = y

\* It is for the members that have it, in order.
Exact(h) ==
    \A i \in Ranks :
        /\ \A x \in ToSet(h[i]) : x.node \in {i, All} /\ (x.node = All => \A k \in Ranks : x \in ToSet(h[k]))
        /\ \A j, k \in DOMAIN h[i] : j < k => h[i][j].n < h[i][k].n

Queued(v, s, x, h) == InTurn(s, x) /\ Behind(v, s, h) /\ Exact(h)

\* Member i answers m.
Answered(m, i) == m.op = "call" /\ (m.node # All \/ i = GroupSize - 1)

\* A client that waits for each of its calls has at most one under way.
Waiting(v, s, b) ==
    /\ \A m \in Said(s) :
        /\ b = <<>>
        /\ m.op = "group" => v.at = "alloc"
        /\ m.op = "call" => v.at = "wait" /\ m.n = v.n
        /\ m.op = "final" => v.at = "final" /\ m.n = v.n
    /\ b # <<>> =>
        /\ Len(b) = 1
        /\ b[1].op = "address" => v.at = "alloc"
        /\ b[1].op # "address" => v.at \in {"wait", "final"} /\ b[1].n = v.n
Back(v, s, b, q, r) ==
    /\ \A i \in Ranks : \A m \in ToSet(q[i]) : Answered(m, i) =>
         v.at = "wait" /\ m.n = v.n /\ b = <<>> /\ r = <<>>
    /\ r # <<>> =>
         /\ v.at = "wait" /\ b = <<>> /\ Said(s) = {}
         /\ Len(r) = 1 /\ r[1].n = v.n /\ r[1].op = "call"

\* A group that was created, and one that was not yet.
Made(v, s, b, x, q, u, r) ==
    /\ Queued(v, s, x, Joined(u, q))
    /\ ~v.post => Waiting(v, s, b) /\ Back(v, s, b, q, r)
Asked(v, s, b) ==
    /\ Len(s) <= 1
    /\ ~v.post => Waiting(v, s, b)

\* The member the next call of socket f of node n is for, or all of them.
First(n, f) == IF f \in DOMAIN object_group_single[n] THEN object_group_single[n][f] ELSE All

GroupAt(c, n, f) ==
    /\ f \notin object_group[n] => Asked(client[c], ipc[n][f], inbox[c])
    /\ f \in object_group[n] =>
        Made(client[c], ipc[n][f], inbox[c], First(n, f), member[<<n, f>>], run[<<n, f>>], returned[<<n, f>>])

GInv ==
    /\ \A c \in Grouping : client[c].at # "idle" => GroupAt(c, Home[c], client[c].fd)
    /\ \A n \in Nodes : DOMAIN object_group_single[n] \subseteq object_group[n]

-----------------------------------------------------------------------------
(* Sequences of messages. *)

\* The calls of what is left when the first message was taken.
LEMMA TailTurns ==
    ASSUME NEW s \in Seq(Msg), s # <<>>, NEW x, InTurn(s, x),
           NEW y, y = IF Head(s).op = "rank" THEN Head(s).id ELSE All
    PROVE  /\ InTurn(Tail(s), y)
           /\ Head(s).op # "rank" => Head(s).node = x /\ \A m \in Said(Tail(s)) : Head(s).n < m.n
<1>1. PICK t : t = Tail(s)
  OBVIOUS
<1>2. /\ t \in Seq(Msg) /\ Len(s) \in Nat \ {0} /\ Len(t) = Len(s) - 1
      /\ DOMAIN s = 1..Len(s) /\ DOMAIN t = 1..Len(t) /\ Head(s) = s[1]
      /\ \A i \in 1..(Len(s) - 1) : t[i] = s[i + 1]
  BY <1>1
<1>3. \A j \in 1..Len(s) : Aim(t, y, j) = Aim(s, x, j + 1)
  <2> SUFFICES ASSUME NEW j \in 1..Len(s) PROVE Aim(t, y, j) = Aim(s, x, j + 1)
    OBVIOUS
  <2>1. CASE j = 1
    BY <1>2, <2>1 DEF Aim
  <2>2. CASE j # 1
    <3>1. j - 1 \in 1..(Len(s) - 1) /\ (j - 1) + 1 = j /\ (j + 1) - 1 = j /\ j + 1 # 1
      BY <1>2, <2>2
    <3>2. t[j - 1] = s[j]
      BY <1>2, <3>1
    <3> QED BY <2>2, <3>1, <3>2 DEF Aim
  <2> QED BY <2>1, <2>2
<1>4. Aim(t, y, Len(t) + 1) = All
  <2>1. Len(t) + 1 = Len(s) /\ Len(s) \in 1..Len(s)
    BY <1>2
  <2>2. Aim(s, x, Len(s) + 1) = All
    BY DEF InTurn
  <2> QED BY <1>3, <2>1, <2>2
<1>5. ASSUME NEW j \in DOMAIN t PROVE j + 1 \in DOMAIN s /\ t[j] = s[j + 1] /\ j \in 1..Len(s) /\ j \in Nat
  BY <1>2, <1>5
<1>6. \A j \in DOMAIN t : t[j].op # "rank" => t[j].node = Aim(t, y, j)
  BY <1>3, <1>5 DEF InTurn, Turns
<1>7. ASSUME NEW j \in DOMAIN t, NEW k \in DOMAIN t, j < k, t[j].op # "rank", t[k].op # "rank"
      PROVE  t[j].n < t[k].n
  <2>1. j + 1 < k + 1
    BY <1>5, <1>7
  <2> QED BY <1>5, <1>7, <2>1 DEF InTurn, Turns
<1>8. InTurn(t, y)
  BY <1>4, <1>6, <1>7 DEF InTurn, Turns
<1>9. ASSUME s[1].op # "rank" PROVE s[1].node = x
  <2>1. 1 \in DOMAIN s
    BY <1>2
  <2> QED BY <1>9, <2>1 DEF InTurn, Turns, Aim
<1>10. ASSUME s[1].op # "rank", NEW m \in Said(t) PROVE s[1].n < m.n
  <2>1. PICK j \in DOMAIN t : t[j] = m
    BY <1>10 DEF Said, ToSet
  <2>2. 1 \in DOMAIN s /\ 1 < j + 1
    BY <1>2, <1>5
  <2> QED BY <1>5, <1>10, <2>1, <2>2 DEF InTurn, Turns, Said
<1> QED BY <1>1, <1>2, <1>8, <1>9, <1>10

\* Message m may come next, and t is what is there when it came.
Follows(s, x, m) == m.op # "rank" => m.node = Aim(s, x, Len(s) + 1) /\ \A y \in Said(s) : y.n < m.n
Grown(s, x, m, t) ==
    /\ Turns(t, x) /\ t \in Seq(Msg)
    /\ Aim(t, x, Len(t) + 1) = IF m.op = "rank" THEN m.id ELSE All
    /\ ToSet(t) = ToSet(s) \cup {m}

\* One more message.
LEMMA AddTurns ==
    ASSUME NEW s \in Seq(Msg), NEW x, Turns(s, x), NEW m \in Msg, Follows(s, x, m), NEW t, t = Append(s, m)
    PROVE  Grown(s, x, m, t)
<1>1. /\ t \in Seq(Msg) /\ Len(s) \in Nat /\ Len(t) = Len(s) + 1
      /\ DOMAIN s = 1..Len(s) /\ DOMAIN t = 1..(Len(s) + 1)
      /\ \A i \in 1..Len(s) : t[i] = s[i]
      /\ t[Len(s) + 1] = m
  OBVIOUS
<1>2. DOMAIN t = DOMAIN s \cup {Len(s) + 1} /\ \A i \in DOMAIN s : t[i] = s[i] /\ i < Len(s) + 1 /\ i \in Nat
  BY <1>1
<1>3. \A j \in DOMAIN t : Aim(t, x, j) = Aim(s, x, j)
  <2> SUFFICES ASSUME NEW j \in DOMAIN t PROVE Aim(t, x, j) = Aim(s, x, j)
    OBVIOUS
  <2>1. CASE j = 1
    BY <2>1 DEF Aim
  <2>2. CASE j # 1
    <3>1. j - 1 \in 1..Len(s)
      BY <1>1, <2>2
    <3>2. t[j - 1] = s[j - 1]
      BY <1>1, <3>1
    <3> QED BY <2>2, <3>2 DEF Aim
  <2> QED BY <2>1, <2>2
<1>4. \A j \in DOMAIN t : t[j].op # "rank" => t[j].node = Aim(t, x, j)
  BY <1>1, <1>2, <1>3 DEF Turns, Follows
<1>5. ASSUME NEW j \in DOMAIN t, NEW k \in DOMAIN t, j < k, t[j].op # "rank", t[k].op # "rank"
      PROVE  t[j].n < t[k].n
  <2>1. j \in DOMAIN s
    BY <1>1, <1>5
  <2>2. CASE k \in DOMAIN s
    BY <1>2, <1>5, <2>1, <2>2 DEF Turns
  <2>3. CASE k = Len(s) + 1
    <3>1. t[j] \in Said(s)
      BY <1>2, <1>5, <2>1 DEF Said, ToSet
    <3> QED BY <1>1, <1>5, <2>3, <3>1 DEF Follows
  <2> QED BY <1>2, <2>2, <2>3
<1>6. Turns(t, x)
  BY <1>4, <1>5 DEF Turns
<1>7. Aim(t, x, Len(t) + 1) = IF m.op = "rank" THEN m.id ELSE All
  <2>1. Len(t) + 1 # 1 /\ (Len(t) + 1) - 1 = Len(s) + 1
    BY <1>1
  <2> QED BY <1>1, <2>1 DEF Aim
<1>8. ToSet(t) = ToSet(s) \cup {m}
  BY <1>1, <1>2 DEF ToSet
<1> QED BY <1>1, <1>6, <1>7, <1>8 DEF Grown

\* A call goes from the queue to what was executed.
LEMMA MovesOn ==
    ASSUME NEW u \in Seq(Msg), NEW q \in Seq(Msg), q # <<>>
    PROVE  Append(u, Head(q)) \o Tail(q) = u \o q
<1>1. PICK a, t : a = Append(u, Head(q)) /\ t = Tail(q)
  OBVIOUS
<1>2. /\ Len(u) \in Nat /\ Len(q) \in Nat \ {0} /\ Head(q) = q[1] /\ Head(q) \in Msg
      /\ t \in Seq(Msg) /\ Len(t) = Len(q) - 1 /\ \A i \in 1..(Len(q) - 1) : t[i] = q[i + 1]
  BY <1>1
<1>3. a \in Seq(Msg) /\ Len(a) = Len(u) + 1 /\ (\A i \in 1..Len(u) : a[i] = u[i]) /\ a[Len(u) + 1] = q[1]
  BY <1>1, <1>2
<1>4. /\ a \o t \in Seq(Msg) /\ Len(a \o t) = Len(u) + Len(q)
      /\ \A i \in 1..(Len(u) + Len(q)) : (a \o t)[i] = IF i <= Len(u) + 1 THEN a[i] ELSE t[i - (Len(u) + 1)]
  <2>1. a \in Seq(Msg) /\ t \in Seq(Msg)
    BY <1>2, <1>3
  <2>2. /\ a \o t \in Seq(Msg) /\ Len(a \o t) = Len(a) + Len(t)
        /\ \A i \in 1..(Len(a) + Len(t)) : (a \o t)[i] = IF i <= Len(a) THEN a[i] ELSE t[i - Len(a)]
    BY <2>1
  <2>3. Len(a) = Len(u) + 1 /\ Len(a) + Len(t) = Len(u) + Len(q)
    BY <1>2, <1>3
  <2> QED BY <2>2, <2>3
<1>5. /\ u \o q \in Seq(Msg) /\ Len(u \o q) = Len(u) + Len(q)
      /\ \A i \in 1..(Len(u) + Len(q)) : (u \o q)[i] = IF i <= Len(u) THEN u[i] ELSE q[i - Len(u)]
  BY <1>2
<1>6. ASSUME NEW i \in 1..(Len(u) + Len(q)) PROVE (a \o t)[i] = (u \o q)[i]
  <2>1. CASE i <= Len(u)
    BY <1>2, <1>3, <1>4, <1>5, <2>1
  <2>2. CASE i = Len(u) + 1
    <3>1. (a \o t)[i] = q[1]
      BY <1>2, <1>3, <1>4, <2>2
    <3>2. (u \o q)[i] = q[1]
      BY <1>2, <1>5, <2>2
    <3> QED BY <3>1, <3>2
  <2>3. CASE i > Len(u) + 1
    <3>1. i - (Len(u) + 1) \in 1..(Len(q) - 1) /\ (i - (Len(u) + 1)) + 1 = i - Len(u)
      BY <1>2, <2>3
    <3>2. (a \o t)[i] = q[i - Len(u)]
      BY <1>2, <1>4, <2>3, <3>1, SMTT(30)
    <3>3. (u \o q)[i] = q[i - Len(u)]
      BY <1>2, <1>5, <2>3
    <3> QED BY <3>2, <3>3
  <2>4. i <= Len(u) \/ i = Len(u) + 1 \/ i > Len(u) + 1
    BY <1>2
  <2> QED BY <2>1, <2>2, <2>3, <2>4
<1> QED BY <1>1, <1>4, <1>5, <1>6, SeqEqual

\* A call is queued.
LEMMA QueuesOne ==
    ASSUME NEW u \in Seq(Msg), NEW q \in Seq(Msg), NEW m \in Msg
    PROVE  u \o Append(q, m) = Append(u \o q, m)
<1>1. PICK a, w : a = Append(q, m) /\ w = u \o q
  OBVIOUS
<1>2. /\ Len(u) \in Nat /\ Len(q) \in Nat
      /\ a \in Seq(Msg) /\ Len(a) = Len(q) + 1 /\ (\A i \in 1..Len(q) : a[i] = q[i]) /\ a[Len(q) + 1] = m
  BY <1>1
<1>3. /\ w \in Seq(Msg) /\ Len(w) = Len(u) + Len(q)
      /\ \A i \in 1..(Len(u) + Len(q)) : w[i] = IF i <= Len(u) THEN u[i] ELSE q[i - Len(u)]
  BY <1>1, <1>2
<1>4. /\ u \o a \in Seq(Msg) /\ Len(u \o a) = Len(u) + Len(q) + 1
      /\ \A i \in 1..(Len(u) + Len(q) + 1) : (u \o a)[i] = IF i <= Len(u) THEN u[i] ELSE a[i - Len(u)]
  BY <1>2
<1>5. /\ Append(w, m) \in Seq(Msg) /\ Len(Append(w, m)) = Len(u) + Len(q) + 1
      /\ \A i \in 1..(Len(u) + Len(q)) : Append(w, m)[i] = w[i]
      /\ Append(w, m)[Len(u) + Len(q) + 1] = m
  <2>1. w \in Seq(Msg) /\ Len(w) = Len(u) + Len(q)
    BY <1>3
  <2>2. /\ Append(w, m) \in Seq(Msg) /\ Len(Append(w, m)) = Len(w) + 1
        /\ \A i \in 1..Len(w) : Append(w, m)[i] = w[i]
        /\ Append(w, m)[Len(w) + 1] = m
    BY <2>1
  <2> QED BY <2>1, <2>2
<1>6. ASSUME NEW i \in 1..(Len(u) + Len(q) + 1) PROVE (u \o a)[i] = Append(w, m)[i]
  <2>1. CASE i <= Len(u)
    BY <1>2, <1>3, <1>4, <1>5, <2>1
  <2>2. CASE i > Len(u) /\ i <= Len(u) + Len(q)
    <3>1. i - Len(u) \in 1..Len(q)
      BY <1>2, <2>2
    <3>2. (u \o a)[i] = q[i - Len(u)]
      <4>1. a[i - Len(u)] = q[i - Len(u)]
        BY <1>2, <3>1
      <4>2. (u \o a)[i] = a[i - Len(u)]
        BY <1>2, <1>4, <2>2
      <4> QED BY <4>1, <4>2
    <3>3. Append(w, m)[i] = q[i - Len(u)]
      <4>1. i \in 1..(Len(u) + Len(q)) /\ ~(i <= Len(u))
        BY <1>2, <2>2
      <4>2. w[i] = q[i - Len(u)]
        BY <1>3, <4>1
      <4>3. Append(w, m)[i] = w[i]
        BY <1>5, <4>1
      <4> QED BY <4>2, <4>3
    <3> QED BY <3>2, <3>3
  <2>3. CASE i = Len(u) + Len(q) + 1
    <3>1. i - Len(u) = Len(q) + 1
      BY <1>2, <2>3
    <3> QED BY <1>2, <1>4, <1>5, <2>3, <3>1
  <2>4. i <= Len(u) \/ (i > Len(u) /\ i <= Len(u) + Len(q)) \/ i = Len(u) + Len(q) + 1
    BY <1>2
  <2> QED BY <2>1, <2>2, <2>3, <2>4
<1> QED BY <1>1, <1>4, <1>5, <1>6, SeqEqual

-----------------------------------------------------------------------------
(* What the steps do to a group. *)

\* What is left on the socket is not new.
LEMMA LessSaid ==
    ASSUME NEW s, NEW t, ToSet(t) \subseteq ToSet(s)
    PROVE  Said(t) \subseteq Said(s)
  BY DEF Said

LEMMA LessMade ==
    ASSUME NEW v, NEW s, NEW t, NEW b, NEW x, NEW y, NEW q, NEW u, NEW r, Made(v, s, b, x, q, u, r),
           ToSet(t) \subseteq ToSet(s), InTurn(t, y)
    PROVE  Made(v, t, b, y, q, u, r)
<1>1. Said(t) \subseteq Said(s)
  BY LessSaid
<1>2. Behind(v, t, Joined(u, q))
  BY <1>1 DEF Made, Queued, Behind
<1>3. Waiting(v, s, b) => Waiting(v, t, b)
  BY <1>1 DEF Waiting
<1>4. Back(v, s, b, q, r) => Back(v, t, b, q, r)
  BY <1>1 DEF Back
<1> QED BY <1>2, <1>3, <1>4 DEF Made, Queued

\* The member of the next call is set.
LEMMA MadeRanked ==
    ASSUME NEW v, NEW s \in Seq(Msg), s # <<>>, Head(s).op = "rank", NEW b, NEW x, NEW q, NEW u, NEW r,
           Made(v, s, b, x, q, u, r)
    PROVE  Made(v, Tail(s), b, Head(s).id, q, u, r)
<1>1. PICK t, y : t = Tail(s) /\ y = Head(s).id
  OBVIOUS
<1>2. ToSet(t) \subseteq ToSet(s)
  BY <1>1, TailSet
<1>3. InTurn(t, y)
  <2>1. InTurn(s, x) /\ y = IF Head(s).op = "rank" THEN Head(s).id ELSE All
    BY <1>1 DEF Made, Queued
  <2>2. InTurn(Tail(s), y)
    BY <2>1, TailTurns
  <2> QED BY <1>1, <2>2
<1>4. Made(v, t, b, y, q, u, r)
  BY <1>2, <1>3, LessMade
<1> QED BY <1>1, <1>4

LEMMA RanksAll == All \notin Ranks /\ Ranks \subseteq Nat /\ GroupSize - 1 \in Ranks /\ All \in Nat
  BY InterconnectorAssumption DEF Ranks, All

\* What the members have when those of sel get one more call.
Adds(q, sel, m) == [i \in Ranks |-> IF i \in sel THEN Append(q[i], m) ELSE q[i]]

\* A call goes to the members of sel.
LEMMA MadeForwarded ==
    ASSUME NEW v \in ClientType, NEW s \in Seq(Msg), s # <<>>, NEW m, m = Head(s), m.op \in {"call", "final"},
           NEW b \in Seq(Msg), NEW x, NEW q \in [Ranks -> Seq(Msg)], NEW u \in [Ranks -> Seq(Msg)], NEW r,
           NEW sel, (sel = Ranks /\ x = All) \/ sel \subseteq {x},
           NEW p, p = Adds(q, sel, m),
           NEW d, d = b \/ (m.op = "final" /\ d = Append(b, m)),
           Made(v, s, b, x, q, u, r)
    PROVE  Made(v, Tail(s), d, All, p, u, r)
<1>1. PICK t, h, w : t = Tail(s) /\ h = Joined(u, q) /\ w = Joined(u, p)
  OBVIOUS
<1>2. m \in Msg /\ m \in ToSet(s) /\ m \in Said(s) /\ t \in Seq(Msg) /\ ToSet(t) \subseteq ToSet(s) /\ m.n \in Nat
  <2>1. m \in Msg /\ m \in ToSet(s) /\ t \in Seq(Msg) /\ ToSet(t) \subseteq ToSet(s)
    BY <1>1, TailSet
  <2> QED BY <2>1 DEF Said, Msg
<1>3. InTurn(t, All) /\ m.node = x /\ \A y \in Said(t) : m.n < y.n
  <2>1. InTurn(s, x) /\ All = IF Head(s).op = "rank" THEN Head(s).id ELSE All
    BY DEF Made, Queued
  <2>2. InTurn(Tail(s), All)
    BY <2>1, TailTurns
  <2>3. Head(s).node = x /\ \A y \in Said(Tail(s)) : Head(s).n < y.n
    BY <2>1, TailTurns
  <2> QED BY <1>1, <2>2, <2>3
<1>4. /\ \A i \in Ranks : h[i] \in Seq(Msg)
      /\ \A i \in Ranks : i \notin sel => w[i] = h[i] /\ p[i] = q[i]
      /\ \A i \in Ranks : i \in sel => w[i] = Append(h[i], m) /\ p[i] = Append(q[i], m)
  <2> SUFFICES ASSUME NEW i \in Ranks
               PROVE  /\ h[i] \in Seq(Msg)
                      /\ i \notin sel => w[i] = h[i] /\ p[i] = q[i]
                      /\ i \in sel => w[i] = Append(h[i], m) /\ p[i] = Append(q[i], m)
    OBVIOUS
  <2>1. m \in Msg /\ q[i] \in Seq(Msg) /\ u[i] \in Seq(Msg)
    BY <1>2
  <2>2. p[i] = IF i \in sel THEN Append(q[i], m) ELSE q[i]
    BY DEF Adds
  <2>3. u[i] \o Append(q[i], m) = Append(u[i] \o q[i], m) /\ u[i] \o q[i] \in Seq(Msg)
    BY <2>1, QueuesOne
  <2>4. w[i] = u[i] \o p[i] /\ h[i] = u[i] \o q[i]
    BY <1>1 DEF Joined
  <2> QED BY <2>2, <2>3, <2>4
<1>5. Behind(v, s, h) /\ Exact(h)
  BY <1>1 DEF Made, Queued
<1>6. /\ \A i \in Ranks : i \in sel => ToSet(w[i]) \subseteq ToSet(h[i]) \cup {m} /\ m \in ToSet(w[i])
      /\ \A i \in Ranks : i \in sel => ToSet(p[i]) \subseteq ToSet(q[i]) \cup {m}
  <2> SUFFICES ASSUME NEW i \in Ranks, i \in sel
               PROVE  ToSet(w[i]) \subseteq ToSet(h[i]) \cup {m} /\ m \in ToSet(w[i]) /\ ToSet(p[i]) \subseteq ToSet(q[i]) \cup {m}
    OBVIOUS
  <2>1. PICK k, l : k = h[i] /\ l = q[i]
    OBVIOUS
  <2>2. k \in Seq(Msg) /\ l \in Seq(Msg) /\ w[i] = Append(k, m) /\ p[i] = Append(l, m)
    BY <1>4, <2>1
  <2>3. ToSet(Append(k, m)) \subseteq ToSet(k) \cup {m} /\ ToSet(Append(l, m)) \subseteq ToSet(l) \cup {m}
    BY <1>2, <2>2, AppendSet
  <2>4. m \in ToSet(Append(k, m))
    <3>1. Len(k) + 1 \in DOMAIN Append(k, m) /\ Append(k, m)[Len(k) + 1] = m
      BY <1>2, <2>2
    <3> QED BY <3>1 DEF ToSet
  <2> QED BY <2>1, <2>2, <2>3, <2>4
<1>7. \A i \in Ranks : ToSet(w[i]) \subseteq ToSet(h[i]) \cup {m} /\ ToSet(h[i]) \subseteq ToSet(w[i])
  <2> SUFFICES ASSUME NEW i \in Ranks, i \in sel PROVE ToSet(h[i]) \subseteq ToSet(w[i])
    BY <1>4, <1>6
  <2>1. PICK k : k = h[i]
    OBVIOUS
  <2>2. k \in Seq(Msg) /\ w[i] = Append(k, m)
    BY <1>4, <2>1
  <2>3. \A j \in DOMAIN k : j \in DOMAIN Append(k, m) /\ Append(k, m)[j] = k[j]
    BY <1>2, <2>2
  <2> QED BY <2>1, <2>2, <2>3 DEF ToSet
<1>8. \A i \in Ranks : \A y \in ToSet(h[i]) : y.n < m.n /\ y \in Msg /\ y.n \in Nat
  <2> SUFFICES ASSUME NEW i \in Ranks, NEW y \in ToSet(h[i]) PROVE y.n < m.n /\ y \in Msg /\ y.n \in Nat
    OBVIOUS
  <2>1. h[i] \in Seq(Msg)
    BY <1>4
  <2>2. y \in Msg
    BY <2>1 DEF ToSet
  <2>3. y.n < m.n
    BY <1>2, <1>5 DEF Behind
  <2> QED BY <2>2, <2>3 DEF Msg
<1>9. Said(t) \subseteq Said(s)
  BY <1>2, LessSaid
<1>10. Behind(v, t, w)
  <2>1. \A y \in ToSet(t) : y.op # "group" /\ (y.op # "rank" => y.n <= v.n)
    BY <1>2, <1>5 DEF Behind
  <2>2. m.n <= v.n
    BY <1>2, <1>5 DEF Behind
  <2>3. \A i \in Ranks : \A y \in ToSet(w[i]) : y.n <= v.n /\ \A z \in Said(t) : y.n < z.n
    <3> SUFFICES ASSUME NEW i \in Ranks, NEW y \in ToSet(w[i]) PROVE y.n <= v.n /\ \A z \in Said(t) : y.n < z.n
      OBVIOUS
    <3>1. CASE y = m
      BY <1>3, <2>2, <3>1
    <3>2. CASE y \in ToSet(h[i])
      BY <1>5, <1>9, <3>2 DEF Behind
    <3> QED BY <1>7, <3>1, <3>2
  <2>4. ASSUME NEW i \in Ranks, NEW k \in Ranks, NEW y \in ToSet(w[i]), NEW z \in ToSet(w[k]), y.n = z.n
        PROVE  y = z
    <3>1. CASE y \in ToSet(h[i]) /\ z \in ToSet(h[k])
      BY <1>5, <2>4, <3>1 DEF Behind
    <3>2. CASE y = m /\ z \in ToSet(h[k])
      BY <1>2, <1>8, <2>4, <3>2
    <3>3. CASE z = m /\ y \in ToSet(h[i])
      BY <1>2, <1>8, <2>4, <3>3
    <3> QED BY <1>7, <3>1, <3>2, <3>3
  <2> QED BY <2>1, <2>3, <2>4 DEF Behind
<1>11. Exact(w)
  <2>1. ASSUME NEW i \in Ranks, NEW y \in ToSet(w[i])
        PROVE  y.node \in {i, All} /\ (y.node = All => \A k \in Ranks : y \in ToSet(w[k]))
    <3>1. CASE y \in ToSet(h[i])
      BY <1>5, <1>7, <3>1 DEF Exact
    <3>2. CASE y \notin ToSet(h[i])
      <4>1. y = m /\ i \in sel
        BY <1>4, <1>7, <3>2
      <4>2. CASE sel = Ranks /\ x = All
        BY <1>3, <1>6, <4>1, <4>2
      <4>3. CASE sel \subseteq {x}
        BY <1>3, <4>1, <4>3, RanksAll
      <4> QED BY <4>2, <4>3
    <3> QED BY <3>1, <3>2
  <2>2. ASSUME NEW i \in Ranks, NEW j \in DOMAIN w[i], NEW k \in DOMAIN w[i], j < k PROVE w[i][j].n < w[i][k].n
    <3>1. CASE i \notin sel
      BY <1>4, <1>5, <2>2, <3>1 DEF Exact
    <3>2. CASE i \in sel
      <4>1. PICK z : z = h[i]
        OBVIOUS
      <4>2. z \in Seq(Msg) /\ w[i] = Append(z, m)
        BY <1>4, <3>2, <4>1
      <4>3. /\ DOMAIN w[i] = DOMAIN z \cup {Len(z) + 1} /\ (\A l \in DOMAIN z : w[i][l] = z[l] /\ l \in Nat /\ l < Len(z) + 1)
            /\ w[i][Len(z) + 1] = m /\ Len(z) \in Nat
        BY <1>2, <4>2, SMTT(30)
      <4>4. j \in DOMAIN z
        BY <2>2, <4>3
      <4>5. CASE k \in DOMAIN z
        BY <1>5, <2>2, <4>1, <4>3, <4>4, <4>5 DEF Exact
      <4>6. CASE k = Len(z) + 1
        <5>1. z[j] \in ToSet(h[i])
          BY <4>1, <4>4 DEF ToSet
        <5> QED BY <1>8, <4>3, <4>4, <4>6, <5>1
      <4> QED BY <4>3, <4>5, <4>6
    <3> QED BY <3>1, <3>2
  <2> QED BY <2>1, <2>2 DEF Exact
<1>12. ASSUME ~v.post PROVE Waiting(v, t, d) /\ Back(v, t, d, p, r)
  <2>1. Waiting(v, s, b) /\ Back(v, s, b, q, r)
    BY <1>12 DEF Made
  <2>2. b = <<>> /\ m.n = v.n /\ v.at = IF m.op = "call" THEN "wait" ELSE "final"
    BY <1>2, <2>1 DEF Waiting
  <2>3. r = <<>>
    BY <1>2, <2>1 DEF Back
  <2>4. Said(t) = {}
    <3> SUFFICES ASSUME NEW y \in Said(t) PROVE FALSE
      OBVIOUS
    <3>1. y.n <= v.n /\ m.n < y.n /\ y.n \in Nat /\ v.n \in Nat
      <4>1. y \in ToSet(s) /\ y.op # "rank" /\ s \in Seq(Msg)
        BY <1>9 DEF Said
      <4>2. y \in Msg
        BY <4>1 DEF ToSet
      <4> QED BY <1>3, <1>5, <4>1, <4>2 DEF Behind, Msg, ClientType
    <3> QED BY <2>2, <3>1
  <2>5. CASE m.op = "call"
    <3>1. d = <<>> /\ v.at = "wait"
      BY <2>2, <2>5
    <3>2. Waiting(v, t, d)
      BY <2>4, <3>1 DEF Waiting
    <3>3. \A i \in Ranks : \A y \in ToSet(p[i]) : Answered(y, i) => y.n = v.n
      BY <1>4, <1>6, <2>1, <2>2 DEF Back
    <3> QED BY <2>3, <3>1, <3>2, <3>3 DEF Back
  <2>6. CASE m.op = "final"
    <3>1. v.at = "final"
      BY <2>2, <2>6
    <3>2. d = <<>> \/ d = <<m>>
      BY <2>2
    <3>3. <<m>> # <<>> /\ Len(<<m>>) = 1 /\ <<m>>[1] = m
      OBVIOUS
    <3>4. Waiting(v, t, d)
      BY <2>2, <2>4, <2>6, <3>1, <3>2, <3>3 DEF Waiting
    <3>5. \A i \in Ranks : \A y \in ToSet(q[i]) : ~Answered(y, i)
      BY <2>1, <3>1 DEF Back
    <3>6. \A i \in Ranks : \A y \in ToSet(p[i]) : ~Answered(y, i)
      BY <1>4, <1>6, <2>6, <3>5 DEF Answered
    <3> QED BY <2>3, <3>4, <3>6 DEF Back
  <2> QED BY <2>5, <2>6
<1> QED BY <1>1, <1>3, <1>10, <1>11, <1>12 DEF Made, Queued

\* Member i executes m, the first call of its queue, and may answer it.
Runs(i, m, q, u, r, p, w, a) ==
    /\ m = Head(q[i]) /\ p = [q EXCEPT ![i] = Tail(q[i])] /\ w = [u EXCEPT ![i] = Append(u[i], m)]
    /\ a = IF Answered(m, i) THEN Append(r, m) ELSE r

LEMMA MadeRuns ==
    ASSUME NEW v \in ClientType, NEW s \in Seq(Msg), NEW b \in Seq(Msg), NEW x,
           NEW q \in [Ranks -> Seq(Msg)], NEW u \in [Ranks -> Seq(Msg)], NEW r \in Seq(Msg),
           NEW i \in Ranks, q[i] # <<>>, NEW m, NEW p, NEW w, NEW a, Runs(i, m, q, u, r, p, w, a),
           Made(v, s, b, x, q, u, r)
    PROVE  Made(v, s, b, x, p, w, a)
<1>1. /\ m \in Msg /\ m \in ToSet(q[i]) /\ Tail(q[i]) \in Seq(Msg) /\ ToSet(Tail(q[i])) \subseteq ToSet(q[i])
      /\ m.n \in Nat /\ q[i] \in Seq(Msg) /\ u[i] \in Seq(Msg)
  <2>1. q[i] \in Seq(Msg) /\ u[i] \in Seq(Msg)
    OBVIOUS
  <2>2. m \in Msg /\ m \in ToSet(q[i]) /\ Tail(q[i]) \in Seq(Msg) /\ ToSet(Tail(q[i])) \subseteq ToSet(q[i])
    BY <2>1, TailSet DEF Runs
  <2> QED BY <2>1, <2>2 DEF Msg
<1>2. /\ \A k \in Ranks : k # i => p[k] = q[k] /\ w[k] = u[k]
      /\ p[i] = Tail(q[i]) /\ w[i] = Append(u[i], m)
  BY DEF Runs
<1>3. Joined(w, p) = Joined(u, q)
  <2>1. w[i] \o p[i] = u[i] \o q[i]
    BY <1>1, <1>2, MovesOn DEF Runs
  <2>2. \A k \in Ranks : w[k] \o p[k] = u[k] \o q[k]
    BY <1>2, <2>1
  <2> QED BY <2>2 DEF Joined
<1>4. Queued(v, s, x, Joined(w, p))
  BY <1>3 DEF Made
<1>5. \A k \in Ranks : ToSet(p[k]) \subseteq ToSet(q[k])
  BY <1>1, <1>2
<1>6. PICK h : h = Joined(u, q)
  OBVIOUS
<1>7. \A k \in Ranks : ToSet(q[k]) \subseteq ToSet(h[k]) /\ h[k] = u[k] \o q[k]
  <2> SUFFICES ASSUME NEW k \in Ranks, NEW y \in ToSet(q[k]) PROVE y \in ToSet(h[k]) /\ h[k] = u[k] \o q[k]
    BY <1>6 DEF Joined
  <2>1. h[k] = u[k] \o q[k]
    BY <1>6 DEF Joined
  <2>2. PICK j \in DOMAIN q[k] : q[k][j] = y
    BY DEF ToSet
  <2>3. u[k] \in Seq(Msg) /\ q[k] \in Seq(Msg)
    OBVIOUS
  <2>4. Len(u[k]) + j \in DOMAIN h[k] /\ h[k][Len(u[k]) + j] = q[k][j]
    BY <2>1, <2>2, <2>3, SMTT(30)
  <2> QED BY <2>1, <2>2, <2>4 DEF ToSet
<1>8. Behind(v, s, h) /\ Exact(h)
  BY <1>6 DEF Made, Queued
<1>9. ASSUME ~v.post PROVE Waiting(v, s, b) /\ Back(v, s, b, p, a)
  <2>1. Waiting(v, s, b) /\ Back(v, s, b, q, r)
    BY <1>9 DEF Made
  <2>2. CASE ~Answered(m, i)
    BY <1>5, <2>1, <2>2 DEF Back, Runs
  <2>3. CASE Answered(m, i)
    <3>1. v.at = "wait" /\ m.n = v.n /\ b = <<>> /\ r = <<>> /\ m.op = "call"
      BY <1>1, <2>1, <2>3 DEF Back, Answered
    <3>2. a = <<m>> /\ a # <<>> /\ Len(a) = 1 /\ a[1] = m
      BY <1>1, <2>3, <3>1 DEF Runs
    <3>3. Said(s) = {}
      <4> SUFFICES ASSUME NEW y \in Said(s) PROVE FALSE
        OBVIOUS
      <4>1. m \in ToSet(h[i])
        BY <1>1, <1>7
      <4>2. m.n < y.n
        BY <1>8, <4>1 DEF Behind
      <4>3. y \in ToSet(s) /\ y.op # "rank" /\ y \in Msg
        BY DEF Said, ToSet
      <4>4. y.n <= v.n /\ y.n \in Nat /\ v.n \in Nat
        BY <1>8, <4>3 DEF Behind, Msg, ClientType
      <4> QED BY <1>1, <3>1, <4>2, <4>4
    <3>4. ASSUME NEW k \in Ranks, NEW y \in ToSet(p[k]), Answered(y, k) PROVE FALSE
      <4>1. y \in ToSet(q[k]) /\ y \in ToSet(h[k]) /\ m \in ToSet(h[i])
        BY <1>1, <1>5, <1>7
      <4>2. y.n = v.n
        BY <2>1, <3>4, <4>1 DEF Back
      <4>3. y = m
        BY <1>8, <3>1, <4>1, <4>2 DEF Behind
      <4>4. k = i
        <5>1. m.node \in {i, All} /\ m.node \in {k, All}
          BY <1>8, <4>1, <4>3 DEF Exact
        <5>2. m.node = All => i = GroupSize - 1 /\ k = GroupSize - 1
          BY <2>3, <3>4, <4>3 DEF Answered
        <5> QED BY <5>1, <5>2
      <4>5. PICK j \in DOMAIN Tail(q[i]) : Tail(q[i])[j] = m
        BY <1>2, <3>4, <4>3, <4>4 DEF ToSet
      <4>6. /\ j \in Nat \ {0} /\ j + 1 \in DOMAIN q[i] /\ q[i][j + 1] = m /\ 1 \in DOMAIN q[i] /\ q[i][1] = m
            /\ Len(u[i]) \in Nat
        BY <1>1, <4>5, SMTT(30) DEF Runs
      <4>7. PICK l : l = Len(u[i])
        OBVIOUS
      <4>8. /\ l + 1 \in DOMAIN h[i] /\ l + (j + 1) \in DOMAIN h[i] /\ l + 1 < l + (j + 1)
            /\ h[i][l + 1] = q[i][1] /\ h[i][l + (j + 1)] = q[i][j + 1]
        <5>1. h[i] = u[i] \o q[i]
          BY <1>7
        <5> QED BY <1>1, <4>6, <4>7, <5>1, SMTT(30)
      <4>9. h[i][l + 1].n < h[i][l + (j + 1)].n
        BY <1>8, <4>8 DEF Exact
      <4> QED BY <1>1, <4>6, <4>8, <4>9
    <3>5. Back(v, s, b, p, a)
      BY <3>1, <3>2, <3>3, <3>4 DEF Back
    <3> QED BY <2>1, <3>5
  <2> QED BY <2>2, <2>3
<1> QED BY <1>4, <1>9 DEF Made

\* The client gets an answer of a member.
LEMMA MadeReceives ==
    ASSUME NEW v, NEW s, NEW b \in Seq(Msg), NEW x, NEW q, NEW u, NEW r \in Seq(Msg), r # <<>>,
           NEW d, d = Append(b, Head(r)), NEW a, a = Tail(r),
           Made(v, s, b, x, q, u, r)
    PROVE  Made(v, s, d, x, q, u, a)
<1>1. ASSUME ~v.post PROVE Waiting(v, s, d) /\ Back(v, s, d, q, a)
  <2>1. Waiting(v, s, b) /\ Back(v, s, b, q, r)
    BY <1>1 DEF Made
  <2>2. v.at = "wait" /\ b = <<>> /\ Said(s) = {} /\ Len(r) = 1 /\ r[1].n = v.n /\ r[1].op = "call"
    BY <2>1 DEF Back
  <2>3. a = <<>> /\ Head(r) = r[1] /\ d = <<r[1]>> /\ d # <<>> /\ Len(d) = 1 /\ d[1] = r[1]
    BY <2>2
  <2>4. \A i \in Ranks : \A m \in ToSet(q[i]) : ~Answered(m, i)
    BY <2>1 DEF Back
  <2>5. Waiting(v, s, d)
    BY <2>2, <2>3 DEF Waiting
  <2>6. Back(v, s, d, q, a)
    BY <2>3, <2>4 DEF Back
  <2> QED BY <2>5, <2>6
<1> QED BY <1>1 DEF Made

\* The client reads an answer.
LEMMA MadeReads ==
    ASSUME NEW v, NEW s, NEW b \in Seq(Msg), b # <<>>, NEW x, NEW q, NEW u, NEW r,
           NEW w, w.n = v.n, w.post = v.post, NEW d, d = Tail(b),
           Made(v, s, b, x, q, u, r)
    PROVE  Made(w, s, d, x, q, u, r)
<1>1. Queued(w, s, x, Joined(u, q))
  BY DEF Made, Queued, Behind
<1>2. ASSUME ~v.post PROVE Waiting(w, s, d) /\ Back(w, s, d, q, r)
  <2>1. Waiting(v, s, b) /\ Back(v, s, b, q, r)
    BY <1>2 DEF Made
  <2>2. Len(b) = 1 /\ Said(s) = {}
    BY <2>1 DEF Waiting
  <2>3. d = <<>>
    BY <2>2
  <2>4. Waiting(w, s, d)
    BY <2>2, <2>3 DEF Waiting
  <2>5. Back(w, s, d, q, r)
    BY <2>1 DEF Back
  <2> QED BY <2>4, <2>5
<1> QED BY <1>1, <1>2 DEF Made

\* A call of the client follows the others.
LEMMA MadeCalls ==
    ASSUME NEW v \in ClientType, v.at = "bound", NEW s \in Seq(Msg), NEW b \in Seq(Msg), NEW x,
           NEW q \in [Ranks -> Seq(Msg)], NEW u \in [Ranks -> Seq(Msg)], NEW r \in Seq(Msg),
           \A y \in ToSet(s) : y.op \in {"group", "rank", "call", "final"},
           NEW w, w.n = v.n + 1, NEW t, InTurn(t, x),
           NEW m \in Msg, m.op \in {"call", "final"}, m.n = v.n + 1,
           \A y \in ToSet(t) : y \in ToSet(s) \/ y = m \/ y.op = "rank",
           ~w.post => ~v.post /\ w.at = IF m.op = "call" THEN "wait" ELSE "final",
           Made(v, s, b, x, q, u, r)
    PROVE  Made(w, t, b, x, q, u, r)
<1>1. PICK h : h = Joined(u, q)
  OBVIOUS
<1>2. Behind(v, s, h) /\ Exact(h) /\ v.n \in Nat
  BY <1>1 DEF Made, Queued, ClientType
<1>3. \A i \in Ranks : h[i] \in Seq(Msg)
  BY <1>1 DEF Joined
<1>4. \A y \in ToSet(s) : y \in Msg /\ y.n \in Nat
  <2>1. \A y \in ToSet(s) : y \in Msg
    BY DEF ToSet
  <2> QED BY <2>1 DEF Msg
<1>5. ASSUME NEW i \in Ranks, NEW y \in ToSet(h[i]) PROVE y.n \in Nat
  <2>1. h[i] \in Seq(Msg)
    BY <1>3
  <2>2. y \in Msg
    BY <1>5, <2>1 DEF ToSet
  <2> QED BY <2>2 DEF Msg
<1>6. Behind(w, t, h)
  <2>1. \A y \in ToSet(t) : y.op # "group" /\ (y.op # "rank" => y.n <= w.n)
    BY <1>2, <1>4 DEF Behind
  <2>2. ASSUME NEW i \in Ranks, NEW y \in ToSet(h[i]) PROVE y.n <= w.n /\ \A z \in Said(t) : y.n < z.n
    <3>1. y.n <= v.n /\ (\A z \in Said(s) : y.n < z.n) /\ y.n \in Nat
      BY <1>2, <1>5, <2>2 DEF Behind
    <3>2. \A z \in Said(t) : z = m \/ z \in Said(s)
      BY DEF Said
    <3> QED BY <1>2, <3>1, <3>2
  <2>3. \A i, k \in Ranks : \A y \in ToSet(h[i]), z \in ToSet(h[k]) : y.n = z.n => y = z
    BY <1>2 DEF Behind
  <2> QED BY <2>1, <2>2, <2>3 DEF Behind
<1>7. ASSUME ~w.post PROVE Waiting(w, t, b) /\ Back(w, t, b, q, r)
  <2>1. Waiting(v, s, b) /\ Back(v, s, b, q, r) /\ w.at = IF m.op = "call" THEN "wait" ELSE "final"
    BY <1>7 DEF Made
  <2>2. b = <<>>
    BY <2>1 DEF Waiting
  <2>3. Said(s) = {}
    <3> SUFFICES ASSUME NEW y \in Said(s) PROVE FALSE
      OBVIOUS
    <3>1. y \in ToSet(s) /\ y.op # "rank" /\ y.op # "group"
      BY <1>2 DEF Said, Behind
    <3>2. y.op \notin {"call", "final"}
      BY <2>1 DEF Waiting
    <3> QED BY <3>1, <3>2
  <2>4. \A z \in Said(t) : z = m
    BY <2>3 DEF Said
  <2>5. Waiting(w, t, b)
    BY <1>2, <2>1, <2>2, <2>4 DEF Waiting
  <2>6. r = <<>> /\ \A i \in Ranks : \A y \in ToSet(q[i]) : ~Answered(y, i)
    BY <2>1 DEF Back
  <2>7. Back(w, t, b, q, r)
    BY <2>6 DEF Back
  <2> QED BY <2>5, <2>7
<1> QED BY <1>1, <1>2, <1>6, <1>7 DEF Made, Queued

\* The group is created, and its client told.
LEMMA Spawned ==
    ASSUME NEW v \in ClientType, NEW s \in Seq(Msg), s # <<>>, Head(s).op = "group", NEW a, a.op = "address",
           NEW q, q = [i \in Ranks |-> <<>>], NEW d, d = <<a>>, Asked(v, s, <<>>)
    PROVE  Made(v, Tail(s), d, All, q, q, <<>>)
<1>1. Len(s) = 1 /\ Tail(s) = <<>> /\ Head(s) = s[1] /\ 1 \in DOMAIN s
  BY DEF Asked
<1>2. Said(<<>>) = {} /\ ToSet(<<>>) = {} /\ DOMAIN <<>> = {} /\ Len(<<>>) = 0
  BY DEF Said, ToSet
<1>3. InTurn(<<>>, All)
  BY <1>2 DEF InTurn, Turns, Aim
<1>4. PICK h : h = Joined(q, q)
  OBVIOUS
<1>5. \A i \in Ranks : h[i] = <<>> /\ q[i] = <<>>
  BY <1>4 DEF Joined
<1>6. Queued(v, <<>>, All, h)
  <2>1. Behind(v, <<>>, h)
    BY <1>2, <1>5 DEF Behind
  <2>2. Exact(h)
    BY <1>2, <1>5 DEF Exact
  <2> QED BY <1>3, <2>1, <2>2 DEF Queued
<1>7. d # <<>> /\ Len(d) = 1 /\ d[1] = a
  OBVIOUS
<1>8. ASSUME ~v.post PROVE Waiting(v, <<>>, d) /\ Back(v, <<>>, d, q, <<>>)
  <2>1. s[1] \in Said(s)
    BY <1>1 DEF Said, ToSet
  <2>2. v.at = "alloc"
    BY <1>1, <1>8, <2>1 DEF Asked, Waiting
  <2>3. Waiting(v, <<>>, d)
    BY <1>2, <1>7, <2>2 DEF Waiting
  <2>4. Back(v, <<>>, d, q, <<>>)
    BY <1>2, <1>5 DEF Back
  <2> QED BY <2>3, <2>4
<1> QED BY <1>1, <1>4, <1>6, <1>8 DEF Made

\* The group is asked for.
LEMMA AskedNew ==
    ASSUME NEW v, v.at = "alloc", NEW m, m.op = "group"
    PROVE  Asked(v, <<m>>, <<>>)
<1>1. Len(<<m>>) = 1 /\ ToSet(<<m>>) = {m}
  BY DEF ToSet
<1> QED BY <1>1 DEF Asked, Waiting, Said

-----------------------------------------------------------------------------
(* What programs do to the sockets. *)

\* A new socket with messages s.
LEMMA OpensShape ==
    ASSUME IInv, OInv, NEW c \in Clients, NEW s \in Seq(Msg), Opens(c, s), NEW h, h = Home[c],
           NEW new, new = Len(ipc[h]) + 1
    PROVE  /\ h \in Nodes /\ new \in Nat /\ new \notin DOMAIN ipc[h]
           /\ new \in DOMAIN ipc'[h] /\ ipc'[h][new] = s /\ owner'[h][new] = c
           /\ \A k \in Nodes : \A f \in DOMAIN ipc[k] :
                f \in DOMAIN ipc'[k] /\ ipc'[k][f] = ipc[k][f] /\ owner'[k][f] = owner[k][f]
           /\ \A k \in Nodes : \A f \in DOMAIN ipc'[k] : f \in DOMAIN ipc[k] \/ (k = h /\ f = new)
           /\ \A k \in Nodes : DOMAIN owner'[k] = DOMAIN ipc'[k]
<1>1. h \in Nodes
  BY Deployed DEF IInv
<1>2. ipc' = Extend(ipc, h, s) /\ owner' = [owner EXCEPT ![h] = Append(@, c)]
  BY DEF Opens, Extend
<1>3. ipc \in SockType /\ owner \in [Nodes -> Seq(Clients \cup {None})] /\ Len(owner[h]) = Len(ipc[h])
  BY <1>1 DEF IInv, TypeInv, OInv, OwnerInv
<1>4. \A k \in Nodes : DOMAIN owner[k] = DOMAIN ipc[k]
  BY Sockets DEF OInv
<1>5. /\ ipc' \in SockType
      /\ \A k \in Nodes : DOMAIN ipc[k] \subseteq DOMAIN ipc'[k]
      /\ \A k \in Nodes : \A f \in DOMAIN ipc[k] : ipc'[k][f] = ipc[k][f]
      /\ \A k \in Nodes : \A f \in DOMAIN ipc'[k] \ DOMAIN ipc[k] : k = h /\ f = new
      /\ new \in DOMAIN ipc'[h] \ DOMAIN ipc[h]
      /\ ipc'[h][new] = s
  BY <1>1, <1>2, <1>3, Opened
<1>6. \A k \in Nodes : k # h => ipc'[k] = ipc[k] /\ owner'[k] = owner[k]
  BY <1>2, <1>3 DEF Extend, SockType
<1>7. /\ DOMAIN owner'[h] = DOMAIN owner[h] \cup {new}
      /\ \A f \in DOMAIN owner[h] : owner'[h][f] = owner[h][f]
      /\ owner'[h][new] = c
  <2>1. PICK S, o : S = Clients \cup {None} /\ o = owner[h]
    OBVIOUS
  <2>2. o \in Seq(S) /\ c \in S /\ owner'[h] = Append(o, c)
    BY <1>1, <1>2, <1>3, <2>1
  <2>3. /\ DOMAIN Append(o, c) = DOMAIN o \cup {Len(o) + 1}
        /\ \A i \in DOMAIN o : Append(o, c)[i] = o[i]
        /\ Append(o, c)[Len(o) + 1] = c
    BY <2>2, AppendSet
  <2> QED BY <1>3, <2>1, <2>2, <2>3
<1>8. new \in Nat
  BY <1>1, <1>3 DEF SockType
<1>9. \A k \in Nodes : DOMAIN owner'[k] = DOMAIN ipc'[k]
  <2>1. DOMAIN owner'[h] = DOMAIN ipc'[h]
    BY <1>1, <1>4, <1>5, <1>7
  <2> QED BY <1>4, <1>6, <2>1
<1>10. \A k \in Nodes : \A f \in DOMAIN ipc[k] : owner'[k][f] = owner[k][f]
  BY <1>4, <1>6, <1>7
<1> QED BY <1>1, <1>5, <1>7, <1>8, <1>9, <1>10

\* Only socket f of node h gains messages s.
Gains(h, f, s) ==
    /\ ipc'[h][f] = ipc[h][f] \o s
    /\ \A k \in Nodes : \A i \in DOMAIN ipc[k] : k # h \/ i # f => ipc'[k][i] = ipc[k][i]

\* More messages on a socket.
LEMMA SaysShape ==
    ASSUME IInv, OInv, NEW c \in Clients, client[c].at # "idle", NEW s \in Seq(Msg), Says(c, s),
           NEW h, h = Home[c], NEW f, f = client[c].fd
    PROVE  /\ h \in Nodes /\ f \in DOMAIN ipc[h] /\ owner[h][f] = c /\ owner' = owner
           /\ ipc[h][f] \in Seq(Msg) /\ Gains(h, f, s)
           /\ \A k \in Nodes : DOMAIN ipc'[k] = DOMAIN ipc[k]
<1>1. h \in Nodes
  BY Deployed DEF IInv
<1>2. ipc \in SockType
  BY DEF IInv, TypeInv
<1>3. f \in DOMAIN ipc[h] /\ owner[h][f] = c
  <2>1. DOMAIN owner[h] = DOMAIN ipc[h]
    BY <1>1, Sockets DEF OInv
  <2> QED BY <2>1 DEF OInv, OwnerInv
<1>4. ipc[h][f] \in Seq(Msg)
  BY <1>1, <1>2, <1>3 DEF SockType
<1>5. PICK t : t = ipc[h][f] \o s
  OBVIOUS
<1>6. t \in Seq(Msg)
  BY <1>4, <1>5, CatSet
<1>7. ipc' = Replace(ipc, h, f, t) /\ owner' = owner
  BY <1>5 DEF Says, Replace
<1>8. /\ \A k \in Nodes : DOMAIN ipc'[k] = DOMAIN ipc[k]
      /\ ipc'[h][f] = t
      /\ \A k \in Nodes : \A g \in DOMAIN ipc[k] : k # h \/ g # f => ipc'[k][g] = ipc[k][g]
  BY <1>1, <1>2, <1>3, <1>6, <1>7, Replaced
<1>9. Gains(h, f, s)
  BY <1>5, <1>8 DEF Gains
<1> QED BY <1>1, <1>3, <1>4, <1>7, <1>8, <1>9

-----------------------------------------------------------------------------
(* Groups that a step has nothing to do with. *)

\* The step leaves the group of client c at socket f of node n alone.
Still(c, n, f) ==
    /\ client'[c] = client[c] /\ inbox'[c] = inbox[c] /\ ipc'[n][f] = ipc[n][f]
    /\ f \in object_group'[n] <=> f \in object_group[n]
    /\ First(n, f)' = First(n, f)
    /\ f \in object_group[n] =>
        /\ member'[<<n, f>>] = member[<<n, f>>] /\ run'[<<n, f>>] = run[<<n, f>>]
        /\ returned'[<<n, f>>] = returned[<<n, f>>]

LEMMA StillAt ==
    ASSUME NEW c, NEW n, NEW f, Still(c, n, f), GroupAt(c, n, f)
    PROVE  GroupAt(c, n, f)'
<1>1. CASE f \in object_group[n]
  <2>1. PICK g : g = <<n, f>>
    OBVIOUS
  <2>2. Made(client[c], ipc[n][f], inbox[c], First(n, f), member[g], run[g], returned[g])
    BY <1>1, <2>1 DEF GroupAt
  <2>3. Made(client'[c], ipc'[n][f], inbox'[c], First(n, f)', member'[g], run'[g], returned'[g])
    BY <1>1, <2>1, <2>2 DEF Still
  <2> QED BY <1>1, <2>1, <2>3 DEF GroupAt, Still
<1>2. CASE f \notin object_group[n]
  <2>1. Asked(client'[c], ipc'[n][f], inbox'[c])
    BY <1>2 DEF GroupAt, Still
  <2> QED BY <1>2, <2>1 DEF GroupAt, Still
<1> QED BY <1>1, <1>2

\* The sockets of the clients of groups.
End(c, n, f) ==
    /\ n \in Nodes /\ c \in Clients /\ c # None /\ f \in Nat
    /\ f \in DOMAIN owner[n] /\ f \in DOMAIN ipc[n] /\ owner[n][f] = c
    /\ ipc[n][f] \in Seq(Msg) /\ inbox[c] \in Seq(Msg) /\ client[c] \in ClientType
    /\ f \in object_group[n] =>
        /\ <<n, f>> \in DOMAIN member /\ member[<<n, f>>] \in [Ranks -> Seq(Msg)]
        /\ run[<<n, f>>] \in [Ranks -> Seq(Msg)] /\ returned[<<n, f>>] \in Seq(Msg)

LEMMA GroupEnds ==
    ASSUME IInv, OInv, NEW c \in Grouping, NEW n, n = Home[c], NEW f, f = client[c].fd, client[c].at # "idle"
    PROVE  End(c, n, f)
<1>1. c \in Clients /\ c # None
  BY Sockets DEF OInv
<1>2. n \in Nodes /\ client[c] \in ClientType
  BY <1>1, Deployed DEF IInv
<1>3. f \in DOMAIN owner[n] /\ owner[n][f] = c
  BY <1>1 DEF OInv, OwnerInv
<1>4. f \in DOMAIN ipc[n] /\ f \in Nat
  BY <1>2, <1>3, Sockets DEF OInv
<1>5. ipc[n][f] \in Seq(Msg)
  BY <1>2, <1>4 DEF IInv, TypeInv, SockType
<1>6. inbox[c] \in Seq(Msg)
  BY <1>1 DEF OInv, KindInv
<1>7. f \in object_group[n] =>
                /\ <<n, f>> \in DOMAIN member /\ member[<<n, f>>] \in [Ranks -> Seq(Msg)]
                /\ run[<<n, f>>] \in [Ranks -> Seq(Msg)] /\ returned[<<n, f>>] \in Seq(Msg)
  <2>1. ASSUME f \in object_group[n] PROVE <<n, f>> \in DOMAIN member
    BY <1>2, <1>4, <2>1 DEF OInv, KindInv
  <2> QED BY <2>1 DEF OInv, KindInv
<1> QED BY <1>1, <1>2, <1>3, <1>4, <1>5, <1>6, <1>7 DEF End

\* Every group but that of one client is left alone.
LEMMA GroupsG ==
    ASSUME IInv, OInv, GInv, deployment' = deployment,
           \A c \in Grouping : \A n, f : client'[c].at # "idle" /\ n = Home[c] /\ f = client'[c].fd =>
             \/ client[c].at # "idle" /\ client'[c].fd = client[c].fd /\ Still(c, n, f)
             \/ GroupAt(c, n, f)',
           \A n \in Nodes : DOMAIN object_group_single'[n] \subseteq object_group'[n]
    PROVE  GInv'
<1>1. Clients' = Clients /\ Home' = Home /\ Grouping' = Grouping
  BY Deployment
<1>2. ASSUME NEW c \in Grouping, client'[c].at # "idle" PROVE GroupAt(c, Home[c], client[c].fd)'
  <2>1. PICK n, f : n = Home[c] /\ f = client'[c].fd
    OBVIOUS
  <2>2. CASE client[c].at # "idle" /\ client'[c].fd = client[c].fd /\ Still(c, n, f)
    <3>1. GroupAt(c, n, f)
      BY <2>1, <2>2 DEF GInv
    <3>2. GroupAt(c, n, f)'
      BY <2>2, <3>1, StillAt
    <3> QED BY <1>1, <2>1, <3>2 DEF GroupAt, First
  <2>3. CASE GroupAt(c, n, f)'
    BY <1>1, <2>1, <2>3 DEF GroupAt, First
  <2> QED BY <1>2, <2>1, <2>2, <2>3
<1> QED BY <1>1, <1>2 DEF GInv

\* No group is called, asked for or told anything.
GroupsAside ==
    /\ UNCHANGED <<deployment, groups>>
    /\ \A c \in Grouping : client'[c] = client[c] /\ inbox'[c] = inbox[c]
    /\ \A k \in Nodes : \A f \in DOMAIN owner[k] : owner[k][f] \in Grouping => ipc'[k][f] = ipc[k][f]

LEMMA AsideG ==
    ASSUME IInv, OInv, GInv, GroupsAside
    PROVE  GInv'
<1>1. UNCHANGED <<deployment, object_group, object_group_single, member, returned, run>>
  BY DEF GroupsAside, groups
<1>2. ASSUME NEW c \in Grouping, NEW n, NEW f, client'[c].at # "idle", n = Home[c], f = client'[c].fd
      PROVE  client[c].at # "idle" /\ client'[c].fd = client[c].fd /\ Still(c, n, f)
  <2>1. client'[c] = client[c] /\ inbox'[c] = inbox[c]
    BY DEF GroupsAside
  <2>2. n \in Nodes /\ f \in DOMAIN owner[n] /\ owner[n][f] = c
    <3>1. client[c].at # "idle" /\ f = client[c].fd /\ n = Home[c]
      BY <1>2, <2>1
    <3>2. End(c, n, f)
      BY <3>1, GroupEnds
    <3> QED BY <3>2 DEF End
  <2>3. ipc'[n][f] = ipc[n][f]
    BY <2>2 DEF GroupsAside
  <2> QED BY <1>1, <1>2, <2>1, <2>3 DEF Still, First
<1>3. \A n \in Nodes : DOMAIN object_group_single'[n] \subseteq object_group'[n]
  BY <1>1 DEF GInv
<1> QED BY <1>1, <1>2, <1>3, GroupsG

\* What a client of a group does not say.
LEMMA NotGroup ==
    ASSUME IInv, OInv, NEW n \in Nodes, NEW fd, NEW ops, Takes(n, fd, ops), ops \cap {"group", "rank", "call", "final"} = {}
    PROVE  owner[n][fd] \notin Grouping
<1>1. fd \in DOMAIN ipc[n] /\ ipc[n][fd] # <<>> /\ Head(ipc[n][fd]).op \in ops /\ ipc[n][fd] \in Seq(Msg)
  BY DEF Takes, IInv, TypeInv, SockType
<1>2. Head(ipc[n][fd]) \in ToSet(ipc[n][fd])
  BY <1>1, TailSet
<1>3. Head(ipc[n][fd]).op \in Voice(owner[n][fd])
  BY <1>1, <1>2 DEF OInv, SpeechInv
<1>4. owner[n][fd] \in Grouping => owner[n][fd] # None
  BY Sockets DEF OInv
<1> QED BY <1>1, <1>3, <1>4 DEF Voice

\* A message is taken from a socket no client of a group is at.
LEMMA TakeAside ==
    ASSUME IInv, OInv, NEW n \in Nodes, NEW fd, NEW ops, Takes(n, fd, ops), ipc' = Taken(n, fd),
           owner[n][fd] \notin Grouping, UNCHANGED <<deployment, groups, client, inbox>>
    PROVE  GroupsAside
<1>1. \A k \in Nodes : \A f \in DOMAIN ipc[k] : k # n \/ f # fd => ipc'[k][f] = ipc[k][f]
  BY TakeShape
<1>2. \A k \in Nodes : DOMAIN owner[k] = DOMAIN ipc[k]
  BY Sockets DEF OInv
<1> QED BY <1>1, <1>2 DEF GroupsAside

\* A client that is not a group's is told something.
LEMMA TellAside ==
    ASSUME IInv, OInv, NEW n \in Nodes, NEW f, NEW m \in Msg, Deliver(n, f, m),
           ~(f \in DOMAIN owner[n] /\ owner[n][f] \in Grouping), UNCHANGED <<deployment, groups, client, ipc>>
    PROVE  GroupsAside
<1>1. \A c \in Clients : inbox'[c] = IF f \in DOMAIN owner[n] /\ owner[n][f] = c
                                     THEN Append(inbox[c], m) ELSE inbox[c]
  BY DEF Deliver
<1>2. \A c \in Grouping : inbox'[c] = inbox[c]
  BY <1>1 DEF Grouping
<1> QED BY <1>2 DEF GroupsAside

\* The sockets of the clients of groups are left alone.
LEMMA RestAside ==
    ASSUME UNCHANGED <<deployment, groups, client, inbox>>,
           \A k \in Nodes : \A f \in DOMAIN owner[k] : owner[k][f] \in Grouping => ipc'[k][f] = ipc[k][f]
    PROVE  GroupsAside
  BY DEF GroupsAside

LEMMA MainAside ==
    ASSUME IInv, OInv, NEW n \in Nodes, NEW fd,
           \/ Terminate(n, fd) \/ Connection(n, fd) \/ AllocateHere(n, fd) \/ AllocateThere(n, fd)
           \/ AllocationFromMpi(n, fd) \/ RedirectResponse(n, fd) \/ RedirectRequest(n, fd)
    PROVE  GroupsAside
<1>1. UNCHANGED <<deployment, groups, client, inbox>> /\ ipc' = Taken(n, fd)
  BY DEF Terminate, Connection, AllocateHere, AllocateThere, AllocationFromMpi, RedirectResponse, RedirectRequest
<1>2. ASSUME NEW op, op \notin {"group", "rank", "call", "final"}, Takes(n, fd, {op}) PROVE GroupsAside
  <2>1. owner[n][fd] \notin Grouping
    <3>1. {op} \cap {"group", "rank", "call", "final"} = {}
      BY <1>2
    <3>2. PICK ops : ops = {op}
      OBVIOUS
    <3>3. Takes(n, fd, ops) /\ ops \cap {"group", "rank", "call", "final"} = {}
      BY <1>2, <3>1, <3>2
    <3> QED BY <3>3, NotGroup
  <2>2. PICK ops : ops = {op}
    OBVIOUS
  <2>3. Takes(n, fd, ops)
    BY <1>2, <2>2
  <2> QED BY <1>1, <2>1, <2>3, TakeAside
<1>3. CASE Terminate(n, fd)
  BY <1>2, <1>3 DEF Terminate
<1>4. CASE Connection(n, fd)
  BY <1>2, <1>4 DEF Connection
<1>5. CASE AllocateHere(n, fd) \/ AllocateThere(n, fd)
  BY <1>2, <1>5 DEF AllocateHere, AllocateThere
<1>6. CASE AllocationFromMpi(n, fd)
  BY <1>2, <1>6 DEF AllocationFromMpi
<1>7. ASSUME RedirectResponse(n, fd) \/ RedirectRequest(n, fd)
      PROVE  Takes(n, fd, {"call", "answer"}) /\ owner[n][fd] \notin Grouping
  <2>1. Takes(n, fd, {"call", "answer"})
    BY <1>7 DEF RedirectResponse, RedirectRequest
  <2>2. CASE RedirectResponse(n, fd)
    <3>1. fd \in DOMAIN outgoingconnection[n]
      BY <2>2 DEF RedirectResponse
    <3>2. owner[n][fd] = None
      BY <3>1 DEF OInv, EndsInv, ConnEnds, Inner
    <3> QED BY <2>1, <3>2, Sockets DEF OInv
  <2>3. CASE RedirectRequest(n, fd)
    <3>1. fd \notin object_group[n]
      BY <2>3 DEF RedirectRequest
    <3> QED BY <2>1, <3>1, Requests
  <2> QED BY <1>7, <2>2, <2>3
<1>8. CASE RedirectResponse(n, fd) \/ RedirectRequest(n, fd)
  BY <1>1, <1>7, <1>8, TakeAside
<1> QED BY <1>3, <1>4, <1>5, <1>6, <1>8

LEMMA RequestAside ==
    ASSUME IInv, OInv, NEW n \in Nodes, NEW fd, RequestFromMpi(n, fd)
    PROVE  GroupsAside
<1>1. PICK b, out : \E new \in BOOLEAN : Hands(n, fd, b, new, out) /\ (Dies(n) \/ Passes(n, fd, b, new, out))
  BY RequestShape DEF OInv
<1>2. PICK new \in BOOLEAN : Hands(n, fd, b, new, out) /\ (Dies(n) \/ Passes(n, fd, b, new, out))
  BY <1>1
<1>3. Takes(n, fd, {"request"}) /\ UNCHANGED <<deployment, groups, client, inbox>>
  BY <1>2 DEF Hands
<1>4. owner[n][fd] \notin Grouping
  <2>1. PICK ops : ops = {"request"}
    OBVIOUS
  <2>2. Takes(n, fd, ops) /\ ops \cap {"group", "rank", "call", "final"} = {}
    BY <1>3, <2>1
  <2> QED BY <2>2, NotGroup
<1>5. \A k \in Nodes : DOMAIN owner[k] = DOMAIN ipc[k]
  BY Sockets DEF OInv
<1>6. CASE Dies(n)
  BY <1>3, <1>6, RestAside DEF Dies, local
<1>7. CASE Passes(n, fd, b, new, out)
  <2>1. \A k \in Nodes : \A f \in DOMAIN ipc[k] : k # n \/ f # fd => ipc'[k][f] = ipc[k][f]
    BY <1>7 DEF Passes, Opening
  <2> QED BY <1>3, <1>4, <1>5, <2>1, RestAside
<1> QED BY <1>2, <1>6, <1>7

LEMMA QuietAside ==
    ASSUME NEW n, SaveReturn(n) \/ SendCompletes(n) \/ JoinThread(n)
    PROVE  GroupsAside
<1>1. UNCHANGED <<deployment, groups, client, inbox, ipc>>
  BY DEF SaveReturn, SendCompletes, JoinThread, local
<1> QED BY <1>1, RestAside

LEMMA ReceiverAside ==
    ASSUME IInv, OInv, NEW n \in Nodes, NEW s \in Nodes,
           ReceiveCommand(n, s) \/ ReceiveResponse(n, s) \/ ReceiveAllocated(n, s)
    PROVE  GroupsAside
<1>1. CASE ReceiveCommand(n, s)
  <2>1. UNCHANGED <<deployment, groups, client, inbox>>
    BY <1>1 DEF ReceiveCommand
  <2>2. \A k \in Nodes : \A f \in DOMAIN owner[k] : owner[k][f] \in Grouping => ipc'[k][f] = ipc[k][f]
    <3>1. ipc' = ipc \/ \E w : WakeMain(n, w)
      BY <1>1 DEF ReceiveCommand
    <3>2. ASSUME NEW w, WakeMain(n, w)
          PROVE  \A k \in Nodes : \A f \in DOMAIN owner[k] : owner[k][f] \in Grouping => ipc'[k][f] = ipc[k][f]
      <4>1. ipc \in SockType /\ owner[n][1] = None /\ None \notin Grouping /\ \A k \in Nodes : DOMAIN owner[k] = DOMAIN ipc[k]
        BY Sockets DEF IInv, TypeInv, OInv, OwnerInv
      <4>2. \A k \in Nodes : \A f \in DOMAIN ipc[k] : k # n \/ f # 1 => ipc'[k][f] = ipc[k][f]
        BY <3>2, <4>1 DEF WakeMain, SockType
      <4> QED BY <4>1, <4>2
    <3> QED BY <3>1, <3>2
  <2> QED BY <2>1, <2>2, RestAside
<1>2. CASE ReceiveResponse(n, s)
  <2>1. PICK t, f : t = Head(cmd[s][n]).tag /\ f = IF t \in DOMAIN incomingtag[n] THEN incomingtag[n][t] ELSE 0
    OBVIOUS
  <2>2. PICK b \in body : Deliver(n, f, b.m)
    BY <1>2, <2>1 DEF ReceiveResponse
  <2>3. UNCHANGED <<deployment, groups, client, ipc>>
    BY <1>2 DEF ReceiveResponse, local
  <2>4. b.m \in Msg
    BY DEF IInv, TypeInv, BodyType
  <2>5. ~(f \in DOMAIN owner[n] /\ owner[n][f] \in Grouping)
    <3>1. 0 \notin DOMAIN owner[n]
      BY Sockets DEF OInv
    <3> QED BY <2>1, <3>1 DEF OInv, EndsInv, TagEnds
  <2> QED BY <2>2, <2>3, <2>4, <2>5, TellAside
<1>3. CASE ReceiveAllocated(n, s)
  <2>1. PICK t, f : t = Head(cmd[s][n]).tag /\ f = allocation_return[n][t]
    OBVIOUS
  <2>2. PICK b \in body : \/ t \in DOMAIN allocation_return[n] /\ Deliver(n, f, b.m)
                          \/ inbox' = inbox
    BY <1>3, <2>1 DEF ReceiveAllocated
  <2>3. UNCHANGED <<deployment, groups, client, ipc>>
    BY <1>3 DEF ReceiveAllocated, local
  <2>4. b.m \in Msg
    BY DEF IInv, TypeInv, BodyType
  <2>5. t \in DOMAIN allocation_return[n] => ~(f \in DOMAIN owner[n] /\ owner[n][f] \in Grouping)
    BY <2>1 DEF OInv, EndsInv, ReturnEnds, Asker
  <2>6. CASE t \in DOMAIN allocation_return[n] /\ Deliver(n, f, b.m)
    BY <2>3, <2>4, <2>5, <2>6, TellAside
  <2>7. CASE inbox' = inbox
    BY <2>3, <2>7, RestAside
  <2> QED BY <2>2, <2>6, <2>7
<1> QED BY <1>1, <1>2, <1>3

LEMMA ObjectAside ==
    ASSUME IInv, OInv, ObjectServes \/ ProgramTerminates \/ \E n \in Nodes : \E outcome : ObjectCallsBack(n, outcome)
    PROVE  GroupsAside
<1>1. CASE ObjectServes
  <2>1. PICK r \in serving :
        /\ ipc' = IF r.m.sync
                  THEN [ipc EXCEPT ![r.node][r.fd] = Append(@, [r.m EXCEPT !.op = "answer"])] ELSE ipc
        /\ UNCHANGED <<deployment, groups, client, inbox>>
    BY <1>1 DEF ObjectServes
  <2>2. r.node \in Nodes /\ owner[r.node][r.fd] = None
    BY DEF OInv, EndsInv, ConnEnds, Inner
  <2>3. ipc \in SockType /\ None \notin Grouping /\ \A k \in Nodes : DOMAIN owner[k] = DOMAIN ipc[k]
    BY Sockets DEF IInv, TypeInv, OInv
  <2>4. \A k \in Nodes : \A f \in DOMAIN ipc[k] : k # r.node \/ f # r.fd => ipc'[k][f] = ipc[k][f]
    BY <2>1, <2>2, <2>3 DEF SockType
  <2> QED BY <2>1, <2>2, <2>3, <2>4, RestAside
<1>2. CASE ProgramTerminates
  <2>1. UNCHANGED <<deployment, groups, client, inbox>> /\ ipc' = [ipc EXCEPT ![0] = Append(@, <<Wake("terminate", 0, 0)>>)]
    BY <1>2 DEF ProgramTerminates
  <2>2. ipc \in SockType /\ \A k \in Nodes : DOMAIN owner[k] = DOMAIN ipc[k]
    BY Sockets DEF IInv, TypeInv, OInv
  <2>3. \A k \in Nodes : \A f \in DOMAIN ipc[k] : ipc'[k][f] = ipc[k][f]
    <3>1. PICK w : w = <<Wake("terminate", 0, 0)>>
      OBVIOUS
    <3>2. ipc' = [ipc EXCEPT ![0] = Append(ipc[0], w)] /\ w \in Seq(Msg)
      BY <2>1, <3>1 DEF Wake, Message, Msg, Ops
    <3>3. ASSUME NEW k \in Nodes, NEW f \in DOMAIN ipc[k] PROVE ipc'[k][f] = ipc[k][f]
      <4>1. CASE k = 0
        <5>1. PICK p, S : p = ipc[0] /\ S = Seq(Msg)
          OBVIOUS
        <5>2. p \in Seq(S) /\ w \in S /\ ipc'[0] = Append(p, w) /\ f \in DOMAIN p
          BY <2>2, <3>2, <3>3, <4>1, <5>1 DEF SockType
        <5>3. Append(p, w)[f] = p[f]
          BY <5>2
        <5> QED BY <4>1, <5>1, <5>2, <5>3
      <4>2. CASE k # 0
        BY <2>2, <3>2, <4>2 DEF SockType
      <4> QED BY <4>1, <4>2
    <3> QED BY <3>3
  <2> QED BY <2>1, <2>2, <2>3, RestAside
<1>3. ASSUME NEW n \in Nodes, NEW outcome, ObjectCallsBack(n, outcome) PROVE GroupsAside
  <2>1. PICK a, f : a = Message("address", None, 0, FALSE, n, main[n].id) /\ f = main[n].fd
    OBVIOUS
  <2>2. /\ main[n].at = "exec" /\ UNCHANGED <<deployment, groups, client, ipc>>
        /\ inbox' = inbox \/ (main[n].src = None /\ Deliver(n, f, a))
    BY <1>3, <2>1 DEF ObjectCallsBack, local
  <2>3. a \in Msg
    <3>1. main[n] \in MainType
      BY DEF IInv, TypeInv
    <3>2. n \in Nat /\ main[n].id \in Nat
      BY <3>1, InterconnectorAssumption DEF Nodes, MainType
    <3> QED BY <2>1, <3>2 DEF Msg, Message, Ops
  <2>4. CASE inbox' = inbox
    BY <2>2, <2>4, RestAside
  <2>5. CASE main[n].src = None /\ Deliver(n, f, a)
    <3>1. ~(f \in DOMAIN owner[n] /\ owner[n][f] \in Grouping)
      BY <2>1, <2>2, <2>5 DEF OInv, EndsInv, ReturnEnds, Asker
    <3> QED BY <2>2, <2>3, <2>5, <3>1, TellAside
  <2> QED BY <2>2, <2>4, <2>5
<1> QED BY <1>1, <1>2, <1>3

\* A client that is not a group's.
LEMMA ProgramAside ==
    ASSUME IInv, OInv, NEW c \in Clients, c \notin Grouping, Untouched, NEW v, client' = [client EXCEPT ![c] = v],
           NEW s \in Seq(Msg), Opens(c, s) \/ (client[c].at # "idle" /\ Says(c, s))
    PROVE  GroupsAside
<1>1. UNCHANGED <<deployment, groups, inbox>>
  BY DEF Untouched
<1>2. \A d \in Grouping : client'[d] = client[d]
  BY DEF IInv, TypeInv, Grouping
<1>3. PICK h, f, new : h = Home[c] /\ f = client[c].fd /\ new = Len(ipc[h]) + 1
  OBVIOUS
<1>4. \A k \in Nodes : DOMAIN owner[k] = DOMAIN ipc[k]
  BY Sockets DEF OInv
<1>5. \A k \in Nodes : \A g \in DOMAIN ipc[k] : owner[k][g] \in Grouping => ipc'[k][g] = ipc[k][g]
  <2>1. CASE Opens(c, s)
    BY <1>3, <2>1, OpensShape
  <2>2. CASE client[c].at # "idle" /\ Says(c, s)
    <3>1. owner[h][f] = c
      BY <1>3, <2>2, SaysShape
    <3>2. Gains(h, f, s)
      BY <1>3, <2>2, SaysShape
    <3> QED BY <3>1, <3>2 DEF Gains
  <2> QED BY <2>1, <2>2
<1> QED BY <1>1, <1>2, <1>4, <1>5 DEF GroupsAside

LEMMA AllocateAside ==
    ASSUME IInv, OInv, NEW c \in Clients, Allocate(c)
    PROVE  GroupsAside
<1>1. c \in Everyone /\ deployment[c].node \in Nat
  BY Deployed DEF IInv
<1>2. PICK m, v : /\ m = Message("alloc", c, 0, TRUE, deployment[c].node, 0)
                  /\ v = [client[c] EXCEPT !.at = "alloc", !.node = deployment[c].node, !.fd = Len(ipc[Home[c]]) + 1]
  OBVIOUS
<1>3. /\ Untouched /\ Opens(c, <<m>>) /\ client' = [client EXCEPT ![c] = v] /\ c \notin Grouping
  BY <1>2 DEF Allocate, Grouping
<1>4. m \in Msg
  BY <1>1, <1>2 DEF Msg, Message, Ops
<1>5. PICK s : s = <<m>>
  OBVIOUS
<1>6. s \in Seq(Msg) /\ Opens(c, s)
  BY <1>3, <1>4, <1>5
<1> QED BY <1>3, <1>6, ProgramAside

LEMMA BindAside ==
    ASSUME IInv, OInv, NEW c \in Clients, NEW o \in objects, Bind(c, o)
    PROVE  GroupsAside
<1>1. PICK y, m : /\ y = Message("connect", c, 0, FALSE, DestNode(o.node, o.id), o.id)
                  /\ m = Message("call", c, 1, TRUE, o.node, o.id)
  OBVIOUS
<1>2. PICK v : /\ Untouched /\ c \notin Grouping /\ Opens(c, <<y, m>>)
               /\ client' = [client EXCEPT ![c] = v]
  BY <1>1 DEF Bind
<1>3. o.node \in Nodes /\ o.node \in Nat /\ o.id \in Nat /\ c \in Everyone
  <2>1. o.node \in Nodes /\ o.id \in Nat
    BY DEF IInv, TypeInv
  <2>2. o.node \in Nat
    BY <2>1, InterconnectorAssumption DEF Nodes
  <2>3. c \in Everyone
    BY Deployed DEF IInv
  <2> QED BY <2>1, <2>2, <2>3
<1>4. DestNode(o.node, o.id) \in Nat
  BY <1>3, DestNodeNat
<1>5. y \in Msg /\ m \in Msg
  BY <1>1, <1>3, <1>4 DEF Msg, Message, Ops
<1>6. PICK s : s = <<y, m>>
  OBVIOUS
<1>7. s \in Seq(Msg) /\ Opens(c, s)
  BY <1>2, <1>5, <1>6
<1> QED BY <1>2, <1>7, ProgramAside

LEMMA CallAside ==
    ASSUME IInv, OInv, NEW c \in Clients, NEW sync \in BOOLEAN, Call(c, sync)
    PROVE  GroupsAside
<1>1. PICK m, v : /\ m = Message("call", c, client[c].n + 1, sync, client[c].node, client[c].id)
                  /\ v = [client[c] EXCEPT !.n = @ + 1, !.at = IF sync THEN "wait" ELSE "bound"]
  OBVIOUS
<1>2. /\ client[c].at # "idle" /\ Untouched /\ Says(c, <<m>>) /\ c \notin Grouping
      /\ client' = [client EXCEPT ![c] = v]
  BY <1>1 DEF Call
<1>3. client[c] \in ClientType /\ c \in Everyone
  BY Deployed DEF IInv
<1>4. m \in Msg
  BY <1>1, <1>3 DEF Msg, Message, Ops, ClientType
<1>5. PICK s : s = <<m>>
  OBVIOUS
<1>6. s \in Seq(Msg) /\ Says(c, s)
  BY <1>2, <1>4, <1>5
<1> QED BY <1>2, <1>6, ProgramAside

-----------------------------------------------------------------------------
(* The steps of groups. *)

\* The group of another client is left alone.
LEMMA OtherStill ==
    ASSUME IInv, OInv, NEW d \in Grouping, NEW n, NEW f, client[d].at # "idle", n = Home[d], f = client[d].fd,
           client'[d] = client[d], inbox'[d] = inbox[d], ipc'[n][f] = ipc[n][f],
           UNCHANGED groups
    PROVE  Still(d, n, f)
  BY DEF Still, First, groups

\* Client c asks for a group, and becomes v with messages on its socket.
LEMMA AllocateGroupG ==
    ASSUME IInv, OInv, GInv, NEW c \in Clients, AllocateGroup(c)
    PROVE  GInv'
<1>1. PICK m, h, new : m = Message("group", c, 0, TRUE, 0, 0) /\ h = Home[c] /\ new = Len(ipc[h]) + 1
  OBVIOUS
<1>2. PICK v : v = [client[c] EXCEPT !.at = "alloc", !.fd = new]
  OBVIOUS
<1>3. /\ client[c].at = "idle" /\ c \in Grouping /\ Untouched /\ Opens(c, <<m>>) /\ client' = [client EXCEPT ![c] = v]
  BY <1>1, <1>2 DEF AllocateGroup
<1>4. m \in Msg /\ m.op = "group"
  <2>1. c \in Everyone
    BY Deployed DEF IInv
  <2> QED BY <1>1, <2>1 DEF Msg, Message, Ops
<1>5. PICK s : s = <<m>>
  OBVIOUS
<1>6. s \in Seq(Msg) /\ Opens(c, s)
  BY <1>3, <1>4, <1>5
<1>7. h \in Nodes /\ new \notin DOMAIN ipc[h] /\ ipc'[h][new] = s
  BY <1>1, <1>6, OpensShape
<1>8. \A k \in Nodes : \A f \in DOMAIN ipc[k] : ipc'[k][f] = ipc[k][f]
  BY <1>1, <1>6, OpensShape
<1>9. UNCHANGED <<deployment, groups, inbox, object_group, object_group_single>>
  BY <1>3 DEF Untouched, groups
<1>10. client \in [Clients -> ClientType] /\ client[c] \in ClientType
  BY DEF IInv, TypeInv
<1>11. v.at = "alloc" /\ v.fd = new /\ client'[c] = v /\ \A d \in Clients : d # c => client'[d] = client[d]
  BY <1>2, <1>3, <1>10 DEF ClientType
<1>12. new \notin object_group[h] /\ inbox[c] = <<>>
  <2>1. DOMAIN owner[h] = DOMAIN ipc[h]
    BY <1>7, Sockets DEF OInv
  <2> QED BY <1>3, <1>7, <2>1 DEF OInv, GroupSockets, QuietInv
<1>13. Asked(v, s, <<>>)
  BY <1>4, <1>5, <1>11, AskedNew
<1>14. ASSUME NEW d \in Grouping, NEW n, NEW f, client'[d].at # "idle", n = Home[d], f = client'[d].fd
       PROVE  \/ client[d].at # "idle" /\ client'[d].fd = client[d].fd /\ Still(d, n, f)
              \/ GroupAt(d, n, f)'
  <2>1. CASE d = c
    <3>1. n = h /\ f = new
      BY <1>1, <1>11, <1>14, <2>1
    <3> QED BY <1>7, <1>9, <1>11, <1>12, <1>13, <2>1, <3>1 DEF GroupAt
  <2>2. CASE d # c
    <3>1. d \in Clients
      BY DEF Grouping
    <3>2. client'[d] = client[d]
      BY <1>11, <2>2, <3>1
    <3>3. client[d].at # "idle" /\ f = client[d].fd /\ n = Home[d]
      BY <1>14, <3>2
    <3>4. End(d, n, f)
      BY <3>3, GroupEnds
    <3>5. ipc'[n][f] = ipc[n][f]
      BY <1>8, <3>4 DEF End
    <3>6. Still(d, n, f)
      BY <1>9, <3>2, <3>3, <3>5, OtherStill
    <3> QED BY <3>2, <3>3, <3>6
  <2> QED BY <2>1, <2>2
<1>15. \A n \in Nodes : DOMAIN object_group_single'[n] \subseteq object_group'[n]
  BY <1>9 DEF GInv
<1> QED BY <1>9, <1>14, <1>15, GroupsG

\* The client of a group that was created calls it: it becomes v, with s more
\* on its socket, where the first call is for y and the others follow it.
LEMMA SaysG ==
    ASSUME IInv, OInv, GInv, NEW c \in Clients, c \in Grouping, client[c].at = "bound", Untouched, NEW s \in Seq(Msg), Says(c, s),
           NEW v, client' = [client EXCEPT ![c] = v], v.fd = client[c].fd, v.n = client[c].n + 1,
           NEW m \in Msg, m.op \in {"call", "final"}, m.n = client[c].n + 1,
           ~v.post => ~client[c].post /\ v.at = IF m.op = "call" THEN "wait" ELSE "final",
           NEW r \in Msg, (s = <<m>> /\ m.node = All) \/ (s = <<r, m>> /\ r.op = "rank" /\ r.id = m.node)
    PROVE  GInv'
<1>1. PICK h, f, g : h = Home[c] /\ f = client[c].fd /\ g = <<h, f>>
  OBVIOUS
<1>2. End(c, h, f)
  BY <1>1, GroupEnds
<1>3. f \in object_group[h]
  BY <1>1 DEF OInv, GroupSockets
<1>4. PICK x, p, b, q, u, e, w : /\ x = First(h, f) /\ p = ipc[h][f] /\ b = inbox[c] /\ q = member[g] /\ u = run[g]
                                 /\ e = returned[g] /\ w = client[c]
  OBVIOUS
<1>5. /\ p \in Seq(Msg) /\ b \in Seq(Msg) /\ q \in [Ranks -> Seq(Msg)] /\ u \in [Ranks -> Seq(Msg)]
      /\ e \in Seq(Msg) /\ w \in ClientType /\ w.at = "bound"
  BY <1>1, <1>2, <1>3, <1>4 DEF End
<1>6. Made(w, p, b, x, q, u, e)
  <2>1. GroupAt(c, h, f)
    BY <1>1 DEF GInv
  <2> QED BY <1>1, <1>3, <1>4, <2>1 DEF GroupAt
<1>7. \A y \in ToSet(p) : y.op \in {"group", "rank", "call", "final"}
  BY <1>2, <1>4 DEF End, OInv, SpeechInv, Voice
<1>8. \A y \in Said(p) : y.n < m.n
  <2>1. Behind(w, p, Joined(u, q))
    BY <1>6 DEF Made, Queued
  <2> SUFFICES ASSUME NEW y \in Said(p) PROVE y.n < m.n
    OBVIOUS
  <2>2. y \in ToSet(p) /\ y.op # "rank"
    BY DEF Said
  <2>3. y \in Msg
    BY <1>5, <2>2 DEF ToSet
  <2>4. y.n <= w.n
    BY <2>1, <2>2 DEF Behind
  <2> QED BY <1>4, <1>5, <2>3, <2>4, SMTT(30) DEF Msg, ClientType
<1>9. InTurn(p, x)
  BY <1>6 DEF Made, Queued
<1>10. PICK t : t = p \o s
  OBVIOUS
<1>11. InTurn(t, x) /\ \A y \in ToSet(t) : y \in ToSet(p) \/ y = m \/ y.op = "rank"
  <2>1. CASE s = <<m>> /\ m.node = All
    <3>1. t = Append(p, m)
      BY <1>5, <1>10, <2>1
    <3>2. Turns(p, x) /\ Follows(p, x, m) /\ m.op # "rank"
      BY <1>8, <1>9, <2>1 DEF InTurn, Follows
    <3>3. Grown(p, x, m, t)
      BY <1>5, <3>1, <3>2, AddTurns
    <3> QED BY <3>2, <3>3 DEF InTurn, Grown
  <2>2. CASE s = <<r, m>> /\ r.op = "rank" /\ r.id = m.node
    <3>1. PICK o : o = Append(p, r)
      OBVIOUS
    <3>2. Turns(o, x) /\ Aim(o, x, Len(o) + 1) = r.id /\ ToSet(o) = ToSet(p) \cup {r} /\ o \in Seq(Msg)
      <4>1. Turns(p, x) /\ Follows(p, x, r)
        BY <1>9, <2>2 DEF InTurn, Follows
      <4>2. Grown(p, x, r, o)
        BY <1>5, <3>1, <4>1, AddTurns
      <4> QED BY <2>2, <4>2 DEF Grown
    <3>3. \A y \in Said(o) : y.n < m.n
      BY <1>8, <2>2, <3>2 DEF Said
    <3>4. t = Append(o, m)
      BY <1>5, <1>10, <2>2, <3>1, AppendTwo
    <3>5. Turns(t, x) /\ Aim(t, x, Len(t) + 1) = All /\ ToSet(t) = ToSet(o) \cup {m}
      <4>1. m.op # "rank" /\ Follows(o, x, m)
        BY <2>2, <3>2, <3>3 DEF Follows
      <4>2. Grown(o, x, m, t)
        BY <3>2, <3>4, <4>1, AddTurns
      <4> QED BY <4>1, <4>2 DEF Grown
    <3> QED BY <2>2, <3>2, <3>5 DEF InTurn
  <2> QED BY <2>1, <2>2
<1>12. Made(v, t, b, x, q, u, e)
  <2>1. v.n = w.n + 1 /\ m.n = w.n + 1
    BY <1>4
  <2>2. ~v.post => ~w.post /\ v.at = IF m.op = "call" THEN "wait" ELSE "final"
    BY <1>4
  <2>3. InTurn(t, x)
    BY <1>11
  <2>4. \A y \in ToSet(t) : y \in ToSet(p) \/ y = m \/ y.op = "rank"
    BY <1>11
  <2> QED BY <1>5, <1>6, <1>7, <2>1, <2>2, <2>3, <2>4, MadeCalls
<1>13. /\ ipc'[h][f] = t
       /\ \A k \in Nodes : \A i \in DOMAIN ipc[k] : k # h \/ i # f => ipc'[k][i] = ipc[k][i]
  <2>1. client[c].at # "idle"
    OBVIOUS
  <2>2. h = Home[c] /\ f = client[c].fd
    BY <1>1
  <2>3. Gains(h, f, s)
    BY <2>1, <2>2, SaysShape
  <2> QED BY <1>4, <1>10, <2>3 DEF Gains
<1>14. UNCHANGED <<deployment, groups, inbox, object_group, object_group_single, member, returned, run>>
  BY DEF Untouched, groups
<1>15. client'[c] = v /\ \A d \in Clients : d # c => client'[d] = client[d]
  BY DEF IInv, TypeInv
<1>16. ASSUME NEW d \in Grouping, NEW n, NEW i, client'[d].at # "idle", n = Home[d], i = client'[d].fd
       PROVE  \/ client[d].at # "idle" /\ client'[d].fd = client[d].fd /\ Still(d, n, i)
              \/ GroupAt(d, n, i)'
  <2>1. CASE d = c
    <3>1. n = h /\ i = f
      BY <1>1, <1>15, <1>16, <2>1
    <3>2. First(h, f)' = x
      BY <1>4, <1>14 DEF First
    <3>3. GroupAt(c, h, f)'
      BY <1>1, <1>3, <1>4, <1>12, <1>13, <1>14, <1>15, <3>2 DEF GroupAt
    <3> QED BY <2>1, <3>1, <3>3
  <2>2. CASE d # c
    <3>1. client'[d] = client[d]
      BY <1>15, <2>2 DEF Grouping
    <3>2. client[d].at # "idle" /\ i = client[d].fd /\ n = Home[d]
      BY <1>16, <3>1
    <3>3. End(d, n, i)
      BY <3>2, GroupEnds
    <3>4. n # h \/ i # f
      BY <1>2, <2>2, <3>3 DEF End
    <3>5. ipc'[n][i] = ipc[n][i]
      BY <1>13, <3>3, <3>4 DEF End
    <3>6. Still(d, n, i)
      BY <1>14, <3>1, <3>2, <3>5, OtherStill
    <3> QED BY <3>1, <3>2, <3>6
  <2> QED BY <2>1, <2>2
<1>17. \A n \in Nodes : DOMAIN object_group_single'[n] \subseteq object_group'[n]
  BY <1>14 DEF GInv
<1> QED BY <1>14, <1>16, <1>17, GroupsG

LEMMA GroupCallG ==
    ASSUME IInv, OInv, GInv, NEW c \in Clients, NEW target \in 0 .. All, NEW sync \in BOOLEAN, GroupCall(c, target, sync)
    PROVE  GInv'
<1>1. client[c] \in ClientType /\ c \in Everyone /\ target \in Nat
  BY Deployed, InterconnectorAssumption DEF IInv, All
<1>2. PICK m, r : /\ m = Message("call", c, client[c].n + 1, sync, target, 0)
                  /\ r = Message("rank", c, 0, FALSE, target, target)
  OBVIOUS
<1>3. /\ m \in Msg /\ m.op = "call" /\ m.n = client[c].n + 1 /\ m.node = target
      /\ r \in Msg /\ r.op = "rank" /\ r.id = target
  BY <1>1, <1>2 DEF Msg, Message, Ops, ClientType
<1>4. PICK v : v = [client[c] EXCEPT !.n = @ + 1, !.at = IF sync THEN "wait" ELSE "bound", !.post = @ \/ ~sync]
  OBVIOUS
<1>5. v.fd = client[c].fd /\ v.n = client[c].n + 1
  BY <1>1, <1>4 DEF ClientType
<1>6. ~v.post => ~client[c].post /\ v.at = IF m.op = "call" THEN "wait" ELSE "final"
  <2>1. v.post = (client[c].post \/ ~sync) /\ v.at = IF sync THEN "wait" ELSE "bound"
    BY <1>1, <1>4 DEF ClientType
  <2> QED BY <1>3, <2>1
<1>7. /\ client[c].at = "bound" /\ Untouched /\ Says(c, GroupSaying(target, r, m)) /\ c \in Grouping
      /\ client' = [client EXCEPT ![c] = v]
  BY <1>2, <1>4 DEF GroupCall, GroupSaying
<1>8. PICK s : s = GroupSaying(target, r, m)
  OBVIOUS
<1>9. s \in Seq(Msg) /\ Says(c, s)
  BY <1>3, <1>7, <1>8, GroupSaid
<1>10. (s = <<m>> /\ m.node = All) \/ (s = <<r, m>> /\ r.op = "rank" /\ r.id = m.node)
  BY <1>3, <1>8 DEF GroupSaying
<1>11. m.op \in {"call", "final"}
  BY <1>3
<1> QED BY <1>3, <1>5, <1>6, <1>7, <1>9, <1>10, <1>11, SaysG

LEMMA FinalizeG ==
    ASSUME IInv, OInv, GInv, NEW c \in Clients, Finalize(c)
    PROVE  GInv'
<1>1. client[c] \in ClientType /\ c \in Everyone /\ All \in Nat
  BY Deployed, InterconnectorAssumption DEF IInv, All
<1>2. PICK m : m = Message("final", c, client[c].n + 1, TRUE, All, 0)
  OBVIOUS
<1>3. m \in Msg /\ m.op = "final" /\ m.n = client[c].n + 1 /\ m.node = All
  BY <1>1, <1>2 DEF Msg, Message, Ops, ClientType
<1>4. PICK v : v = [client[c] EXCEPT !.n = @ + 1, !.at = "final"]
  OBVIOUS
<1>5. v.fd = client[c].fd /\ v.n = client[c].n + 1
  BY <1>1, <1>4 DEF ClientType
<1>6. ~v.post => ~client[c].post /\ v.at = IF m.op = "call" THEN "wait" ELSE "final"
  BY <1>1, <1>3, <1>4 DEF ClientType
<1>7. /\ client[c].at = "bound" /\ Untouched /\ Says(c, <<m>>) /\ c \in Grouping
      /\ client' = [client EXCEPT ![c] = v]
  BY <1>2, <1>4 DEF Finalize
<1>8. PICK s : s = <<m>>
  OBVIOUS
<1>9. s \in Seq(Msg) /\ Says(c, s)
  BY <1>3, <1>7, <1>8
<1>10. (s = <<m>> /\ m.node = All) \/ (s = <<m, m>> /\ m.op = "rank" /\ m.id = m.node)
  BY <1>3, <1>8
<1>11. m.op \in {"call", "final"}
  BY <1>3
<1> QED BY <1>3, <1>5, <1>6, <1>7, <1>9, <1>10, <1>11, SaysG

\* Who is at the socket of a group.
LEMMA GroupClient ==
    ASSUME IInv, OInv, NEW n \in Nodes, NEW fd, fd \in DOMAIN owner[n], NEW c, c = owner[n][fd], c \in Grouping
    PROVE  n = Home[c] /\ fd = client[c].fd /\ client[c].at # "idle" /\ End(c, n, fd)
<1>1. c # None
  BY Sockets DEF OInv
<1>2. n = Home[c] /\ fd = client[c].fd /\ client[c].at # "idle"
  BY <1>1 DEF OInv, OwnerInv
<1> QED BY <1>2, GroupEnds

\* The step changes what is at socket fd of node n, the group of client c, alone.
OnlyGroup(c, n, fd) ==
    /\ deployment' = deployment
    /\ \A d \in Clients : d # c => client'[d] = client[d] /\ inbox'[d] = inbox[d]
    /\ \A k \in Nodes : \A i \in DOMAIN ipc[k] : k # n \/ i # fd => ipc'[k][i] = ipc[k][i]
    /\ \A k \in Nodes : \A i : k # n \/ i # fd =>
        /\ i \in object_group'[k] <=> i \in object_group[k]
        /\ First(k, i)' = First(k, i)
    /\ \A g \in DOMAIN member : g # <<n, fd>> => member'[g] = member[g] /\ run'[g] = run[g] /\ returned'[g] = returned[g]

LEMMA OnlyGroupG ==
    ASSUME IInv, OInv, GInv, NEW c \in Grouping, NEW n, n = Home[c], NEW fd, fd = client[c].fd, client[c].at # "idle",
           OnlyGroup(c, n, fd), client'[c].fd = fd, GroupAt(c, n, fd)',
           \A k \in Nodes : DOMAIN object_group_single'[k] \subseteq object_group'[k]
    PROVE  GInv'
<1>1. deployment' = deployment
  BY DEF OnlyGroup
<1>2. End(c, n, fd)
  BY GroupEnds
<1>3. ASSUME NEW d \in Grouping, NEW k, NEW i, client'[d].at # "idle", k = Home[d], i = client'[d].fd
      PROVE  \/ client[d].at # "idle" /\ client'[d].fd = client[d].fd /\ Still(d, k, i)
             \/ GroupAt(d, k, i)'
  <2>1. CASE d = c
    <3>1. k = n /\ i = fd
      BY <1>3, <2>1
    <3> QED BY <2>1, <3>1
  <2>2. CASE d # c
    <3>1. client'[d] = client[d] /\ inbox'[d] = inbox[d]
      BY <2>2 DEF OnlyGroup, Grouping
    <3>2. client[d].at # "idle" /\ i = client[d].fd /\ k = Home[d]
      BY <1>3, <3>1
    <3>3. End(d, k, i)
      BY <3>2, GroupEnds
    <3>4. k # n \/ i # fd
      BY <1>2, <2>2, <3>3 DEF End
    <3>5. ipc'[k][i] = ipc[k][i] /\ (i \in object_group'[k] <=> i \in object_group[k]) /\ First(k, i)' = First(k, i)
      BY <3>3, <3>4 DEF End, OnlyGroup
    <3>6. PICK g : g = <<k, i>>
      OBVIOUS
    <3>7. g # <<n, fd>>
      BY <3>4, <3>6
    <3>8. g \in DOMAIN member => member'[g] = member[g] /\ run'[g] = run[g] /\ returned'[g] = returned[g]
      BY <3>7 DEF OnlyGroup
    <3>9. i \in object_group[k] => g \in DOMAIN member
      BY <3>3, <3>6 DEF End
    <3> QED BY <3>1, <3>2, <3>5, <3>6, <3>8, <3>9 DEF Still
  <2> QED BY <2>1, <2>2
<1> QED BY <1>1, <1>3, GroupsG

\* Only client c gets an answer, m.
Told(c, m) ==
    /\ inbox'[c] = Append(inbox[c], m)
    /\ \A d \in Clients : d # c => inbox'[d] = inbox[d]

LEMMA TellOne ==
    ASSUME NEW n, NEW fd, NEW m, Deliver(n, fd, m), fd \in DOMAIN owner[n], NEW c \in Clients, c = owner[n][fd]
    PROVE  Told(c, m)
  BY DEF Deliver, Told

LEMMA ReadG ==
    ASSUME IInv, OInv, GInv, NEW c \in Clients, Read(c)
    PROVE  GInv'
<1>1. /\ client[c].at \in {"alloc", "wait", "final"} /\ inbox[c] # <<>>
      /\ inbox' = [inbox EXCEPT ![c] = Tail(@)]
      /\ UNCHANGED <<deployment, ipc>>
      /\ UNCHANGED <<object_group, object_group_single, member, returned, run>>
  BY DEF Read, local, groups
<1>2. PICK at : client' = [client EXCEPT ![c].at = at]
  BY <1>1 DEF Read
<1>3. client \in [Clients -> ClientType] /\ inbox \in [Clients -> Seq(Msg)]
  BY DEF IInv, TypeInv, OInv, KindInv
<1>4. /\ client'[c].fd = client[c].fd /\ client'[c].n = client[c].n /\ client'[c].post = client[c].post
      /\ inbox'[c] = Tail(inbox[c])
      /\ \A d \in Clients : d # c => client'[d] = client[d] /\ inbox'[d] = inbox[d]
  BY <1>1, <1>2, <1>3 DEF ClientType
<1>5. CASE c \notin Grouping
  <2>1. \A d \in Grouping : client'[d] = client[d] /\ inbox'[d] = inbox[d]
    BY <1>4, <1>5 DEF Grouping
  <2> QED BY <1>1, <2>1, AsideG DEF GroupsAside, groups
<1>6. CASE c \in Grouping
  <2>1. PICK n, fd, g : n = Home[c] /\ fd = client[c].fd /\ g = <<n, fd>>
    OBVIOUS
  <2>2. client[c].at # "idle" /\ fd \in object_group[n]
    BY <1>1, <1>6, <2>1 DEF OInv, GroupSockets
  <2>3. End(c, n, fd)
    BY <1>6, <2>1, <2>2, GroupEnds
  <2>4. PICK x, p, b, q, u, e, v, w, d :
          /\ x = First(n, fd) /\ p = ipc[n][fd] /\ b = inbox[c] /\ q = member[g] /\ u = run[g]
          /\ e = returned[g] /\ v = client[c] /\ w = client'[c] /\ d = inbox'[c]
    OBVIOUS
  <2>5. Made(v, p, b, x, q, u, e)
    <3>1. GroupAt(c, n, fd)
      BY <1>6, <2>1, <2>2 DEF GInv
    <3> QED BY <2>1, <2>2, <2>4, <3>1 DEF GroupAt
  <2>6. b \in Seq(Msg) /\ b # <<>> /\ d = Tail(b) /\ w.n = v.n /\ w.post = v.post
    BY <1>1, <1>3, <1>4, <2>4
  <2>7. Made(w, p, d, x, q, u, e)
    BY <2>5, <2>6, MadeReads
  <2>8. First(n, fd)' = x
    BY <1>1, <2>4 DEF First
  <2>9. GroupAt(c, n, fd)'
    BY <1>1, <2>1, <2>2, <2>4, <2>7, <2>8 DEF GroupAt
  <2>10. OnlyGroup(c, n, fd)
    BY <1>1, <1>4 DEF OnlyGroup, First
  <2>11. \A k \in Nodes : DOMAIN object_group_single'[k] \subseteq object_group'[k]
    BY <1>1 DEF GInv
  <2> QED BY <1>4, <1>6, <2>1, <2>2, <2>9, <2>10, <2>11, OnlyGroupG
<1> QED BY <1>5, <1>6

LEMMA SpawnGroupG ==
    ASSUME IInv, OInv, GInv, NEW n \in Nodes, NEW fd, SpawnGroup(n, fd)
    PROVE  GInv'
<1>1. PICK g, m, z, c : /\ g = <<n, fd>> /\ m = Message("address", None, 0, FALSE, n, 0)
                        /\ z = [i \in Ranks |-> <<>>] /\ c = owner[n][fd]
  OBVIOUS
<1>2. /\ Takes(n, fd, {"group"}) /\ ipc' = Taken(n, fd)
      /\ object_group' = [object_group EXCEPT ![n] = @ \cup {fd}]
      /\ member' = Put(member, g, z) /\ returned' = Put(returned, g, <<>>) /\ run' = Put(run, g, z)
      /\ Deliver(n, fd, m)
      /\ UNCHANGED <<deployment, client, object_group_single>>
  BY <1>1 DEF SpawnGroup, Ranks
<1>3. c \in Grouping /\ fd \in DOMAIN owner[n]
  <2>1. {"group"} \cap Voice(None) = {} /\ {"group"} \cap {"alloc", "connect", "call"} = {}
    BY DEF Voice
  <2>2. PICK ops : ops = {"group"}
    OBVIOUS
  <2>3. Takes(n, fd, ops) /\ ops \cap Voice(None) = {} /\ ops \cap {"alloc", "connect", "call"} = {}
    BY <1>2, <2>1, <2>2
  <2> QED BY <1>1, <2>3, GroupSpeaks
<1>4. n = Home[c] /\ fd = client[c].fd /\ client[c].at # "idle" /\ End(c, n, fd)
  BY <1>1, <1>3, GroupClient
<1>5. c \in Clients /\ ipc[n][fd] \in Seq(Msg) /\ inbox[c] \in Seq(Msg) /\ client[c] \in ClientType
  BY <1>4 DEF End
<1>6. ipc[n][fd] # <<>> /\ Head(ipc[n][fd]).op = "group" /\ fd \in DOMAIN ipc[n]
  BY <1>2 DEF Takes
<1>7. GroupAt(c, n, fd)
  BY <1>3, <1>4 DEF GInv
<1>8. PICK s, v, b : s = ipc[n][fd] /\ v = client[c] /\ b = inbox[c]
  OBVIOUS
<1>9. fd \notin object_group[n]
  <2>1. Head(s) \in ToSet(s) /\ Head(s).op = "group"
    BY <1>5, <1>6, <1>8, TailSet
  <2> SUFFICES ASSUME fd \in object_group[n] PROVE FALSE
    OBVIOUS
  <2>2. PICK x, q, u, e : Made(v, s, b, x, q, u, e)
    BY <1>7, <1>8 DEF GroupAt
  <2>3. PICK h : Behind(v, s, h)
    BY <2>2 DEF Made, Queued
  <2> QED BY <2>1, <2>3 DEF Behind
<1>10. b = <<>>
  BY <1>3, <1>4, <1>8, <1>9 DEF OInv, GroupSockets
<1>11. Asked(v, s, <<>>)
  BY <1>7, <1>8, <1>9, <1>10 DEF GroupAt
<1>12. ipc'[n][fd] = Tail(s)
  BY <1>2, <1>8, TakeShape
<1>13. inbox'[c] = Append(b, m) /\ \A d \in Clients : d # c => inbox'[d] = inbox[d]
  <2>1. Told(c, m)
    BY <1>1, <1>2, <1>3, <1>5, TellOne
  <2> QED BY <1>8, <2>1 DEF Told
<1>14. PICK d : d = <<m>>
  OBVIOUS
<1>15. inbox'[c] = d
  BY <1>10, <1>13, <1>14
<1>16. m.op = "address"
  BY <1>1 DEF Message
<1>17. Made(v, Tail(s), d, All, z, z, <<>>)
  BY <1>1, <1>5, <1>6, <1>8, <1>11, <1>14, <1>16, Spawned
<1>18. object_group \in [Nodes -> SUBSET Nat] /\ DOMAIN run = DOMAIN member /\ DOMAIN returned = DOMAIN member
  BY DEF OInv, KindInv
<1>19. \A k \in Nodes : object_group'[k] = IF k = n THEN object_group[n] \cup {fd} ELSE object_group[k]
  BY <1>2, <1>18
<1>20. \A h \in DOMAIN member : h # g => member'[h] = member[h] /\ run'[h] = run[h] /\ returned'[h] = returned[h]
  BY <1>2, <1>18 DEF Put
<1>21. member'[g] = z /\ run'[g] = z /\ returned'[g] = <<>>
  BY <1>2 DEF Put
<1>22. First(n, fd)' = All
  BY <1>2, <1>9 DEF First, GInv
<1>23. GroupAt(c, n, fd)'
  BY <1>1, <1>2, <1>8, <1>12, <1>15, <1>17, <1>19, <1>21, <1>22 DEF GroupAt
<1>24. \A k \in Nodes : \A i \in DOMAIN ipc[k] : k # n \/ i # fd => ipc'[k][i] = ipc[k][i]
  BY <1>2, TakeShape
<1>25. OnlyGroup(c, n, fd)
  BY <1>1, <1>2, <1>13, <1>19, <1>20, <1>24 DEF OnlyGroup, First
<1>26. \A k \in Nodes : DOMAIN object_group_single'[k] \subseteq object_group'[k]
  BY <1>2, <1>19 DEF GInv
<1>27. client'[c].fd = fd
  BY <1>2, <1>4
<1> QED BY <1>3, <1>4, <1>23, <1>25, <1>26, <1>27, OnlyGroupG

LEMMA SetRankG ==
    ASSUME IInv, OInv, GInv, NEW n \in Nodes, NEW fd, SetRank(n, fd)
    PROVE  GInv'
<1>1. PICK g, c, y : g = <<n, fd>> /\ c = owner[n][fd] /\ y = Head(ipc[n][fd]).id
  OBVIOUS
<1>2. /\ Takes(n, fd, {"rank"}) /\ ipc' = Taken(n, fd) /\ fd \in object_group[n]
      /\ object_group_single' = [object_group_single EXCEPT ![n] = Put(object_group_single[n], fd, y)]
      /\ UNCHANGED <<deployment, client, inbox, object_group, member, returned, run>>
  BY <1>1 DEF SetRank
<1>3. c \in Grouping /\ fd \in DOMAIN owner[n]
  BY <1>1, <1>2 DEF OInv, GroupSockets
<1>4. n = Home[c] /\ fd = client[c].fd /\ client[c].at # "idle" /\ End(c, n, fd)
  BY <1>1, <1>3, GroupClient
<1>5. PICK x, p, b, q, u, e, v :
        /\ x = First(n, fd) /\ p = ipc[n][fd] /\ b = inbox[c] /\ q = member[g] /\ u = run[g]
        /\ e = returned[g] /\ v = client[c]
  OBVIOUS
<1>6. Made(v, p, b, x, q, u, e)
  <2>1. GroupAt(c, n, fd)
    BY <1>3, <1>4 DEF GInv
  <2> QED BY <1>1, <1>2, <1>5, <2>1 DEF GroupAt
<1>7. p \in Seq(Msg) /\ p # <<>> /\ Head(p).op = "rank" /\ y = Head(p).id
  BY <1>1, <1>2, <1>4, <1>5 DEF End, Takes
<1>8. Made(v, Tail(p), b, y, q, u, e)
  BY <1>6, <1>7, MadeRanked
<1>9. ipc'[n][fd] = Tail(p)
  BY <1>2, <1>5, TakeShape
<1>10. object_group_single = [k \in Nodes |-> object_group_single[k]]
  BY DEF OInv, KindInv
<1>11. PICK o : o = object_group_single[n]
  OBVIOUS
<1>12. object_group_single'[n] = Put(o, fd, y) /\ \A k \in Nodes : k # n => object_group_single'[k] = object_group_single[k]
  BY <1>2, <1>10, <1>11
<1>13. First(n, fd)' = y
  BY <1>12 DEF First, Put
<1>14. \A k \in Nodes : \A i : k # n \/ i # fd => First(k, i)' = First(k, i)
  BY <1>11, <1>12 DEF First, Put
<1>15. GroupAt(c, n, fd)'
  BY <1>1, <1>2, <1>5, <1>8, <1>9, <1>13 DEF GroupAt
<1>16. \A k \in Nodes : \A i \in DOMAIN ipc[k] : k # n \/ i # fd => ipc'[k][i] = ipc[k][i]
  BY <1>2, TakeShape
<1>17. OnlyGroup(c, n, fd)
  BY <1>2, <1>14, <1>16 DEF OnlyGroup
<1>18. \A k \in Nodes : DOMAIN object_group_single'[k] \subseteq object_group'[k]
  BY <1>2, <1>11, <1>12 DEF GInv, Put
<1>19. client'[c].fd = fd
  BY <1>2, <1>4
<1> QED BY <1>3, <1>4, <1>15, <1>17, <1>18, <1>19, OnlyGroupG

LEMMA ForwardToGroupG ==
    ASSUME IInv, OInv, GInv, NEW n \in Nodes, NEW fd, ForwardToGroup(n, fd)
    PROVE  GInv'
<1>1. PICK g, c, m, o, q : /\ g = <<n, fd>> /\ c = owner[n][fd] /\ m = Head(ipc[n][fd])
                           /\ o = object_group_single[n] /\ q = member[g]
  OBVIOUS
<1>2. PICK j : j = [i \in DOMAIN q |-> IF fd \in DOMAIN o /\ o[fd] # i THEN q[i] ELSE Append(q[i], m)]
  OBVIOUS
<1>3. /\ Takes(n, fd, {"call", "final"}) /\ ipc' = Taken(n, fd) /\ fd \in object_group[n]
      /\ member' = [member EXCEPT ![g] = j]
      /\ object_group_single' = [object_group_single EXCEPT ![n] = Erase(o, fd)]
      /\ (m.op = "final" /\ Deliver(n, fd, m)) \/ inbox' = inbox
      /\ UNCHANGED <<deployment, client, object_group, returned, run>>
  BY <1>1, <1>2 DEF ForwardToGroup
<1>4. c \in Grouping /\ fd \in DOMAIN owner[n]
  BY <1>1, <1>3 DEF OInv, GroupSockets
<1>5. n = Home[c] /\ fd = client[c].fd /\ client[c].at # "idle" /\ End(c, n, fd)
  BY <1>1, <1>4, GroupClient
<1>6. PICK x, p, b, u, e, v, d :
        /\ x = First(n, fd) /\ p = ipc[n][fd] /\ b = inbox[c] /\ u = run[g]
        /\ e = returned[g] /\ v = client[c] /\ d = inbox'[c]
  OBVIOUS
<1>7. Made(v, p, b, x, q, u, e)
  <2>1. GroupAt(c, n, fd)
    BY <1>4, <1>5 DEF GInv
  <2> QED BY <1>1, <1>3, <1>6, <2>1 DEF GroupAt
<1>8. p \in Seq(Msg) /\ p # <<>> /\ m = Head(p) /\ m.op \in {"call", "final"}
  BY <1>1, <1>3, <1>5, <1>6 DEF End, Takes
<1>9. /\ g \in DOMAIN member /\ q \in [Ranks -> Seq(Msg)] /\ u \in [Ranks -> Seq(Msg)]
      /\ v \in ClientType /\ b \in Seq(Msg) /\ c \in Clients
  BY <1>1, <1>3, <1>5, <1>6 DEF End
<1>10. PICK sel : sel = IF fd \in DOMAIN o THEN {o[fd]} ELSE Ranks
  OBVIOUS
<1>11. (sel = Ranks /\ x = All) \/ sel \subseteq {x}
  BY <1>1, <1>6, <1>10 DEF First
<1>12. j = Adds(q, sel, m)
  BY <1>2, <1>9, <1>10 DEF Adds
<1>13. (d = b \/ (m.op = "final" /\ d = Append(b, m))) /\ \A k \in Clients : k # c => inbox'[k] = inbox[k]
  <2>1. CASE inbox' = inbox
    BY <1>6, <2>1
  <2>2. CASE m.op = "final" /\ Deliver(n, fd, m)
    <3>1. Told(c, m)
      BY <1>1, <1>4, <1>9, <2>2, TellOne
    <3> QED BY <1>6, <2>2, <3>1 DEF Told
  <2> QED BY <1>3, <2>1, <2>2
<1>14. Made(v, Tail(p), d, All, j, u, e)
  <2>1. d = b \/ (m.op = "final" /\ d = Append(b, m))
    BY <1>13
  <2> QED BY <1>7, <1>8, <1>9, <1>11, <1>12, <2>1, MadeForwarded
<1>15. ipc'[n][fd] = Tail(p)
  BY <1>3, <1>6, TakeShape
<1>16. object_group_single = [k \in Nodes |-> object_group_single[k]]
  BY DEF OInv, KindInv
<1>17. object_group_single'[n] = Erase(o, fd) /\ \A k \in Nodes : k # n => object_group_single'[k] = object_group_single[k]
  BY <1>3, <1>16
<1>18. First(n, fd)' = All
  BY <1>17 DEF First, Erase
<1>19. \A k \in Nodes : \A i : k # n \/ i # fd => First(k, i)' = First(k, i)
  BY <1>1, <1>17 DEF First, Erase
<1>20. member'[g] = j /\ \A h \in DOMAIN member : h # g => member'[h] = member[h]
  BY <1>3, <1>9
<1>21. GroupAt(c, n, fd)'
  BY <1>1, <1>3, <1>6, <1>14, <1>15, <1>18, <1>20 DEF GroupAt
<1>22. \A k \in Nodes : \A i \in DOMAIN ipc[k] : k # n \/ i # fd => ipc'[k][i] = ipc[k][i]
  BY <1>3, TakeShape
<1>23. OnlyGroup(c, n, fd)
  BY <1>1, <1>3, <1>13, <1>19, <1>20, <1>22 DEF OnlyGroup
<1>24. \A k \in Nodes : DOMAIN object_group_single'[k] \subseteq object_group'[k]
  BY <1>1, <1>3, <1>17 DEF GInv, Erase
<1>25. client'[c].fd = fd
  BY <1>3, <1>5
<1> QED BY <1>4, <1>5, <1>21, <1>23, <1>24, <1>25, OnlyGroupG

LEMMA MemberRunsG ==
    ASSUME IInv, OInv, GInv, NEW g \in DOMAIN member, NEW i \in DOMAIN member[g], MemberRuns(g, i)
    PROVE  GInv'
<1>1. PICK n, fd : n = g[1] /\ fd = g[2] /\ g = <<n, fd>> /\ n \in Nodes /\ fd \in object_group[n]
  BY DEF OInv, KindInv
<1>2. PICK c : c = owner[n][fd]
  OBVIOUS
<1>3. c \in Grouping /\ fd \in DOMAIN owner[n]
  BY <1>1, <1>2 DEF OInv, GroupSockets
<1>4. n = Home[c] /\ fd = client[c].fd /\ client[c].at # "idle" /\ End(c, n, fd)
  BY <1>1, <1>2, <1>3, GroupClient
<1>5. PICK x, p, b, q, u, e, v :
        /\ x = First(n, fd) /\ p = ipc[n][fd] /\ b = inbox[c] /\ q = member[g] /\ u = run[g]
        /\ e = returned[g] /\ v = client[c]
  OBVIOUS
<1>6. PICK m, j, w, a : /\ m = Head(q[i]) /\ j = [q EXCEPT ![i] = Tail(q[i])] /\ w = [u EXCEPT ![i] = Append(u[i], m)]
                        /\ a = IF Answered(m, i) THEN Append(e, m) ELSE e
  OBVIOUS
<1>7. /\ q[i] # <<>>
      /\ member' = [member EXCEPT ![g] = j] /\ run' = [run EXCEPT ![g] = w]
      /\ returned' = IF Answered(m, i) THEN [returned EXCEPT ![g] = Append(e, m)] ELSE returned
      /\ UNCHANGED <<deployment, ipc, client, inbox, object_group, object_group_single>>
  BY <1>5, <1>6 DEF MemberRuns, local, Answered
<1>8. Made(v, p, b, x, q, u, e)
  <2>1. GroupAt(c, n, fd)
    BY <1>3, <1>4 DEF GInv
  <2> QED BY <1>1, <1>5, <2>1 DEF GroupAt
<1>9. /\ p \in Seq(Msg) /\ b \in Seq(Msg) /\ q \in [Ranks -> Seq(Msg)] /\ u \in [Ranks -> Seq(Msg)] /\ e \in Seq(Msg)
      /\ v \in ClientType
  BY <1>1, <1>4, <1>5 DEF End
<1>10. i \in Ranks
  BY <1>5, <1>9
<1>11. Made(v, p, b, x, j, w, a)
  <2>1. Runs(i, m, q, u, e, j, w, a) /\ q[i] # <<>>
    BY <1>6, <1>7 DEF Runs
  <2> QED BY <1>8, <1>9, <1>10, <2>1, MadeRuns
<1>12. DOMAIN run = DOMAIN member /\ DOMAIN returned = DOMAIN member
  BY DEF OInv, KindInv
<1>13. member'[g] = j /\ run'[g] = w /\ \A h \in DOMAIN member : h # g => member'[h] = member[h] /\ run'[h] = run[h]
  BY <1>7, <1>12
<1>14. returned'[g] = a /\ \A h \in DOMAIN member : h # g => returned'[h] = returned[h]
  <2>1. CASE Answered(m, i)
    BY <1>6, <1>7, <1>12, <2>1
  <2>2. CASE ~Answered(m, i)
    BY <1>5, <1>6, <1>7, <1>12, <2>2
  <2> QED BY <2>1, <2>2
<1>15. First(n, fd)' = x
  BY <1>5, <1>7 DEF First
<1>16. GroupAt(c, n, fd)'
  BY <1>1, <1>5, <1>7, <1>11, <1>13, <1>14, <1>15 DEF GroupAt
<1>17. OnlyGroup(c, n, fd)
  BY <1>1, <1>7, <1>13, <1>14 DEF OnlyGroup, First
<1>18. \A k \in Nodes : DOMAIN object_group_single'[k] \subseteq object_group'[k]
  BY <1>7 DEF GInv
<1>19. client'[c].fd = fd
  BY <1>4, <1>7
<1> QED BY <1>3, <1>4, <1>16, <1>17, <1>18, <1>19, OnlyGroupG

LEMMA ReceiveGroupG ==
    ASSUME IInv, OInv, GInv, NEW n \in Nodes, NEW fd, ReceiveGroup(n, fd)
    PROVE  GInv'
<1>1. PICK g, c : g = <<n, fd>> /\ c = owner[n][fd]
  OBVIOUS
<1>2. PICK x, p, b, q, u, e, v, d :
        /\ x = First(n, fd) /\ p = ipc[n][fd] /\ b = inbox[c] /\ q = member[g] /\ u = run[g]
        /\ e = returned[g] /\ v = client[c] /\ d = inbox'[c]
  OBVIOUS
<1>3. /\ fd \in object_group[n] /\ e # <<>>
      /\ Deliver(n, fd, Head(e)) /\ returned' = [returned EXCEPT ![g] = Tail(e)]
      /\ UNCHANGED <<deployment, ipc, client, object_group, object_group_single, member, run>>
  BY <1>1, <1>2 DEF ReceiveGroup, local
<1>4. c \in Grouping /\ fd \in DOMAIN owner[n]
  BY <1>1, <1>3 DEF OInv, GroupSockets
<1>5. n = Home[c] /\ fd = client[c].fd /\ client[c].at # "idle" /\ End(c, n, fd)
  BY <1>1, <1>4, GroupClient
<1>6. Made(v, p, b, x, q, u, e)
  <2>1. GroupAt(c, n, fd)
    BY <1>4, <1>5 DEF GInv
  <2> QED BY <1>1, <1>2, <1>3, <2>1 DEF GroupAt
<1>7. b \in Seq(Msg) /\ e \in Seq(Msg) /\ c \in Clients /\ g \in DOMAIN member
  BY <1>1, <1>2, <1>3, <1>5 DEF End
<1>8. PICK m, a : m = Head(e) /\ a = Tail(e)
  OBVIOUS
<1>9. Told(c, m)
  <2>1. Deliver(n, fd, m)
    BY <1>3, <1>8
  <2> QED BY <1>1, <1>4, <1>7, <2>1, TellOne
<1>10. d = Append(b, Head(e)) /\ \A k \in Clients : k # c => inbox'[k] = inbox[k]
  BY <1>2, <1>8, <1>9 DEF Told
<1>11. Made(v, p, d, x, q, u, a)
  BY <1>3, <1>6, <1>7, <1>8, <1>10, MadeReceives
<1>12. DOMAIN returned = DOMAIN member
  BY DEF OInv, KindInv
<1>13. returned'[g] = a /\ \A h \in DOMAIN member : h # g => returned'[h] = returned[h]
  BY <1>3, <1>7, <1>8, <1>12
<1>14. First(n, fd)' = x
  BY <1>2, <1>3 DEF First
<1>15. GroupAt(c, n, fd)'
  BY <1>1, <1>2, <1>3, <1>11, <1>13, <1>14 DEF GroupAt
<1>16. OnlyGroup(c, n, fd)
  BY <1>1, <1>3, <1>10, <1>13 DEF OnlyGroup, First
<1>17. \A k \in Nodes : DOMAIN object_group_single'[k] \subseteq object_group'[k]
  BY <1>3 DEF GInv
<1>18. client'[c].fd = fd
  BY <1>3, <1>5
<1> QED BY <1>4, <1>5, <1>15, <1>16, <1>17, <1>18, OnlyGroupG

LEMMA InitG == Init => GInv
<1> SUFFICES ASSUME Init PROVE GInv
  OBVIOUS
<1>1. \A c \in Grouping : client[c].at = "idle"
  BY DEF Init, Grouping
<1>2. \A n \in Nodes : DOMAIN object_group_single[n] = {}
  BY DEF Init
<1> QED BY <1>1, <1>2 DEF GInv

LEMMA MainG ==
    ASSUME IInv, OInv, GInv, NEW n \in Nodes, Main(n)
    PROVE  GInv'
<1>1. ASSUME NEW fd \in DOMAIN ipc[n],
             \/ Terminate(n, fd) \/ Connection(n, fd) \/ AllocateHere(n, fd) \/ AllocateThere(n, fd)
             \/ AllocationFromMpi(n, fd) \/ RedirectResponse(n, fd) \/ RedirectRequest(n, fd)
      PROVE  GInv'
  BY <1>1, MainAside, AsideG
<1>2. ASSUME NEW fd \in DOMAIN ipc[n], RequestFromMpi(n, fd) PROVE GInv'
  BY <1>2, RequestAside, AsideG
<1>3. ASSUME NEW fd \in DOMAIN ipc[n], SpawnGroup(n, fd) \/ SetRank(n, fd) \/ ForwardToGroup(n, fd) PROVE GInv'
  BY <1>3, SpawnGroupG, SetRankG, ForwardToGroupG
<1>4. CASE SaveReturn(n) \/ SendCompletes(n) \/ JoinThread(n)
  BY <1>4, QuietAside, AsideG
<1> QED BY <1>1, <1>2, <1>3, <1>4 DEF Main

LEMMA ReceiverG ==
    ASSUME IInv, OInv, GInv, NEW n \in Nodes, Receiver(n)
    PROVE  GInv'
<1>1. ASSUME NEW s \in Nodes, ReceiveCommand(n, s) \/ ReceiveResponse(n, s) \/ ReceiveAllocated(n, s) PROVE GInv'
  BY <1>1, ReceiverAside, AsideG
<1> QED BY <1>1, ReceiveGroupG DEF Receiver

LEMMA ProgramG ==
    ASSUME IInv, OInv, GInv, NEW c \in Clients, Program(c)
    PROVE  GInv'
<1>1. CASE Allocate(c) \/ (\E o \in objects : Bind(c, o)) \/ \E sync \in BOOLEAN : Call(c, sync)
  BY <1>1, AllocateAside, BindAside, CallAside, AsideG
<1> QED BY <1>1, GroupCallG, AllocateGroupG, FinalizeG DEF Program

LEMMA NextG == IInv /\ OInv /\ GInv /\ [Next]_vars => GInv'
<1> SUFFICES ASSUME IInv, OInv, GInv, [Next]_vars PROVE GInv'
  OBVIOUS
<1>1. ASSUME NEW n \in Nodes, Main(n) \/ Receiver(n) PROVE GInv'
  BY <1>1, MainG, ReceiverG
<1>2. CASE ObjectServes \/ ProgramTerminates \/ \E n \in Nodes : CallsBack(n)
  BY <1>2, ObjectAside, AsideG DEF CallsBack
<1>3. CASE Members
  BY <1>3, MemberRunsG DEF Members
<1>4. ASSUME NEW c \in Clients, Program(c) \/ Read(c) PROVE GInv'
  BY <1>4, ProgramG, ReadG
<1>5. CASE UNCHANGED vars
  <2>1. UNCHANGED <<deployment, groups, client, inbox, ipc>>
    BY <1>5 DEF vars, local
  <2> QED BY <2>1, RestAside, AsideG
<1> QED BY <1>1, <1>2, <1>3, <1>4, <1>5 DEF Next

\* What a group was sent is on its socket, queued or executed, for the members it
\* names and in order, and a program that waits has one call under way.
THEOREM GroupsInductive == Spec => [](IInv /\ OInv /\ GInv)
<1>1. Init => IInv /\ OInv /\ GInv
  BY InitInv, InitO, InitG
<1>2. IInv /\ OInv /\ GInv /\ [Next]_vars => (IInv /\ OInv /\ GInv)'
  BY NextInv, NextO, NextG
<1> QED BY <1>1, <1>2, PTL DEF Spec

\* A member of a group has, executed or queued, exactly the calls that are for it,
\* in the order of the program.
LEMMA ExactlyCalled == IInv /\ OInv /\ GInv => GroupExact
<1> SUFFICES ASSUME IInv, OInv, GInv PROVE GroupExact
  OBVIOUS
<1>1. ASSUME NEW g \in DOMAIN member
      PROVE  \E w : Exact(w) /\ DOMAIN member[g] = Ranks /\ \A h \in Ranks : w[h] = run[g][h] \o member[g][h]
  <2>1. PICK n, fd : n = g[1] /\ fd = g[2] /\ g = <<n, fd>> /\ n \in Nodes /\ fd \in object_group[n]
    BY <1>1 DEF OInv, KindInv
  <2>2. PICK c : c = owner[n][fd]
    OBVIOUS
  <2>3. c \in Grouping /\ fd \in DOMAIN owner[n]
    BY <2>1, <2>2 DEF OInv, GroupSockets
  <2>4. n = Home[c] /\ fd = client[c].fd /\ client[c].at # "idle" /\ End(c, n, fd)
    BY <2>1, <2>2, <2>3, GroupClient
  <2>5. PICK q, u, w : q = member[g] /\ u = run[g] /\ w = Joined(u, q)
    OBVIOUS
  <2>6. Exact(w)
    <3>1. GroupAt(c, n, fd)
      BY <2>3, <2>4 DEF GInv
    <3> QED BY <2>1, <2>5, <3>1 DEF GroupAt, Made, Queued
  <2>7. q \in [Ranks -> Seq(Msg)]
    BY <2>1, <2>4, <2>5 DEF End
  <2>8. \A h \in Ranks : w[h] = run[g][h] \o member[g][h]
    BY <2>5 DEF Joined
  <2> QED BY <2>5, <2>6, <2>7, <2>8
<1>2. ASSUME NEW g \in DOMAIN member, NEW i \in DOMAIN member[g]
      PROVE  LET has == run[g][i] \o member[g][i] IN
             /\ \A j \in DOMAIN has : has[j].node \in {i, All}
             /\ \A j, k \in DOMAIN has : j < k => has[j].n < has[k].n
             /\ \A h \in DOMAIN member[g] : \A j \in DOMAIN has :
                 has[j].node = All => \E k \in DOMAIN (run[g][h] \o member[g][h]) : (run[g][h] \o member[g][h])[k] = has[j]
  <2>1. PICK w : Exact(w) /\ DOMAIN member[g] = Ranks /\ \A h \in Ranks : w[h] = run[g][h] \o member[g][h]
    BY <1>1
  <2>2. i \in Ranks /\ w[i] = run[g][i] \o member[g][i] /\ \A j \in DOMAIN w[i] : w[i][j] \in ToSet(w[i])
    BY <1>2, <2>1 DEF ToSet
  <2>3. /\ \A j \in DOMAIN w[i] : w[i][j].node \in {i, All}
        /\ \A j, k \in DOMAIN w[i] : j < k => w[i][j].n < w[i][k].n
    BY <2>1, <2>2 DEF Exact
  <2>4. ASSUME NEW h \in DOMAIN member[g], NEW j \in DOMAIN w[i], w[i][j].node = All
        PROVE  \E k \in DOMAIN (run[g][h] \o member[g][h]) : (run[g][h] \o member[g][h])[k] = w[i][j]
    <3>1. w[i][j] \in ToSet(w[h]) /\ w[h] = run[g][h] \o member[g][h]
      BY <2>1, <2>2, <2>4 DEF Exact
    <3> QED BY <3>1 DEF ToSet
  <2>5. \A h \in DOMAIN member[g] : \A j \in DOMAIN w[i] : w[i][j].node = All =>
            \E k \in DOMAIN (run[g][h] \o member[g][h]) : (run[g][h] \o member[g][h])[k] = w[i][j]
    BY <2>4, Zenon
  <2>6. w[i] = run[g][i] \o member[g][i]
    BY <2>2
  <2> DEFINE P(has) ==
        /\ \A j \in DOMAIN has : has[j].node \in {i, All}
        /\ \A j, k \in DOMAIN has : j < k => has[j].n < has[k].n
        /\ \A h \in DOMAIN member[g] : \A j \in DOMAIN has :
            has[j].node = All => \E k \in DOMAIN (run[g][h] \o member[g][h]) : (run[g][h] \o member[g][h])[k] = has[j]
  <2>7. P(w[i])
    BY <2>3, <2>5, Zenon
  <2> HIDE DEF P
  <2>8. P(run[g][i] \o member[g][i])
    BY <2>6, <2>7
  <2> QED BY <2>8, Zenon DEF P
<1> QED BY <1>2 DEF GroupExact

\* The answer a program reads from its group is that of the call it waits for.
LEMMA GroupAnswers == IInv /\ OInv /\ GInv => GroupAnswer
<1> SUFFICES ASSUME IInv, OInv, GInv, NEW c \in Grouping, ~client[c].post, NEW i \in DOMAIN inbox[c],
                    inbox[c][i].op # "address"
             PROVE  inbox[c][i].n = client[c].n
  BY DEF GroupAnswer
<1>1. PICK b : b = inbox[c]
  OBVIOUS
<1>2. b \in Seq(Msg) /\ b # <<>>
  BY <1>1 DEF OInv, KindInv, Grouping
<1>3. client[c].at # "idle"
  BY <1>1, <1>2 DEF OInv, QuietInv, Grouping
<1>4. PICK n, fd : n = Home[c] /\ fd = client[c].fd
  OBVIOUS
<1>5. GroupAt(c, n, fd)
  BY <1>3, <1>4 DEF GInv
<1>6. PICK s : Waiting(client[c], s, b)
  BY <1>1, <1>5 DEF GroupAt, Asked, Made
<1>7. Len(b) = 1 /\ i = 1
  BY <1>1, <1>2, <1>6 DEF Waiting
<1> QED BY <1>1, <1>2, <1>6, <1>7 DEF Waiting

\* The members of a group get exactly the calls that are for them, and the
\* program gets the answer of the call it waits for.
THEOREM GroupsRight == Spec => [](GroupExact /\ GroupAnswer)
<1>1. IInv /\ OInv /\ GInv => GroupExact /\ GroupAnswer
  BY ExactlyCalled, GroupAnswers
<1> QED BY <1>1, GroupsInductive, PTL
=============================================================================
