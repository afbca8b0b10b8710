---------------------------- MODULE AnswerProofs ----------------------------
(***************************************************************************)
(* Proofs about Interconnector, completed: the address of a new object and *)
(* the answer to a call reach the client that waits for them, unless a     *)
(* connection carried two requests.                                        *)
(***************************************************************************)
EXTENDS InterconnectorProofs

-----------------------------------------------------------------------------
(* What the nodes owe one another. *)

\* A command another node waits for, and the parts that belong to it.
Owed(x) == x.what \in {"response", "allocated"}
Belongs(x, b) == b.kind = (IF x.what = "response" THEN "response" ELSE "address") /\ b.tag = x.tag

\* What a node told another is still to be received, once.
CommandInv ==
    /\ \A s, d \in Nodes : \A i \in DOMAIN cmd[s][d] : Owed(cmd[s][d][i]) =>
        \E b \in body : b.src = s /\ b.dst = d /\ Belongs(cmd[s][d][i], b)
    /\ \A s, d, e \in Nodes : \A i \in DOMAIN cmd[s][d], j \in DOMAIN cmd[s][e] :
        Owed(cmd[s][d][i]) /\ Owed(cmd[s][e][j]) => d = e /\ i = j

\* Objects have numbers from 1 on.
IdsInv ==
    /\ \A o \in objects : o.id # 0
    /\ \A n \in Nodes : next_object_id[n] # 0 /\ (main[n].at = "exec" => main[n].id # 0)

-----------------------------------------------------------------------------
(* Allocations. *)

\* Allocation k of node n is for socket f, once it is saved or before.
Leads(n, k, f) ==
    IF k \in DOMAIN allocation_return[n] THEN allocation_return[n][k] = f
    ELSE k = allocation_id[n] /\ main[n].at \in {"save", "dead"} /\ main[n].fd = f

\* Every allocation under way between nodes is for some socket.
KnownInv ==
    /\ \A b \in body : b.kind = "alloc" => \E f : Leads(b.src, b.id, f)
    /\ \A b \in body : b.kind = "address" => b.dst \in Nodes /\ \E f : Leads(b.dst, b.tag, f)
    /\ \A d \in Nodes : main[d].at = "exec" /\ main[d].src # None => \E f : Leads(main[d].src, main[d].fd, f)

\* Where the allocation for socket f of node n is: still on the socket, with
\* the main thread that starts the object, or between the nodes.
Executes(y, n, f) ==
    /\ main[y].at = "exec"
    /\ \/ main[y].src = None /\ y = n /\ main[y].fd = f
       \/ main[y].src = n /\ Leads(n, main[y].fd, f)
Carries(b, n, f) ==
    \/ b.kind = "alloc" /\ b.src = n /\ Leads(n, b.id, f)
    \/ b.kind = "address" /\ b.dst = n /\ Leads(n, b.tag, f)
Token(kind, y, n, f) ==
    \/ kind = "said" /\ f \in DOMAIN ipc[n] /\ y \in ToSet(ipc[n][f]) /\ y.op = "alloc"
    \/ kind = "exec" /\ y \in Nodes /\ Executes(y, n, f)
    \/ kind = "sent" /\ y \in body /\ Carries(y, n, f)

\* Where a client v of node h has its object allocated.
Place(v, h) == IF v.node < World THEN v.node ELSE h

\* The client at socket f of node n, which waits for it.
Fit(kind, y, n, f) ==
    /\ Asker(n, f)
    /\ LET v == client[owner[n][f]] IN
       /\ v.fd = f /\ v.at = "alloc" /\ inbox[owner[n][f]] = <<>>
       /\ kind = "said" => y.node = v.node
       /\ kind = "exec" => y = Place(v, n)
       /\ kind = "sent" => (IF y.kind = "alloc" THEN y.dst ELSE y.src) = Place(v, n)

AllocInv ==
    \A n \in Nodes : \A f, kind, y : Token(kind, y, n, f) =>
        /\ Fit(kind, y, n, f)
        /\ \A l, z : Token(l, z, n, f) => l = kind /\ z = y

-----------------------------------------------------------------------------
(* Calls. *)

SyncCall(m) == m.op = "call" /\ m.sync
NoSync(s) == \A m \in ToSet(s) : ~SyncCall(m)
OneSync(s) == \A i, j \in DOMAIN s : SyncCall(s[i]) /\ SyncCall(s[j]) => i = j

\* Client c of node h is in state v, with messages s on its socket, answers b,
\* and the socket connected if j.
Talks(c, h, v, s, b, j) ==
    /\ v.at \notin {"idle", "final", "finished"}
    /\ v.at \in {"alloc", "ready"} => Len(s) <= 1 /\ \A m \in ToSet(s) : m.op = "alloc"
    /\ v.at \in {"bound", "wait"} =>
        /\ v.id # 0 /\ (j \/ (s # <<>> /\ Head(s).op = "connect"))
        /\ OneSync(s)
        /\ \A m \in ToSet(s) : SyncCall(m) => v.at = "wait" /\ m.n = v.n /\ b = <<>>
    /\ b # <<>> =>
        /\ Len(b) = 1
        /\ b[1].op = "address" => v.at = "alloc" /\ b[1].node = Place(v, h)
        /\ b[1].op # "address" => v.at = "wait" /\ b[1].who = c /\ b[1].n = v.n

TalkInv ==
    /\ \A c \in Clients \ Grouping : client[c].at # "idle" =>
        Talks(c, Home[c], client[c], ipc[Home[c]][client[c].fd], inbox[c],
              client[c].fd \in DOMAIN incomingconnection[Home[c]])
    /\ \A n \in Nodes : \A f \in DOMAIN owner[n] :
        owner[n][f] \in Clients \ Grouping /\ f # client[owner[n][f]].fd => ipc[n][f] = <<>>

\* The answers on socket f of node n are for tag t of node h.
Entry(n, f, h, t) ==
    f \in DOMAIN outgoingconnection[n] /\ outgoingconnection[n][f].src = h /\ outgoingconnection[n][f].tag = t

\* The connections to objects, on which answers come back.
ConnInv ==
    /\ \A r \in serving : r.m.sync =>
        /\ r.fd \in DOMAIN outgoingconnection[r.node] /\ ipc[r.node][r.fd] = <<>>
        /\ \A q \in serving : q.m.sync /\ q.node = r.node /\ q.fd = r.fd => q = r
    /\ \A n \in Nodes : \A f \in DOMAIN ipc[n] : owner[n][f] = None =>
        \A m \in ToSet(ipc[n][f]) : m.op \in {"call", "answer"} =>
            f \in DOMAIN outgoingconnection[n] /\ Len(ipc[n][f]) = 1
    /\ \A b \in body : b.kind = "request" => b.id # 0
    /\ \A b \in body : b.kind = "response" => b.m.op # "address"

\* The call with number k of client w has tag t of node h, and is not answered.
Is(m, w, k) == m.who = w /\ m.n = k
Sends(b, h, t) ==
    \/ b.kind = "request" /\ b.m.sync /\ b.src = h /\ b.tag = t
    \/ b.kind = "response" /\ b.dst = h /\ b.tag = t
Pends(h, t, w, k) ==
    \/ \E b \in body : Sends(b, h, t) /\ Is(b.m, w, k)
    \/ \E r \in serving : r.m.sync /\ Entry(r.node, r.fd, h, t) /\ Is(r.m, w, k)
    \/ \E n \in Nodes : \E f : Entry(n, f, h, t) /\
         \E m \in ToSet(ipc[n][f]) : m.op \in {"call", "answer"} /\ Is(m, w, k)

\* Client w waits for it.
Held(h, t, w, k) ==
    /\ w \in Clients \ Grouping /\ h = Home[w] /\ incomingtag[h][t] = client[w].fd
    /\ client[w].at = "wait" /\ client[w].n = k /\ inbox[w] = <<>>
    /\ NoSync(ipc[h][client[w].fd])

PendInv ==
    /\ \A h, t, w, k : Pends(h, t, w, k) =>
        /\ h \in Nodes /\ t \in Nat /\ t < next_tag[h]
        /\ t \in DOMAIN incomingtag[h] => Held(h, t, w, k)
    /\ \A h, t, u, w, i, k : Pends(h, t, w, i) /\ Pends(h, u, w, k)
         /\ t \in DOMAIN incomingtag[h] /\ u \in DOMAIN incomingtag[h] => t = u

WayInv == AllocInv /\ TalkInv /\ ConnInv /\ PendInv
BaseInv == CommandInv /\ IdsInv /\ KnownInv
AInv == BaseInv /\ (overlap \/ WayInv)

-----------------------------------------------------------------------------
(* Commands. *)

CmdRecord == [what : Commands, tag : Nat]

\* More commands that nobody waits for.
LEMMA CommandsMore ==
    ASSUME CommandInv, \A b \in body : b.kind \in {"response", "address"} => b \in body',
           \A s, d \in Nodes : \A i \in DOMAIN cmd'[s][d] :
             \/ i \in DOMAIN cmd[s][d] /\ cmd'[s][d][i] = cmd[s][d][i]
             \/ ~Owed(cmd'[s][d][i])
    PROVE  CommandInv'
<1>1. ASSUME NEW s \in Nodes, NEW d \in Nodes, NEW i \in DOMAIN cmd'[s][d], Owed(cmd'[s][d][i])
      PROVE  \E b \in body' : b.src = s /\ b.dst = d /\ Belongs(cmd'[s][d][i], b)
  <2>1. i \in DOMAIN cmd[s][d] /\ cmd'[s][d][i] = cmd[s][d][i]
    BY <1>1
  <2>2. PICK b \in body : b.src = s /\ b.dst = d /\ Belongs(cmd[s][d][i], b)
    BY <1>1, <2>1 DEF CommandInv
  <2>3. b \in body'
    BY <2>2 DEF Belongs
  <2> QED BY <2>1, <2>2, <2>3
<1>2. ASSUME NEW s \in Nodes, NEW d \in Nodes, NEW e \in Nodes, NEW i \in DOMAIN cmd'[s][d], NEW j \in DOMAIN cmd'[s][e],
             Owed(cmd'[s][d][i]), Owed(cmd'[s][e][j])
      PROVE  d = e /\ i = j
  <2>1. /\ i \in DOMAIN cmd[s][d] /\ cmd'[s][d][i] = cmd[s][d][i]
        /\ j \in DOMAIN cmd[s][e] /\ cmd'[s][e][j] = cmd[s][e][j]
    BY <1>2
  <2> QED BY <1>2, <2>1 DEF CommandInv
<1> QED BY <1>1, <1>2 DEF CommandInv, Owed, Belongs

LEMMA CommandsStay ==
    ASSUME CommandInv, cmd' = cmd, \A b \in body : b.kind \in {"response", "address"} => b \in body'
    PROVE  CommandInv'
  BY CommandsMore

\* Node n tells node to x, with its parts; it was not sending.
LEMMA CommandOwed ==
    ASSUME IInv, CommandInv, NEW n \in Nodes, NEW to \in Nodes, NEW j, NEW x, main[n].at \notin {"sent", "dead"},
           \A b \in body : b.kind \in {"response", "address"} => b \in body',
           \E b \in body' : b.src = n /\ b.dst = to /\ Belongs(x, b),
           \A s, d \in Nodes : \A i \in DOMAIN cmd'[s][d] :
             \/ i \in DOMAIN cmd[s][d] /\ cmd'[s][d][i] = cmd[s][d][i]
             \/ s = n /\ d = to /\ i = j /\ cmd'[s][d][i] = x
    PROVE  CommandInv'
<1>1. ASSUME NEW d \in Nodes, NEW i \in DOMAIN cmd[n][d] PROVE ~Owed(cmd[n][d][i])
  <2>1. SUFFICES ASSUME Owed(cmd[n][d][i]) PROVE FALSE
    OBVIOUS
  <2>2. PICK b \in body : b.src = n /\ Belongs(cmd[n][d][i], b)
    BY <2>1 DEF CommandInv
  <2>3. b.kind # "alloc"
    BY <2>2 DEF Belongs
  <2> QED BY <2>2, <2>3 DEF IInv, SendInv
<1>2. ASSUME NEW s \in Nodes, NEW d \in Nodes, NEW i \in DOMAIN cmd'[s][d], Owed(cmd'[s][d][i])
      PROVE  \E b \in body' : b.src = s /\ b.dst = d /\ Belongs(cmd'[s][d][i], b)
  <2>1. CASE i \in DOMAIN cmd[s][d] /\ cmd'[s][d][i] = cmd[s][d][i]
    <3>1. PICK b \in body : b.src = s /\ b.dst = d /\ Belongs(cmd[s][d][i], b)
      BY <1>2, <2>1 DEF CommandInv
    <3>2. b \in body'
      BY <3>1 DEF Belongs
    <3> QED BY <2>1, <3>1, <3>2
  <2>2. CASE s = n /\ d = to /\ i = j /\ cmd'[s][d][i] = x
    BY <2>2
  <2> QED BY <2>1, <2>2
<1>3. ASSUME NEW s \in Nodes, NEW d \in Nodes, NEW e \in Nodes, NEW i \in DOMAIN cmd'[s][d], NEW k \in DOMAIN cmd'[s][e],
             Owed(cmd'[s][d][i]), Owed(cmd'[s][e][k])
      PROVE  d = e /\ i = k
  <2>1. CASE s = n
    <3>1. d = to /\ i = j
      BY <1>1, <1>3, <2>1
    <3>2. e = to /\ k = j
      BY <1>1, <1>3, <2>1
    <3> QED BY <3>1, <3>2
  <2>2. CASE s # n
    <3>1. /\ i \in DOMAIN cmd[s][d] /\ cmd'[s][d][i] = cmd[s][d][i]
          /\ k \in DOMAIN cmd[s][e] /\ cmd'[s][e][k] = cmd[s][e][k]
      BY <2>2
    <3> QED BY <1>3, <3>1 DEF CommandInv
  <2> QED BY <2>1, <2>2
<1> QED BY <1>2, <1>3 DEF CommandInv, Owed, Belongs

\* The commands p when x was added for d, and when the first for d was taken.
Adding(p, s, d, x) == [p EXCEPT ![s][d] = Append(@, x)]

\* Commands q are p with x added for d.
Longer(p, q, s, d, x) ==
    \A k, e \in Nodes : \A i \in DOMAIN q[k][e] :
        \/ i \in DOMAIN p[k][e] /\ q[k][e][i] = p[k][e][i]
        \/ k = s /\ e = d /\ i = Len(p[s][d]) + 1 /\ q[k][e][i] = x

LEMMA Added ==
    ASSUME NEW p \in CmdType, NEW s \in Nodes, NEW d \in Nodes, NEW x \in CmdRecord, NEW q, q = Adding(p, s, d, x)
    PROVE  q \in CmdType /\ Longer(p, q, s, d, x)
<1>1. PICK S, u, v : S = CmdRecord /\ u = p[s][d] /\ v = Append(p[s][d], x)
  OBVIOUS
<1>2. u \in Seq(S) /\ x \in S /\ v = Append(u, x)
  BY <1>1 DEF CmdType, CmdRecord
<1>3. v \in Seq(S) /\ DOMAIN v = DOMAIN u \cup {Len(u) + 1} /\ (\A i \in DOMAIN u : v[i] = u[i]) /\ v[Len(u) + 1] = x
  BY <1>2, AppendSet
<1>4. q = [p EXCEPT ![s] = [p[s] EXCEPT ![d] = v]]
  BY <1>1 DEF Adding, CmdType
<1>5. q[s][d] = v /\ \A k, e \in Nodes : k # s \/ e # d => q[k][e] = p[k][e]
  BY <1>4 DEF CmdType
<1>6. q \in CmdType
  <2>1. PICK T, w : T = Seq([what : Commands, tag : Nat]) /\ w = [p[s] EXCEPT ![d] = v]
    OBVIOUS
  <2>2. v \in T /\ p \in [Nodes -> [Nodes -> T]]
    BY <1>1, <1>3, <2>1 DEF CmdType, CmdRecord
  <2>3. w \in [Nodes -> T] /\ q = [p EXCEPT ![s] = w]
    BY <1>4, <2>1, <2>2
  <2>4. q \in [Nodes -> [Nodes -> T]]
    BY <2>2, <2>3
  <2> QED BY <2>1, <2>4 DEF CmdType
<1> QED BY <1>1, <1>3, <1>5, <1>6, SMTT(30) DEF Longer

\* A node receives the first command for it; what belongs to it goes with it.
LEMMA CommandsLess ==
    ASSUME IInv, CommandInv, NEW n \in Nodes, NEW s \in Nodes, cmd[s][n] # <<>>, cmd' = [cmd EXCEPT ![s][n] = Tail(@)],
           \A b \in body : \/ b \in body' \/ b.kind \notin {"response", "address"}
                           \/ b.src = s /\ Owed(Head(cmd[s][n]))
    PROVE  CommandInv'
<1>1. PICK S, u, v : S = CmdRecord /\ u = cmd[s][n] /\ v = Tail(cmd[s][n])
  OBVIOUS
<1>2. u \in Seq(S) /\ u # <<>> /\ v = Tail(u)
  BY <1>1 DEF CmdRecord, IInv, TypeInv, CmdType
<1>3. /\ DOMAIN v \subseteq Nat \ {0} /\ 1 \in DOMAIN u /\ Head(u) = u[1]
      /\ \A i \in DOMAIN v : i + 1 \in DOMAIN u /\ v[i] = u[i + 1]
  BY <1>2
<1>4. cmd'[s][n] = v /\ \A k, e \in Nodes : k # s \/ e # n => cmd'[k][e] = cmd[k][e]
  BY <1>1 DEF IInv, TypeInv, CmdType
<1>5. ASSUME NEW k \in Nodes, NEW e \in Nodes, NEW i \in DOMAIN cmd'[k][e], Owed(cmd'[k][e][i])
      PROVE  \E j : /\ j = (IF k = s /\ e = n THEN i + 1 ELSE i)
                    /\ j \in DOMAIN cmd[k][e] /\ cmd'[k][e][i] = cmd[k][e][j]
                    /\ (k = s => ~Owed(Head(cmd[s][n])))
  <2>1. PICK j : j = (IF k = s /\ e = n THEN i + 1 ELSE i)
    OBVIOUS
  <2>2. j \in DOMAIN cmd[k][e] /\ cmd'[k][e][i] = cmd[k][e][j]
    <3>1. CASE k = s /\ e = n
      <4>1. cmd[k][e] = u /\ cmd'[k][e] = v
        BY <1>1, <1>4, <3>1
      <4>2. j = i + 1 /\ i \in DOMAIN v
        BY <1>5, <2>1, <3>1, <4>1
      <4>3. i + 1 \in DOMAIN u /\ v[i] = u[i + 1]
        BY <1>3, <4>2
      <4> QED BY <4>1, <4>2, <4>3
    <3>2. CASE ~(k = s /\ e = n)
      BY <1>4, <2>1, <3>2
    <3> QED BY <3>1, <3>2
  <2>3. ASSUME k = s, Owed(Head(cmd[s][n])) PROVE FALSE
    <3>1. 1 \in DOMAIN cmd[s][n] /\ Owed(cmd[s][n][1])
      BY <1>1, <1>3, <2>3
    <3>2. Owed(cmd[s][e][j]) /\ j \in DOMAIN cmd[s][e]
      BY <1>5, <2>2, <2>3
    <3>3. e = n /\ j = 1
      BY <3>1, <3>2 DEF CommandInv
    <3>4. i \in Nat \ {0} /\ j = i + 1
      BY <1>3, <1>4, <1>5, <2>1, <2>3, <3>3
    <3> QED BY <3>3, <3>4
  <2> QED BY <2>1, <2>2, <2>3
<1>6. ASSUME NEW k \in Nodes, NEW e \in Nodes, NEW i \in DOMAIN cmd'[k][e], Owed(cmd'[k][e][i])
      PROVE  \E b \in body' : b.src = k /\ b.dst = e /\ Belongs(cmd'[k][e][i], b)
  <2>1. PICK j : /\ j \in DOMAIN cmd[k][e] /\ cmd'[k][e][i] = cmd[k][e][j]
                 /\ (k = s => ~Owed(Head(cmd[s][n])))
    BY <1>5, <1>6
  <2>2. PICK b \in body : b.src = k /\ b.dst = e /\ Belongs(cmd[k][e][j], b)
    BY <1>6, <2>1 DEF CommandInv
  <2>3. b \in body'
    BY <2>1, <2>2 DEF Belongs
  <2> QED BY <2>1, <2>2, <2>3
<1>7. ASSUME NEW k \in Nodes, NEW d \in Nodes, NEW e \in Nodes, NEW i \in DOMAIN cmd'[k][d], NEW j \in DOMAIN cmd'[k][e],
             Owed(cmd'[k][d][i]), Owed(cmd'[k][e][j])
      PROVE  d = e /\ i = j
  <2>1. PICK x : x = (IF k = s /\ d = n THEN i + 1 ELSE i) /\ x \in DOMAIN cmd[k][d] /\ cmd'[k][d][i] = cmd[k][d][x]
    BY <1>5, <1>7
  <2>2. PICK y : y = (IF k = s /\ e = n THEN j + 1 ELSE j) /\ y \in DOMAIN cmd[k][e] /\ cmd'[k][e][j] = cmd[k][e][y]
    BY <1>5, <1>7
  <2>3. d = e /\ x = y
    BY <1>7, <2>1, <2>2 DEF CommandInv
  <2>4. CASE k = s /\ d = n
    <3>1. i \in Nat /\ j \in Nat /\ i + 1 = j + 1
      BY <1>3, <1>4, <1>7, <2>1, <2>2, <2>3, <2>4
    <3> QED BY <2>3, <3>1
  <2>5. CASE ~(k = s /\ d = n)
    BY <2>1, <2>2, <2>3, <2>5
  <2> QED BY <2>4, <2>5
<1> QED BY <1>6, <1>7, SMTT(30) DEF CommandInv, Owed, Belongs
LEMMA Commanded ==
    ASSUME IInv, NEW s \in Nodes, NEW d, NEW what \in Commands, NEW tag \in Nat, cmd' = Command(s, d, what, tag),
           NEW x, x = [what |-> what, tag |-> tag]
    PROVE  Longer(cmd, cmd', s, d, x)
<1>1. cmd \in CmdType /\ x \in CmdRecord /\ cmd' = Adding(cmd, s, d, x)
  BY DEF IInv, TypeInv, CmdRecord, Command, Adding
<1>2. CASE d \in Nodes
  <2>1. PICK q : q = cmd'
    OBVIOUS
  <2>2. q = Adding(cmd, s, d, x)
    BY <1>1, <2>1
  <2>3. Longer(cmd, q, s, d, x)
    BY <1>1, <1>2, <2>2, Added
  <2> QED BY <2>1, <2>3
<1>3. CASE d \notin Nodes
  <2>1. \A k, e \in Nodes : cmd'[k][e] = cmd[k][e]
    BY <1>1, <1>3 DEF Adding, CmdType
  <2> QED BY <2>1 DEF Longer
<1> QED BY <1>2, <1>3

LEMMA TerminateCommand ==
    ASSUME IInv, CommandInv, NEW n \in Nodes, NEW fd, Terminate(n, fd)
    PROVE  CommandInv'
<1>1. body' = body
  BY DEF Terminate
<1>2. CASE n # 0
  BY <1>1, <1>2, CommandsStay DEF Terminate
<1>3. CASE n = 0
  <2>1. PICK x : x = [what |-> "terminate", tag |-> 0]
    OBVIOUS
  <2>2. x \in CmdRecord /\ ~Owed(x) /\ cmd \in CmdType /\ cmd' = [cmd EXCEPT ![0] = [d \in Nodes |-> Append(cmd[0][d], x)]]
    BY <1>3, <2>1 DEF Terminate, CmdRecord, Commands, Owed, IInv, TypeInv
  <2>3. \A d \in Nodes : cmd'[0][d] = Append(cmd[0][d], x) /\ \A k \in Nodes : k # 0 => cmd'[k][d] = cmd[k][d]
    BY <1>3, <2>2 DEF CmdType
  <2>4. ASSUME NEW d \in Nodes, NEW i \in DOMAIN cmd'[0][d]
        PROVE  (i \in DOMAIN cmd[0][d] /\ cmd'[0][d][i] = cmd[0][d][i]) \/ cmd'[0][d][i] = x
    <3>1. PICK S, u : S = CmdRecord /\ u = cmd[0][d]
      OBVIOUS
    <3>2. u \in Seq(S) /\ x \in S
      BY <1>3, <2>2, <3>1 DEF CmdType, CmdRecord
    <3>3. /\ DOMAIN Append(u, x) = DOMAIN u \cup {Len(u) + 1}
          /\ \A j \in DOMAIN u : Append(u, x)[j] = u[j]
          /\ Append(u, x)[Len(u) + 1] = x
      BY <3>2, AppendSet
    <3> QED BY <2>3, <2>4, <3>1, <3>3
  <2>5. \A s, d \in Nodes : \A i \in DOMAIN cmd'[s][d] :
             (i \in DOMAIN cmd[s][d] /\ cmd'[s][d][i] = cmd[s][d][i]) \/ ~Owed(cmd'[s][d][i])
    BY <1>3, <2>2, <2>3, <2>4
  <2> QED BY <1>1, <2>5, CommandsMore
<1> QED BY <1>2, <1>3

LEMMA AllocateThereCommand ==
    ASSUME IInv, CommandInv, NEW n \in Nodes, NEW fd, AllocateThere(n, fd)
    PROVE  CommandInv'
<1>1. PICK d, x, y, p : /\ d = Head(ipc[n][fd]).node /\ x = [what |-> "wait", tag |-> 0]
                        /\ y = [what |-> "allocate", tag |-> 0] /\ p = Adding(cmd, n, n, x)
  OBVIOUS
<1>2. /\ cmd' = [cmd EXCEPT ![n][n] = Append(@, x), ![n][d] = Append(@, y)] /\ body \subseteq body' /\ d # n
      /\ Takes(n, fd, {"alloc"}) /\ d < World
  BY <1>1 DEF AllocateThere
<1>3. d \in Nodes
  <2>1. PICK m, ops : m = Head(ipc[n][fd]) /\ ops = {"alloc"}
    OBVIOUS
  <2>2. m \in Msg
    BY <1>2, <2>1, TakenHead
  <2>3. d \in Nat
    BY <1>1, <2>1, <2>2 DEF Msg
  <2> QED BY <1>2, <2>3, InterconnectorAssumption DEF Nodes
<1>4. x \in CmdRecord /\ y \in CmdRecord /\ ~Owed(x) /\ ~Owed(y) /\ cmd \in CmdType
  BY <1>1 DEF CmdRecord, Commands, Owed, IInv, TypeInv
<1>5. p \in CmdType /\ Longer(cmd, p, n, n, x)
  BY <1>1, <1>4, Added
<1>6. cmd' = Adding(p, n, d, y)
  BY <1>1, <1>2, <1>3, <1>4 DEF Adding, CmdType
<1>7. Longer(p, cmd', n, d, y)
  <2>1. PICK q : q = cmd'
    OBVIOUS
  <2>2. q = Adding(p, n, d, y)
    BY <1>6, <2>1
  <2>3. Longer(p, q, n, d, y)
    BY <1>3, <1>4, <1>5, <2>2, Added
  <2> QED BY <2>1, <2>3
<1>8. \A k, e \in Nodes : \A i \in DOMAIN cmd'[k][e] :
            (i \in DOMAIN cmd[k][e] /\ cmd'[k][e][i] = cmd[k][e][i]) \/ ~Owed(cmd'[k][e][i])
  BY <1>4, <1>5, <1>7 DEF Longer
<1> QED BY <1>2, <1>8, CommandsMore

LEMMA RedirectRequestCommand ==
    ASSUME IInv, CommandInv, NEW n \in Nodes, NEW fd, RedirectRequest(n, fd)
    PROVE  CommandInv'
<1>1. PICK d, t, x : cmd' = Command(n, d, "request", t) /\ t = next_tag[n] /\ x = [what |-> "request", tag |-> t]
  BY DEF RedirectRequest
<1>2. body \subseteq body' /\ t \in Nat /\ "request" \in Commands /\ ~Owed(x)
  BY <1>1 DEF RedirectRequest, IInv, TypeInv, Commands, Owed
<1>3. Longer(cmd, cmd', n, d, x)
  BY <1>1, <1>2, Commanded
<1>4. \A k, e \in Nodes : \A i \in DOMAIN cmd'[k][e] :
        (i \in DOMAIN cmd[k][e] /\ cmd'[k][e][i] = cmd[k][e][i]) \/ ~Owed(cmd'[k][e][i])
  BY <1>2, <1>3 DEF Longer
<1> QED BY <1>2, <1>4, CommandsMore

\* Node n tells node to something, with part b.
LEMMA TellsCommand ==
    ASSUME IInv, CommandInv, NEW n \in Nodes, NEW to \in Nodes, NEW what \in Commands, NEW tag \in Nat,
           cmd' = Command(n, to, what, tag), NEW b, body' = body \cup {b}, b.src = n, b.dst = to,
           b.kind = IF what = "response" THEN "response" ELSE "address", b.tag = tag, main[n].at \notin {"sent", "dead"}
    PROVE  CommandInv'
<1>1. PICK x, j : x = [what |-> what, tag |-> tag] /\ j = Len(cmd[n][to]) + 1
  OBVIOUS
<1>2. \A k, e \in Nodes : \A i \in DOMAIN cmd'[k][e] :
             \/ i \in DOMAIN cmd[k][e] /\ cmd'[k][e][i] = cmd[k][e][i]
             \/ k = n /\ e = to /\ i = j /\ cmd'[k][e][i] = x
  <2>1. Longer(cmd, cmd', n, to, x)
    BY <1>1, Commanded
  <2> QED BY <1>1, <2>1 DEF Longer
<1>3. Belongs(x, b)
  BY <1>1 DEF Belongs
<1>4. \E a \in body' : a.src = n /\ a.dst = to /\ Belongs(x, a)
  BY <1>3
<1>5. \A a \in body : a.kind \in {"response", "address"} => a \in body'
  OBVIOUS
<1> QED BY <1>2, <1>4, <1>5, CommandOwed

LEMMA RedirectResponseCommand ==
    ASSUME IInv, CommandInv, NEW n \in Nodes, NEW fd, RedirectResponse(n, fd)
    PROVE  CommandInv'
<1>1. PICK to, b : /\ to = outgoingconnection[n][fd]
                   /\ b = Body("response", n, to.src, to.tag, 0, Head(ipc[n][fd]))
  OBVIOUS
<1>2. /\ fd \in DOMAIN outgoingconnection[n] /\ cmd' = Command(n, to.src, "response", to.tag)
      /\ body' = body \cup {b} /\ main[n].at = "poll"
  BY <1>1 DEF RedirectResponse, Takes
<1>3. to.src \in Nodes /\ to.tag \in Nat /\ "response" \in Commands
  BY <1>1, <1>2 DEF IInv, MapInv, Commands
<1>4. b.src = n /\ b.dst = to.src /\ b.kind = "response" /\ b.tag = to.tag
  BY <1>1 DEF Body
<1>5. PICK d, t, what : d = to.src /\ t = to.tag /\ what = "response"
  OBVIOUS
<1> QED BY <1>2, <1>3, <1>4, <1>5, TellsCommand

LEMMA ObjectCallsBackCommand ==
    ASSUME IInv, CommandInv, NEW n \in Nodes, NEW outcome, ObjectCallsBack(n, outcome)
    PROVE  CommandInv'
<1>1. PICK to, t, a, b : /\ to = main[n].src /\ t = main[n].fd /\ a = Message("address", None, 0, FALSE, n, main[n].id)
                         /\ b = Body("address", n, to, t, 0, a)
  OBVIOUS
<1>2. CASE UNCHANGED <<cmd, body>>
  BY <1>2, CommandsStay
<1>3. CASE to # None /\ cmd' = Command(n, to, "allocated", t) /\ body' = body \cup {b}
  <2>1. main[n] \in MainType /\ main[n].at = "exec"
    BY DEF IInv, TypeInv, ObjectCallsBack
  <2>2. to \in Nodes /\ t \in Nat /\ "allocated" \in Commands
    BY <1>1, <1>3, <2>1 DEF MainType, Commands
  <2>3. b.src = n /\ b.dst = to /\ b.kind = "address" /\ b.tag = t
    BY <1>1 DEF Body
  <2>4. PICK what : what = "allocated"
    OBVIOUS
  <2> QED BY <1>3, <2>1, <2>2, <2>3, <2>4, TellsCommand
<1> QED BY <1>1, <1>2, <1>3 DEF ObjectCallsBack, mpi

\* What a receiving thread takes.
LEMMA ReceiveCommandCommand ==
    ASSUME IInv, CommandInv, NEW n \in Nodes, NEW s \in Nodes, ReceiveCommand(n, s)
    PROVE  CommandInv'
<1>1. cmd[s][n] # <<>> /\ cmd' = [cmd EXCEPT ![s][n] = Tail(@)] /\ body' = body
  BY DEF ReceiveCommand
<1> QED BY <1>1, CommandsLess

\* The parts of an answer are those the command announced.
LEMMA Announced ==
    ASSUME IInv, CommandInv, NEW n \in Nodes, NEW s \in Nodes, cmd[s][n] # <<>>, Owed(Head(cmd[s][n])),
           NEW b \in body, b.src = s, b.kind # "alloc"
    PROVE  b.dst = n /\ Belongs(Head(cmd[s][n]), b)
<1>1. PICK S, u : S = CmdRecord /\ u = cmd[s][n]
  OBVIOUS
<1>2. u \in Seq(S) /\ u # <<>>
  BY <1>1 DEF CmdRecord, IInv, TypeInv, CmdType
<1>3. 1 \in DOMAIN u /\ Head(u) = u[1]
  BY <1>2
<1>4. PICK a \in body : a.src = s /\ a.dst = n /\ Belongs(cmd[s][n][1], a)
  BY <1>1, <1>3 DEF CommandInv
<1>5. a.kind # "alloc"
  BY <1>4 DEF Belongs
<1>6. a = b
  BY <1>4, <1>5 DEF IInv, SendInv
<1> QED BY <1>1, <1>3, <1>4, <1>6

LEMMA ReceiveAnswerCommand ==
    ASSUME IInv, CommandInv, NEW n \in Nodes, NEW s \in Nodes, ReceiveResponse(n, s) \/ ReceiveAllocated(n, s)
    PROVE  CommandInv'
<1>1. PICK b \in body : b.src = s /\ body' = body \ {b}
  BY DEF ReceiveResponse, ReceiveAllocated
<1>2. cmd[s][n] # <<>> /\ cmd' = [cmd EXCEPT ![s][n] = Tail(@)] /\ Owed(Head(cmd[s][n]))
  BY DEF ReceiveResponse, ReceiveAllocated, Owed
<1> QED BY <1>1, <1>2, CommandsLess

-----------------------------------------------------------------------------
(* Which socket an allocation is for. *)

\* What led to a socket still does.
LeadsOn == \A n \in Nodes : \A k, f : Leads(n, k, f) => Leads(n, k, f)'

LEMMA OneSocket ==
    ASSUME NEW n, NEW k, NEW f, NEW g, Leads(n, k, f), Leads(n, k, g)
    PROVE  f = g
  BY DEF Leads

\* The main thread of node n moves, which is not in the middle of an allocation.
LEMMA LeadsTurn ==
    ASSUME UNCHANGED <<allocation_return, allocation_id>>, NEW n, main[n].at \notin {"save", "dead"},
           \A k \in Nodes : k # n => main'[k] = main[k]
    PROVE  LeadsOn
  BY DEF LeadsOn, Leads

LEMMA LeadsStay ==
    ASSUME UNCHANGED <<allocation_return, allocation_id, main>>
    PROVE  LeadsOn
  BY DEF LeadsOn, Leads

\* It dies.
LEMMA LeadsDead ==
    ASSUME IInv, UNCHANGED <<allocation_return, allocation_id>>, NEW n \in Nodes, main' = [main EXCEPT ![n].at = "dead"]
    PROVE  LeadsOn
<1>1. main \in [Nodes -> MainType]
  BY DEF IInv, TypeInv
<1>2. \A k \in Nodes : main'[k].fd = main[k].fd /\ (main'[k].at = main[k].at \/ main'[k].at = "dead")
  BY <1>1 DEF MainType
<1> QED BY <1>2 DEF LeadsOn, Leads

\* It saves the allocation.
LEMMA LeadsSaved ==
    ASSUME IInv, OInv, NEW n \in Nodes, SaveReturn(n)
    PROVE  LeadsOn
<1>1. PICK p, k, f : p = allocation_return[n] /\ k = allocation_id[n] /\ f = main[n].fd
  OBVIOUS
<1>2. /\ main[n].at = "save" /\ main' = [main EXCEPT ![n] = Idle]
      /\ allocation_return' = [allocation_return EXCEPT ![n] = Put(p, k, f)]
      /\ allocation_id' = [allocation_id EXCEPT ![n] = @ + 1]
  BY <1>1 DEF SaveReturn
<1>3. allocation_return = [i \in Nodes |-> allocation_return[i]]
  BY DEF OInv, EndsInv, ReturnEnds
<1>4. /\ allocation_return'[n] = Put(p, k, f)
      /\ \A i \in Nodes : i # n => allocation_return'[i] = allocation_return[i]
  BY <1>2, <1>3
<1>5. \A i \in Nodes : i # n => main'[i] = main[i] /\ allocation_id'[i] = allocation_id[i]
  BY <1>2 DEF IInv, TypeInv
<1>6. k \notin DOMAIN p
  <2>1. k \in Nat /\ \A x \in DOMAIN p : x \in 0 .. k - 1
    BY <1>1 DEF OInv, EndsInv, ReturnEnds, IInv, TypeInv
  <2> QED BY <2>1
<1>7. ASSUME NEW x, NEW g, Leads(n, x, g) PROVE Leads(n, x, g)'
  <2>1. x \in DOMAIN Put(p, k, f) /\ Put(p, k, f)[x] = g
    BY <1>1, <1>6, <1>7 DEF Leads, Put
  <2> QED BY <1>4, <2>1 DEF Leads
<1>8. ASSUME NEW i \in Nodes, i # n, NEW x, NEW g, Leads(i, x, g) PROVE Leads(i, x, g)'
  BY <1>4, <1>5, <1>8 DEF Leads
<1> QED BY <1>7, <1>8 DEF LeadsOn

\* The objects and the threads that start one are the same.
LEMMA IdsStay ==
    ASSUME IdsInv, UNCHANGED <<objects, next_object_id>>, \A n \in Nodes : main'[n].at = "exec" => main'[n] = main[n]
    PROVE  IdsInv'
  BY DEF IdsInv

\* There is no new allocation.
LEMMA KnownStays ==
    ASSUME IInv, KnownInv, LeadsOn, \A n \in Nodes : main'[n].at = "exec" => main'[n] = main[n],
           \A b \in body' : b.kind \in {"alloc", "address"} => b \in body
    PROVE  KnownInv'
<1>1. ASSUME NEW n \in Nodes, NEW k, \E f : Leads(n, k, f) PROVE \E f : Leads(n, k, f)'
  BY <1>1 DEF LeadsOn
<1>2. ASSUME NEW b \in body', b.kind = "alloc" PROVE \E f : Leads(b.src, b.id, f)'
  <2>1. b \in body /\ b.src \in Nodes
    BY <1>2 DEF IInv, TypeInv, BodyType
  <2> QED BY <1>1, <1>2, <2>1 DEF KnownInv
<1>3. ASSUME NEW b \in body', b.kind = "address" PROVE b.dst \in Nodes /\ \E f : Leads(b.dst, b.tag, f)'
  <2>1. b \in body
    BY <1>3
  <2> QED BY <1>1, <1>3, <2>1 DEF KnownInv
<1>4. ASSUME NEW d \in Nodes, main'[d].at = "exec", main'[d].src # None
      PROVE  \E f : Leads(main[d].src, main[d].fd, f)'
  <2>1. PICK x, k : x = main[d].src /\ k = main[d].fd /\ main'[d].src = x /\ main'[d].fd = k
    BY <1>4
  <2>2. main[d].at = "exec" /\ x # None /\ main[d] \in MainType
    BY <1>4, <2>1 DEF IInv, TypeInv
  <2>3. x \in Nodes /\ \E f : Leads(x, k, f)
    BY <2>1, <2>2 DEF KnownInv, MainType
  <2>4. \E f : Leads(x, k, f)'
    BY <1>1, <2>3
  <2> QED BY <2>1, <2>4
<1> QED BY <1>2, <1>3, <1>4 DEF KnownInv

LEMMA BaseStays ==
    ASSUME IInv, BaseInv, LeadsOn, UNCHANGED <<objects, next_object_id, cmd>>,
           \A n \in Nodes : main'[n].at = "exec" => main'[n] = main[n],
           \A b \in body' : b.kind \in {"alloc", "address"} => b \in body,
           \A b \in body : b.kind \in {"response", "address"} => b \in body'
    PROVE  BaseInv'
<1>1. CommandInv'
  BY CommandsStay DEF BaseInv
<1>2. IdsInv'
  BY IdsStay DEF BaseInv
<1>3. KnownInv'
  BY KnownStays DEF BaseInv
<1> QED BY <1>1, <1>2, <1>3 DEF BaseInv

-----------------------------------------------------------------------------
(* Where the allocations are. *)

\* What is where it was is for the same socket.
LEMMA SamePlace ==
    ASSUME IInv, KnownInv, LeadsOn, NEW n \in Nodes, NEW f, NEW kind, NEW y, Token(kind, y, n, f)',
           kind = "said" => f \in DOMAIN ipc[n] /\ y \in ToSet(ipc[n][f]),
           kind = "exec" => main'[y] = main[y],
           kind = "sent" => y \in body
    PROVE  Token(kind, y, n, f)
<1>1. ASSUME NEW k, Leads(n, k, f)', \E g : Leads(n, k, g) PROVE Leads(n, k, f)
  <2>1. PICK g : Leads(n, k, g)
    BY <1>1
  <2>2. Leads(n, k, g)'
    BY <2>1 DEF LeadsOn
  <2>3. f = g
    BY <1>1, <2>2 DEF Leads
  <2> QED BY <2>1, <2>3
<1>2. CASE kind = "said" /\ f \in DOMAIN ipc'[n] /\ y \in ToSet(ipc'[n][f]) /\ y.op = "alloc"
  BY <1>2 DEF Token
<1>3. CASE kind = "exec" /\ y \in Nodes /\ Executes(y, n, f)'
  <2>1. main'[y] = main[y]
    BY <1>3
  <2>2. CASE main[y].src = None
    BY <1>3, <2>1, <2>2, InterconnectorAssumption DEF Token, Executes, Nodes
  <2>3. CASE main[y].src # None
    <3>1. main[y].at = "exec" /\ main[y].src = n /\ Leads(n, main[y].fd, f)'
      BY <1>3, <2>1, <2>3 DEF Executes
    <3>2. PICK k : k = main[y].fd
      OBVIOUS
    <3>3. \E g : Leads(n, k, g)
      BY <1>3, <2>3, <3>1, <3>2 DEF KnownInv
    <3>4. Leads(n, k, f)'
      BY <2>1, <3>1, <3>2
    <3>5. Leads(n, k, f)
      BY <1>1, <3>3, <3>4
    <3> QED BY <1>3, <3>1, <3>2, <3>5 DEF Token, Executes
  <2> QED BY <2>2, <2>3
<1>4. CASE kind = "sent" /\ y \in body' /\ Carries(y, n, f)'
  <2>1. y \in body
    BY <1>4
  <2>2. CASE y.kind = "alloc" /\ y.src = n /\ Leads(n, y.id, f)'
    <3>1. \E g : Leads(n, y.id, g)
      BY <2>1, <2>2 DEF KnownInv
    <3>2. Leads(n, y.id, f)
      BY <1>1, <2>2, <3>1
    <3> QED BY <1>4, <2>1, <2>2, <3>2 DEF Token, Carries
  <2>3. CASE y.kind = "address" /\ y.dst = n /\ Leads(n, y.tag, f)'
    <3>1. \E g : Leads(n, y.tag, g)
      BY <2>1, <2>3 DEF KnownInv
    <3>2. Leads(n, y.tag, f)
      BY <1>1, <2>3, <3>1
    <3> QED BY <1>4, <2>1, <2>3, <3>2 DEF Token, Carries
  <2> QED BY <1>4, <2>2, <2>3 DEF Carries
<1>5. \/ kind = "said" /\ f \in DOMAIN ipc'[n] /\ y \in ToSet(ipc'[n][f]) /\ y.op = "alloc"
      \/ kind = "exec" /\ y \in Nodes /\ Executes(y, n, f)'
      \/ kind = "sent" /\ y \in body' /\ Carries(y, n, f)'
  BY Zenon DEF Token
<1> QED BY <1>2, <1>3, <1>4, <1>5

\* The allocation for socket g of node s may have moved, the others are where
\* they were, and their clients too.
Stays(n, f) == client'[owner[n][f]] = client[owner[n][f]] /\ inbox'[owner[n][f]] = inbox[owner[n][f]]
Moves(s, g, l, z) ==
    \A n \in Nodes : \A f, kind, y : Token(kind, y, n, f)' =>
        \/ Token(kind, y, n, f) /\ Stays(n, f) /\ ~(n = s /\ f = g)
        \/ n = s /\ f = g /\ kind = l /\ y = z /\ Fit(kind, y, n, f)'
LEMMA AllocMoves ==
    ASSUME AllocInv, deployment' = deployment, OwnersGrow, NEW s, NEW g, NEW l, NEW z, Moves(s, g, l, z)
    PROVE  AllocInv'
<1>1. ASSUME NEW n \in Nodes, NEW f, NEW kind, NEW y, Token(kind, y, n, f)' PROVE Fit(kind, y, n, f)'
  <2>1. CASE Token(kind, y, n, f) /\ Stays(n, f)
    <3>1. Fit(kind, y, n, f) /\ Asker(n, f)
      BY <2>1 DEF AllocInv, Fit
    <3>2. Asker(n, f)'
      BY <3>1, EndsGrow
    <3>3. owner'[n][f] = owner[n][f]
      BY <3>1 DEF OwnersGrow, Asker
    <3> QED BY <2>1, <3>1, <3>2, <3>3 DEF Fit, Stays, Place
  <2>2. CASE Fit(kind, y, n, f)'
    BY <2>2
  <2> QED BY <1>1, <2>1, <2>2 DEF Moves
<1>2. ASSUME NEW n \in Nodes, NEW f, NEW kind, NEW y, Token(kind, y, n, f)', NEW j, NEW x, Token(j, x, n, f)'
      PROVE  j = kind /\ x = y
  <2>1. CASE n = s /\ f = g
    BY <1>2, <2>1 DEF Moves
  <2>2. CASE ~(n = s /\ f = g)
    <3>1. Token(kind, y, n, f) /\ Token(j, x, n, f)
      BY <1>2, <2>2 DEF Moves
    <3> QED BY <3>1 DEF AllocInv
  <2> QED BY <2>1, <2>2
<1> QED BY <1>1, <1>2 DEF AllocInv

-----------------------------------------------------------------------------
(* What a client and its socket go through. *)

LEMMA TailSync ==
    ASSUME NEW s \in Seq(Msg), s # <<>>
    PROVE  /\ OneSync(s) => OneSync(Tail(s)) /\ (SyncCall(Head(s)) => NoSync(Tail(s)))
           /\ NoSync(s) => NoSync(Tail(s))
           /\ ToSet(Tail(s)) \subseteq ToSet(s) /\ Head(s) \in ToSet(s)
           /\ Len(s) <= 1 => Tail(s) = <<>>
<1>1. PICK t : t = Tail(s)
  OBVIOUS
<1>2. /\ t \in Seq(Msg) /\ Len(s) \in Nat \ {0} /\ Len(t) = Len(s) - 1 /\ Head(s) = s[1] /\ 1 \in DOMAIN s
      /\ DOMAIN t \subseteq Nat \ {0} /\ \A i \in DOMAIN t : i + 1 \in DOMAIN s /\ t[i] = s[i + 1]
  BY <1>1
<1>3. ToSet(t) \subseteq ToSet(s) /\ Head(s) \in ToSet(s)
  BY <1>1, TailSet
<1>4. ASSUME OneSync(s) PROVE OneSync(t)
  <2>1. ASSUME NEW i \in DOMAIN t, NEW j \in DOMAIN t, SyncCall(t[i]), SyncCall(t[j]) PROVE i = j
    <3>1. i + 1 = j + 1
      BY <1>2, <1>4, <2>1 DEF OneSync
    <3> QED BY <1>2, <3>1
  <2> QED BY <2>1 DEF OneSync
<1>5. ASSUME OneSync(s), SyncCall(Head(s)) PROVE NoSync(t)
  <2>1. ASSUME NEW i \in DOMAIN t, SyncCall(t[i]) PROVE FALSE
    <3>1. i + 1 = 1
      BY <1>2, <1>5, <2>1 DEF OneSync
    <3> QED BY <1>2, <3>1
  <2> QED BY <2>1 DEF NoSync, ToSet
<1>6. NoSync(s) => NoSync(t)
  BY <1>3 DEF NoSync
<1>7. Len(s) <= 1 => t = <<>>
  BY <1>2
<1> QED BY <1>1, <1>3, <1>4, <1>5, <1>6, <1>7

LEMMA ConnectTaken ==
    ASSUME NEW c, NEW h, NEW v, NEW s \in Seq(Msg), NEW b, NEW j, Talks(c, h, v, s, b, j), s # <<>>, Head(s).op = "connect"
    PROVE  Talks(c, h, v, Tail(s), b, TRUE)
<1>1. PICK t : t = Tail(s)
  OBVIOUS
<1>2. (OneSync(s) => OneSync(t)) /\ ToSet(t) \subseteq ToSet(s) /\ Head(s) \in ToSet(s)
  BY <1>1, TailSync
<1>3. v.at \notin {"alloc", "ready"}
  BY <1>2 DEF Talks
<1>4. Talks(c, h, v, t, b, TRUE)
  BY <1>2, <1>3 DEF Talks
<1> QED BY <1>1, <1>4

LEMMA CallTaken ==
    ASSUME NEW c, NEW h, NEW v \in ClientType, NEW s \in Seq(Msg), NEW b, NEW j, Talks(c, h, v, s, b, j),
           s # <<>>, Head(s).op = "call"
    PROVE  /\ v.at \in {"bound", "wait"} /\ v.id # 0 /\ j /\ Talks(c, h, v, Tail(s), b, j)
           /\ SyncCall(Head(s)) => v.at = "wait" /\ Head(s).n = v.n /\ b = <<>> /\ NoSync(Tail(s))
<1>1. PICK t, m : t = Tail(s) /\ m = Head(s)
  OBVIOUS
<1>2. /\ OneSync(s) => OneSync(t) /\ (SyncCall(m) => NoSync(t))
      /\ ToSet(t) \subseteq ToSet(s) /\ m \in ToSet(s) /\ m.op = "call"
  BY <1>1, TailSync
<1>3. v.at \in {"bound", "wait"}
  BY <1>2 DEF Talks, ClientType
<1>4. v.id # 0 /\ j
  BY <1>1, <1>2, <1>3 DEF Talks
<1>5. Talks(c, h, v, t, b, j)
  BY <1>2, <1>3, <1>4 DEF Talks
<1>6. SyncCall(m) => v.at = "wait" /\ m.n = v.n /\ b = <<>> /\ NoSync(t)
  BY <1>2, <1>3 DEF Talks
<1> QED BY <1>1, <1>3, <1>4, <1>5, <1>6

LEMMA AllocTaken ==
    ASSUME NEW c, NEW h, NEW v, NEW s \in Seq(Msg), NEW b, NEW j, Talks(c, h, v, s, b, j), s # <<>>, v.at = "alloc"
    PROVE  Tail(s) = <<>> /\ Talks(c, h, v, Tail(s), b, j)
<1>1. PICK t : t = Tail(s)
  OBVIOUS
<1>2. t = <<>>
  BY <1>1, TailSync DEF Talks
<1>3. Talks(c, h, v, t, b, j)
  BY <1>2 DEF Talks, ToSet
<1> QED BY <1>1, <1>2, <1>3

LEMMA AnswerComes ==
    ASSUME NEW c, NEW h, NEW v, NEW s, NEW j, Talks(c, h, v, s, <<>>, j), v.at = "wait", NoSync(s),
           NEW m, m.op # "address", m.who = c, m.n = v.n
    PROVE  Talks(c, h, v, s, <<m>>, j)
<1>1. PICK b : b = <<m>>
  OBVIOUS
<1>2. Len(b) = 1 /\ b[1] = m
  BY <1>1
<1>3. Talks(c, h, v, s, b, j)
  BY <1>2 DEF Talks, NoSync
<1> QED BY <1>1, <1>3

LEMMA AddressComes ==
    ASSUME NEW c, NEW h, NEW v, NEW s, NEW j, Talks(c, h, v, s, <<>>, j), v.at = "alloc",
           NEW m, m.op = "address", m.node = Place(v, h)
    PROVE  Talks(c, h, v, s, <<m>>, j)
<1>1. PICK b : b = <<m>>
  OBVIOUS
<1>2. Len(b) = 1 /\ b[1] = m
  BY <1>1
<1>3. Talks(c, h, v, s, b, j)
  BY <1>2 DEF Talks
<1> QED BY <1>1, <1>3

LEMMA ReadsOne ==
    ASSUME NEW c, NEW h, NEW v, NEW s, NEW b \in Seq(Msg), NEW j, Talks(c, h, v, s, b, j), b # <<>>,
           v.at \in {"alloc", "wait"}, NEW w, w.at = (IF v.at = "wait" THEN "bound" ELSE "ready"), w.id = v.id
    PROVE  Talks(c, h, w, s, Tail(b), j)
<1>1. PICK d : d = Tail(b)
  OBVIOUS
<1>2. d = <<>>
  BY <1>1 DEF Talks
<1>3. CASE v.at = "wait"
  <2>1. w.at = "bound" /\ \A m \in ToSet(s) : ~SyncCall(m)
    BY <1>3 DEF Talks
  <2>2. Talks(c, h, w, s, d, j)
    BY <1>2, <1>3, <2>1 DEF Talks
  <2> QED BY <1>1, <2>2
<1>4. CASE v.at = "alloc"
  <2>1. Talks(c, h, w, s, d, j)
    BY <1>2, <1>4 DEF Talks
  <2> QED BY <1>1, <2>1
<1> QED BY <1>3, <1>4

LEMMA CallsOne ==
    ASSUME NEW c, NEW h, NEW v, NEW s \in Seq(Msg), NEW b, NEW j, Talks(c, h, v, s, b, j), v.at = "bound",
           NEW m \in Msg, m.op = "call", NEW w, w.at = (IF m.sync THEN "wait" ELSE "bound"), w.id = v.id, m.n = w.n
    PROVE  b = <<>> /\ NoSync(s) /\ Talks(c, h, w, Append(s, m), b, j)
<1>1. PICK t : t = Append(s, m)
  OBVIOUS
<1>2. b = <<>> /\ NoSync(s)
  BY DEF Talks, NoSync
<1>3. /\ t \in Seq(Msg) /\ ToSet(t) \subseteq ToSet(s) \cup {m} /\ DOMAIN t = DOMAIN s \cup {Len(s) + 1}
      /\ (\A i \in DOMAIN s : t[i] = s[i]) /\ t[Len(s) + 1] = m
  <2>1. PICK S : S = Msg
    OBVIOUS
  <2>2. s \in Seq(S) /\ m \in S
    BY <2>1
  <2>3. /\ Append(s, m) \in Seq(S) /\ ToSet(Append(s, m)) \subseteq ToSet(s) \cup {m}
        /\ DOMAIN Append(s, m) = DOMAIN s \cup {Len(s) + 1}
        /\ (\A i \in DOMAIN s : Append(s, m)[i] = s[i]) /\ Append(s, m)[Len(s) + 1] = m
    BY <2>2, AppendSet
  <2> QED BY <1>1, <2>1, <2>3
<1>4. \A i \in DOMAIN s : ~SyncCall(s[i])
  BY <1>2 DEF NoSync, ToSet
<1>5. OneSync(t)
  BY <1>3, <1>4 DEF OneSync
<1>6. s # <<>> => t # <<>> /\ Head(t) = Head(s)
  BY <1>1
<1>7. \A x \in ToSet(t) : SyncCall(x) => x = m /\ m.sync
  BY <1>2, <1>3 DEF NoSync, SyncCall
<1>8. w.at \in {"bound", "wait"}
  OBVIOUS
<1>9. w.id # 0 /\ (j \/ (t # <<>> /\ Head(t).op = "connect"))
  BY <1>6 DEF Talks
<1>10. Talks(c, h, w, t, b, j)
  BY <1>2, <1>5, <1>7, <1>8, <1>9 DEF Talks
<1> QED BY <1>1, <1>2, <1>10

LEMMA AsksOne ==
    ASSUME NEW c, NEW h, NEW w, w.at = "alloc", NEW m, m.op = "alloc", NEW j
    PROVE  Talks(c, h, w, <<m>>, <<>>, j)
<1>1. PICK s : s = <<m>>
  OBVIOUS
<1>2. Len(s) <= 1 /\ ToSet(s) = {m}
  BY <1>1 DEF ToSet
<1>3. Talks(c, h, w, s, <<>>, j)
  BY <1>2 DEF Talks
<1> QED BY <1>1, <1>3

LEMMA BindsOne ==
    ASSUME NEW c, NEW h, NEW w, w.at = "wait", w.id # 0, NEW x, x.op = "connect", NEW m, m.op = "call", m.n = w.n, NEW j
    PROVE  Talks(c, h, w, <<x, m>>, <<>>, j)
<1>1. PICK s : s = <<x, m>>
  OBVIOUS
<1>2. s # <<>> /\ Head(s) = x /\ s[1] = x /\ s[2] = m /\ DOMAIN s = 1 .. 2
  BY <1>1
<1>3. ~SyncCall(x)
  BY DEF SyncCall
<1>4. OneSync(s)
  BY <1>2, <1>3 DEF OneSync
<1>5. \A y \in ToSet(s) : SyncCall(y) => y.n = w.n
  BY <1>2, <1>3 DEF ToSet
<1>6. Talks(c, h, w, s, <<>>, j)
  BY <1>2, <1>4, <1>5 DEF Talks
<1> QED BY <1>1, <1>6

-----------------------------------------------------------------------------
(* What a step leaves alone. *)

\* Client c and its socket.
Same(c) ==
    /\ client'[c] = client[c] /\ inbox'[c] = inbox[c]
    /\ ipc'[Home[c]][client[c].fd] = ipc[Home[c]][client[c].fd]
TalksNext(c) ==
    Talks(c, Home[c], client'[c], ipc'[Home[c]][client'[c].fd], inbox'[c],
          client'[c].fd \in DOMAIN incomingconnection'[Home[c]])

\* The clients that did not move or may be as they are.
LEMMA TalksOn ==
    ASSUME IInv, TalkInv, deployment' = deployment,
           \A n \in Nodes : DOMAIN incomingconnection[n] \subseteq DOMAIN incomingconnection'[n],
           \A c \in Clients \ Grouping : client'[c].at # "idle" => Same(c) \/ TalksNext(c),
           \A n \in Nodes : \A f \in DOMAIN owner'[n] :
             owner'[n][f] \in Clients \ Grouping /\ f # client'[owner'[n][f]].fd => ipc'[n][f] = <<>>
    PROVE  TalkInv'
<1>1. Clients' = Clients /\ Home' = Home /\ Grouping' = Grouping
  BY Deployment
<1>2. ASSUME NEW c \in Clients \ Grouping, client'[c].at # "idle" PROVE TalksNext(c)
  <2>1. CASE TalksNext(c)
    BY <2>1
  <2>2. CASE Same(c)
    <3>1. PICK v, h, s, b, i, j : /\ v = client[c] /\ h = Home[c] /\ s = ipc[h][v.fd] /\ b = inbox[c]
                                  /\ i = (v.fd \in DOMAIN incomingconnection[h])
                                  /\ j = (v.fd \in DOMAIN incomingconnection'[h])
      OBVIOUS
    <3>2. client'[c] = v /\ ipc'[h][v.fd] = s /\ inbox'[c] = b /\ h \in Nodes
      BY <2>2, <3>1, Deployed DEF Same, IInv
    <3>3. i => j
      BY <3>1, <3>2
    <3>4. Talks(c, h, v, s, b, i)
      BY <1>2, <3>1, <3>2 DEF TalkInv
    <3>5. Talks(c, h, v, s, b, j)
      BY <3>3, <3>4 DEF Talks
    <3> QED BY <3>1, <3>2, <3>5 DEF TalksNext
  <2> QED BY <1>2, <2>1, <2>2
<1>3. \A c \in Clients' \ Grouping' : client'[c].at # "idle" =>
        Talks(c, Home'[c], client'[c], ipc'[Home'[c]][client'[c].fd], inbox'[c],
              client'[c].fd \in DOMAIN incomingconnection'[Home'[c]])
  BY <1>1, <1>2 DEF TalksNext
<1>4. \A n \in Nodes : \A f \in DOMAIN owner'[n] :
        owner'[n][f] \in Clients' \ Grouping' /\ f # client'[owner'[n][f]].fd => ipc'[n][f] = <<>>
  BY <1>1
<1> QED BY <1>3, <1>4, Zenon DEF TalkInv, Talks, OneSync, SyncCall, Place

\* The sockets stay with their clients.
LEMMA AloneOn ==
    ASSUME IInv, OInv, OInv', TalkInv, deployment' = deployment, OwnersGrow,
           \A c \in Clients \ Grouping : client'[c].fd = client[c].fd,
           \A n \in Nodes : \A f \in DOMAIN owner'[n] : f \in DOMAIN owner[n] \/ owner'[n][f] \in Grouping \cup {None},
           \A n \in Nodes : \A f \in DOMAIN owner[n] : owner[n][f] \in Clients \ Grouping =>
             ipc'[n][f] = ipc[n][f] \/ ipc[n][f] # <<>>
    PROVE  \A n \in Nodes : \A f \in DOMAIN owner'[n] :
             owner'[n][f] \in Clients \ Grouping /\ f # client'[owner'[n][f]].fd => ipc'[n][f] = <<>>
<1>1. ASSUME NEW n \in Nodes, NEW f \in DOMAIN owner'[n], owner'[n][f] \in Clients \ Grouping,
             f # client'[owner'[n][f]].fd
      PROVE  ipc'[n][f] = <<>>
  <2>1. None \notin Clients
    BY Sockets DEF OInv
  <2>2. f \in DOMAIN owner[n] /\ owner'[n][f] = owner[n][f]
    BY <1>1, <2>1 DEF OwnersGrow
  <2>3. ipc[n][f] = <<>>
    BY <1>1, <2>2 DEF TalkInv
  <2> QED BY <1>1, <2>2, <2>3
<1> QED BY <1>1

\* On a socket f of node n without a client nothing changed, or it has nothing
\* to do with requests.
Bare(n, f) ==
    \/ f \in DOMAIN ipc[n] /\ ipc'[n][f] = ipc[n][f]
    \/ /\ \A m \in ToSet(ipc'[n][f]) : m.op \notin {"call", "answer"}
       /\ f \in DOMAIN ipc[n] => ipc[n][f] # <<>> \/ f = 1

BareOn == \A n \in Nodes : \A f \in DOMAIN ipc'[n] : owner'[n][f] = None => Bare(n, f)

\* A socket without a client is one afterwards.
LEMMA InnerOn ==
    ASSUME OInv, OInv', IInv', OwnersGrow, deployment' = deployment, NEW n \in Nodes, NEW f, Inner(n, f)
    PROVE  f \in DOMAIN ipc'[n] /\ owner'[n][f] = None /\ f # 1
<1>1. f \in DOMAIN owner'[n] /\ owner'[n][f] = None /\ f # 1
  BY DEF Inner, OwnersGrow
<1>2. ipc'[n] \in Seq(Seq(Msg)) /\ Len(owner'[n]) = Len(ipc'[n]) /\ owner'[n] \in Seq(Clients' \cup {None})
  BY DEF IInv, TypeInv, SockType, OInv, OwnerInv
<1>3. DOMAIN owner'[n] = DOMAIN ipc'[n]
  BY <1>2
<1> QED BY <1>1, <1>3

LEMMA ConnOn ==
    ASSUME IInv, OInv, OInv', IInv', ConnInv, OwnersGrow, UNCHANGED <<deployment, serving, outgoingconnection>>, BareOn,
           \A b \in body' : \/ b \in body
                            \/ (b.kind = "request" => b.id # 0) /\ (b.kind = "response" => b.m.op # "address")
    PROVE  ConnInv'
<1>1. ASSUME NEW r \in serving', r.m.sync
      PROVE  /\ r.fd \in DOMAIN outgoingconnection'[r.node] /\ ipc'[r.node][r.fd] = <<>>
             /\ \A q \in serving' : q.m.sync /\ q.node = r.node /\ q.fd = r.fd => q = r
  <2>1. r \in serving /\ r.fd \in DOMAIN outgoingconnection[r.node] /\ ipc[r.node][r.fd] = <<>>
    BY <1>1 DEF ConnInv
  <2>2. r.node \in Nodes /\ Inner(r.node, r.fd)
    BY <2>1 DEF OInv, EndsInv, ConnEnds
  <2>3. r.fd \in DOMAIN ipc'[r.node] /\ owner'[r.node][r.fd] = None /\ r.fd # 1
    BY <2>2, InnerOn
  <2>4. r.fd \in DOMAIN ipc[r.node]
    BY <2>2, Sockets DEF OInv, Inner
  <2>5. ipc'[r.node][r.fd] = <<>>
    BY <2>1, <2>2, <2>3, <2>4 DEF BareOn, Bare
  <2> QED BY <1>1, <2>1, <2>5 DEF ConnInv
<1>2. ASSUME NEW n \in Nodes, NEW f \in DOMAIN ipc'[n], owner'[n][f] = None, NEW m \in ToSet(ipc'[n][f]), m.op \in {"call", "answer"}
      PROVE  f \in DOMAIN outgoingconnection'[n] /\ Len(ipc'[n][f]) = 1
  <2>1. f \in DOMAIN ipc[n] /\ ipc'[n][f] = ipc[n][f]
    BY <1>2 DEF BareOn, Bare
  <2>2. f \in DOMAIN owner[n] /\ owner'[n][f] = owner[n][f]
    BY <2>1, Sockets DEF OInv, OwnersGrow
  <2> QED BY <1>2, <2>1, <2>2 DEF ConnInv
<1>3. ASSUME NEW b \in body' PROVE (b.kind = "request" => b.id # 0) /\ (b.kind = "response" => b.m.op # "address")
  BY DEF ConnInv
<1> QED BY <1>1, <1>2, <1>3 DEF ConnInv

\* No request moved, unless it is new between the nodes.
LEMMA PendsNew ==
    ASSUME IInv, OInv, OInv', IInv', OwnersGrow, UNCHANGED <<deployment, serving, outgoingconnection>>, BareOn,
           NEW h, NEW t, NEW w, NEW k, Pends(h, t, w, k)'
    PROVE  Pends(h, t, w, k) \/ \E b \in body' : b \notin body /\ Sends(b, h, t) /\ Is(b.m, w, k)
<1>1. CASE \E b \in body' : Sends(b, h, t) /\ Is(b.m, w, k)
  <2>1. PICK b \in body' : Sends(b, h, t) /\ Is(b.m, w, k)
    BY <1>1
  <2> QED BY <2>1 DEF Pends
<1>2. CASE \E r \in serving' : r.m.sync /\ Entry(r.node, r.fd, h, t)' /\ Is(r.m, w, k)
  BY <1>2 DEF Pends, Entry
<1>3. CASE \E n \in Nodes : \E f : Entry(n, f, h, t)' /\ \E m \in ToSet(ipc'[n][f]) : m.op \in {"call", "answer"} /\ Is(m, w, k)
  <2>1. PICK n \in Nodes : \E f : Entry(n, f, h, t)' /\ \E m \in ToSet(ipc'[n][f]) : m.op \in {"call", "answer"} /\ Is(m, w, k)
    BY <1>3
  <2>2. PICK f : Entry(n, f, h, t)' /\ \E m \in ToSet(ipc'[n][f]) : m.op \in {"call", "answer"} /\ Is(m, w, k)
    BY <2>1
  <2>3. Entry(n, f, h, t)
    BY <2>2 DEF Entry
  <2>4. f \in DOMAIN ipc'[n] /\ owner'[n][f] = None
    <3>1. Inner(n, f)
      BY <2>3 DEF Entry, OInv, EndsInv, ConnEnds
    <3> QED BY <3>1, InnerOn
  <2>5. ipc'[n][f] = ipc[n][f]
    BY <2>2, <2>4 DEF BareOn, Bare
  <2> QED BY <2>2, <2>3, <2>5 DEF Pends
<1>4. \/ \E b \in body' : Sends(b, h, t) /\ Is(b.m, w, k)
      \/ \E r \in serving' : r.m.sync /\ Entry(r.node, r.fd, h, t)' /\ Is(r.m, w, k)
      \/ \E n \in Nodes : \E f : Entry(n, f, h, t)' /\ \E m \in ToSet(ipc'[n][f]) : m.op \in {"call", "answer"} /\ Is(m, w, k)
  BY Zenon DEF Pends, Sends, Is
<1> QED BY <1>1, <1>2, <1>3, <1>4

LEMMA PendsBack ==
    ASSUME IInv, OInv, OInv', IInv', OwnersGrow, UNCHANGED <<deployment, serving, outgoingconnection>>, BareOn,
           \A b \in body' : b.kind \in {"request", "response"} => b \in body, NEW h, NEW t, NEW w, NEW k, Pends(h, t, w, k)'
    PROVE  Pends(h, t, w, k)
<1>1. Pends(h, t, w, k) \/ \E b \in body' : b \notin body /\ Sends(b, h, t) /\ Is(b.m, w, k)
  BY PendsNew
<1> QED BY <1>1 DEF Sends

\* One request more, perhaps, with tag g of node s for call l of client x.
LEMMA PendsMove ==
    ASSUME IInv, IInv', PendInv, NEW s, NEW g, NEW x, NEW l,
           \A h, t, w, k : Pends(h, t, w, k)' => Pends(h, t, w, k) \/ (h = s /\ t = g /\ w = x /\ k = l),
           \A n \in Nodes : next_tag[n] <= next_tag'[n],
           \A h, t, w, k : Pends(h, t, w, k) /\ Pends(h, t, w, k)' /\ t \in DOMAIN incomingtag'[h] =>
             t \in DOMAIN incomingtag[h] /\ Held(h, t, w, k)',
           Pends(s, g, x, l) \/ ~Pends(s, g, x, l)' \/
             (/\ s \in Nodes /\ g \in Nat /\ g < next_tag'[s] /\ Held(s, g, x, l)'
              /\ \A u, i : Pends(s, u, x, i) => u \notin DOMAIN incomingtag'[s])
    PROVE  PendInv'
<1>1. \A n \in Nodes : next_tag[n] \in Nat /\ next_tag'[n] \in Nat
  BY DEF IInv, TypeInv
<1>2. ASSUME NEW h, NEW t, NEW w, NEW k, Pends(h, t, w, k)'
      PROVE  h \in Nodes /\ t \in Nat /\ t < next_tag'[h] /\ (t \in DOMAIN incomingtag'[h] => Held(h, t, w, k)')
  <2>1. CASE Pends(h, t, w, k)
    <3>1. h \in Nodes /\ t \in Nat /\ t < next_tag[h]
      BY <2>1 DEF PendInv
    <3>2. t < next_tag'[h]
      BY <1>1, <3>1
    <3> QED BY <1>2, <2>1, <3>1, <3>2
  <2>2. CASE ~Pends(h, t, w, k)
    <3>1. h = s /\ t = g /\ w = x /\ k = l
      BY <1>2, <2>2
    <3> QED BY <1>2, <2>2, <3>1
  <2> QED BY <2>1, <2>2
<1>3. ASSUME NEW h, NEW t, NEW u, NEW w, NEW i, NEW k, Pends(h, t, w, i)', Pends(h, u, w, k)',
             t \in DOMAIN incomingtag'[h], u \in DOMAIN incomingtag'[h]
      PROVE  t = u
  <2>1. CASE Pends(h, t, w, i) /\ Pends(h, u, w, k)
    BY <1>3, <2>1 DEF PendInv
  <2>2. CASE ~Pends(h, t, w, i)
    <3>1. h = s /\ t = g /\ w = x /\ i = l
      BY <1>3, <2>2
    <3> QED BY <1>3, <2>2, <3>1
  <2>3. CASE ~Pends(h, u, w, k)
    <3>1. h = s /\ u = g /\ w = x /\ k = l
      BY <1>3, <2>3
    <3> QED BY <1>3, <2>3, <3>1
  <2> QED BY <2>1, <2>2, <2>3
<1> QED BY <1>2, <1>3 DEF PendInv

\* The client that waits still does.
LEMMA HeldOn ==
    ASSUME NEW h, NEW t, NEW w, NEW k, Held(h, t, w, k), deployment' = deployment, incomingtag'[h][t] = incomingtag[h][t],
           client'[w] = client[w], inbox'[w] = inbox[w],
           NoSync(ipc[h][client[w].fd]) => NoSync(ipc'[h][client[w].fd])
    PROVE  Held(h, t, w, k)'
<1>1. Clients' = Clients /\ Home' = Home /\ Grouping' = Grouping
  BY Deployment
<1>2. /\ w \in Clients \ Grouping /\ h = Home[w] /\ incomingtag'[h][t] = client'[w].fd
      /\ client'[w].at = "wait" /\ client'[w].n = k /\ inbox'[w] = <<>>
  BY DEF Held
<1>3. NoSync(ipc'[h][client'[w].fd])
  BY DEF Held
<1> QED BY <1>1, <1>2, <1>3 DEF Held, NoSync, SyncCall

\* The tags stay, and so do the clients with them.
LEMMA PendsStay ==
    ASSUME IInv, IInv', PendInv, deployment' = deployment, UNCHANGED <<incomingtag, next_tag>>,
           \A h, t, w, k : Pends(h, t, w, k)' => Pends(h, t, w, k),
           \A h, t, w, k : Pends(h, t, w, k) /\ t \in DOMAIN incomingtag[h] /\ Held(h, t, w, k) => Held(h, t, w, k)'
    PROVE  PendInv'
<1>1. \A n \in Nodes : next_tag[n] \in Nat /\ next_tag[n] <= next_tag'[n]
  BY DEF IInv, TypeInv
<1>2. \A h, t, w, k : Pends(h, t, w, k) /\ Pends(h, t, w, k)' /\ t \in DOMAIN incomingtag'[h] =>
             t \in DOMAIN incomingtag[h] /\ Held(h, t, w, k)'
  BY DEF PendInv
<1>3. PICK s, g, x, l : s = 0 /\ g = 0 /\ x = 0 /\ l = 0
  OBVIOUS
<1>4. Pends(s, g, x, l) \/ ~Pends(s, g, x, l)' \/
             (/\ s \in Nodes /\ g \in Nat /\ g < next_tag'[s] /\ Held(s, g, x, l)'
              /\ \A u, i : Pends(s, u, x, i) => u \notin DOMAIN incomingtag'[s])
  OBVIOUS
<1>5. \A h, t, w, k : Pends(h, t, w, k)' => Pends(h, t, w, k) \/ (h = s /\ t = g /\ w = x /\ k = l)
  OBVIOUS
<1>6. \A n \in Nodes : next_tag[n] <= next_tag'[n]
  BY <1>1
<1> QED BY <1>2, <1>4, <1>5, <1>6, PendsMove

\* Who is at socket f of node n, when a client waits there.
LEMMA HeldEnd ==
    ASSUME IInv, OInv, NEW h, NEW t, NEW w, NEW k, Held(h, t, w, k), NEW f, f = client[w].fd
    PROVE  h \in Nodes /\ f \in DOMAIN owner[h] /\ owner[h][f] = w /\ f \in DOMAIN ipc[h]
<1>1. w \in Clients \ Grouping /\ h = Home[w] /\ client[w].at # "idle"
  BY DEF Held
<1>2. h \in Nodes
  BY <1>1, Deployed DEF IInv
<1>3. f \in DOMAIN owner[h] /\ owner[h][f] = w
  BY <1>1 DEF OInv, OwnerInv
<1> QED BY <1>2, <1>3, Sockets DEF OInv

\* A step that has to do with groups, wakes or threads only.
Other(n, f) ==
    \/ f \in DOMAIN ipc[n] /\ ipc'[n][f] = ipc[n][f]
    \/ owner'[n][f] \in Grouping
    \/ owner'[n][f] = None /\ Bare(n, f)
Clear ==
    /\ UNCHANGED <<deployment, body, serving, objects, overlap>> /\ OwnersGrow /\ LeadsOn
    /\ UNCHANGED <<incomingconnection, incomingtag, outgoingconnection, next_tag, next_object_id>>
    /\ \A n \in Nodes : \A f \in DOMAIN owner'[n] : f \in DOMAIN owner[n] \/ owner'[n][f] \in Grouping \cup {None}
    /\ \A n \in Nodes : main'[n].at = "exec" => main'[n] = main[n]
    /\ \A c \in Clients \ Grouping : client'[c] = client[c] /\ inbox'[c] = inbox[c]
    /\ overlap \/ \A n \in Nodes : \A f \in DOMAIN ipc'[n] : Other(n, f)

LEMMA ClearA ==
    ASSUME IInv, OInv, IInv', OInv', AInv, CommandInv', Clear
    PROVE  AInv'
<1>1. /\ UNCHANGED <<deployment, body, serving, objects, overlap>>
      /\ UNCHANGED <<incomingconnection, incomingtag, outgoingconnection>>
      /\ UNCHANGED <<next_tag, next_object_id>>
      /\ OwnersGrow
  BY DEF Clear
<1>2. LeadsOn
  BY DEF Clear
<1>3. \A n \in Nodes : main'[n].at = "exec" => main'[n] = main[n]
  BY DEF Clear
<1>4. BaseInv'
  <2>1. IdsInv'
    BY <1>1, <1>3, IdsStay DEF AInv, BaseInv
  <2>2. KnownInv'
    BY <1>1, <1>2, <1>3, KnownStays DEF AInv, BaseInv
  <2> QED BY <2>1, <2>2 DEF BaseInv
<1>5. CASE overlap
  BY <1>1, <1>4, <1>5 DEF AInv
<1>6. CASE ~overlap
  <2>1. WayInv /\ KnownInv
    BY <1>6 DEF AInv, BaseInv
  <2>2. /\ \A n \in Nodes : DOMAIN owner[n] = DOMAIN ipc[n] /\ DOMAIN owner'[n] = DOMAIN ipc'[n]
        /\ None \notin Clients /\ Grouping \subseteq Clients /\ Grouping' = Grouping
    <3>1. \A n \in Nodes : DOMAIN owner[n] = DOMAIN ipc[n]
      BY Sockets DEF OInv
    <3>2. ASSUME NEW n \in Nodes PROVE DOMAIN owner'[n] = DOMAIN ipc'[n]
      <4>1. ipc'[n] \in Seq(Seq(Msg)) /\ Len(owner'[n]) = Len(ipc'[n]) /\ owner'[n] \in Seq(Clients' \cup {None})
        BY DEF IInv, TypeInv, SockType, OInv, OwnerInv
      <4> QED BY <4>1
    <3>3. None \notin Clients /\ Grouping \subseteq Clients
      BY Sockets DEF OInv
    <3> QED BY <1>1, <3>1, <3>2, <3>3, Deployment
  <2>3. ASSUME NEW n \in Nodes, NEW f \in DOMAIN owner[n], owner[n][f] \in Clients \ Grouping
        PROVE  ipc'[n][f] = ipc[n][f]
    <3>1. f \in DOMAIN ipc'[n] /\ owner'[n][f] = owner[n][f]
      BY <1>1, <2>2 DEF OwnersGrow
    <3> QED BY <1>6, <2>2, <2>3, <3>1 DEF Clear, Other
  <2>4. ASSUME NEW n \in Nodes, NEW f, NEW kind, NEW y, Token(kind, y, n, f)'
        PROVE  Token(kind, y, n, f) /\ Stays(n, f)
    <3>1. kind = "said" => f \in DOMAIN ipc[n] /\ y \in ToSet(ipc[n][f])
      <4>1. SUFFICES ASSUME kind = "said" PROVE f \in DOMAIN ipc[n] /\ y \in ToSet(ipc[n][f])
        OBVIOUS
      <4>2. f \in DOMAIN ipc'[n] /\ y \in ToSet(ipc'[n][f]) /\ y.op = "alloc"
        BY <2>4, <4>1 DEF Token
      <4>3. y.op \in Voice(owner[n][f])'
        BY <4>2 DEF OInv, SpeechInv
      <4>4. owner'[n][f] \notin Grouping \cup {None}
        BY <2>2, <4>2, <4>3 DEF Voice
      <4>5. f \in DOMAIN ipc[n] /\ ipc'[n][f] = ipc[n][f]
        BY <1>6, <4>2, <4>4 DEF Clear, Other
      <4> QED BY <4>2, <4>5
    <3>2. kind = "exec" => main'[y] = main[y]
      BY <1>3, <2>4 DEF Token, Executes
    <3>3. kind = "sent" => y \in body
      BY <1>1, <2>4 DEF Token
    <3>4. Token(kind, y, n, f)
      BY <1>2, <2>1, <2>4, <3>1, <3>2, <3>3, SamePlace
    <3>5. owner[n][f] \in Clients \ Grouping
      BY <2>1, <3>4 DEF WayInv, AllocInv, Fit, Asker
    <3> QED BY <3>4, <3>5 DEF Clear, Stays
  <2>5. AllocInv'
    <3>1. PICK s, g, l, z : s = None /\ g = 0 /\ l = 0 /\ z = 0
      OBVIOUS
    <3>2. None \notin Nodes
      BY InterconnectorAssumption DEF Nodes
    <3>3. Moves(s, g, l, z)
      BY <2>4, <3>1, <3>2 DEF Moves
    <3> QED BY <1>1, <2>1, <3>3, AllocMoves DEF WayInv
  <2>6. ASSUME NEW c \in Clients \ Grouping, client'[c].at # "idle" PROVE Same(c)
    <3>1. client'[c] = client[c] /\ inbox'[c] = inbox[c]
      BY DEF Clear
    <3>2. Home[c] \in Nodes /\ client[c].fd \in DOMAIN owner[Home[c]] /\ owner[Home[c]][client[c].fd] = c
      BY <2>6, <3>1, Deployed DEF IInv, OInv, OwnerInv
    <3> QED BY <2>3, <3>1, <3>2 DEF Same
  <2>7. TalkInv'
    <3>1. \A c \in Clients \ Grouping : client'[c].at # "idle" => Same(c) \/ TalksNext(c)
      BY <2>6
    <3>2. \A c \in Clients \ Grouping : client'[c].fd = client[c].fd
      BY DEF Clear
    <3>3. \A n \in Nodes : \A f \in DOMAIN owner[n] : owner[n][f] \in Clients \ Grouping =>
             ipc'[n][f] = ipc[n][f] \/ ipc[n][f] # <<>>
      BY <2>3
    <3>4. \A n \in Nodes : \A f \in DOMAIN owner'[n] : f \in DOMAIN owner[n] \/ owner'[n][f] \in Grouping \cup {None}
      BY DEF Clear
    <3>5. TalkInv
      BY <2>1 DEF WayInv
    <3>6. \A n \in Nodes : \A f \in DOMAIN owner'[n] :
             owner'[n][f] \in Clients \ Grouping /\ f # client'[owner'[n][f]].fd => ipc'[n][f] = <<>>
      BY <1>1, <3>2, <3>3, <3>4, <3>5, AloneOn
    <3>7. \A n \in Nodes : DOMAIN incomingconnection[n] \subseteq DOMAIN incomingconnection'[n]
      BY <1>1
    <3> QED BY <1>1, <3>1, <3>5, <3>6, <3>7, TalksOn
  <2>8. BareOn
    BY <1>6, <2>2 DEF BareOn, Clear, Other, Bare
  <2>9. ConnInv'
    BY <1>1, <2>1, <2>8, ConnOn DEF WayInv
  <2>10. PendInv'
    <3>1. \A b \in body' : b.kind \in {"request", "response"} => b \in body
      BY <1>1
    <3>2. \A h, t, w, k : Pends(h, t, w, k)' => Pends(h, t, w, k)
      BY <1>1, <2>8, <3>1, PendsBack
    <3>3. ASSUME NEW h, NEW t, NEW w, NEW k, Held(h, t, w, k) PROVE Held(h, t, w, k)'
      <4>1. PICK f : f = client[w].fd
        OBVIOUS
      <4>2. h \in Nodes /\ f \in DOMAIN owner[h] /\ owner[h][f] = w /\ w \in Clients \ Grouping
        <5>1. h \in Nodes /\ f \in DOMAIN owner[h] /\ owner[h][f] = w
          BY <3>3, <4>1, HeldEnd
        <5> QED BY <3>3, <5>1 DEF Held
      <4>3. ipc'[h][f] = ipc[h][f] /\ client'[w] = client[w] /\ inbox'[w] = inbox[w]
        BY <2>3, <4>2 DEF Clear
      <4> QED BY <1>1, <3>3, <4>1, <4>3, HeldOn
    <3> QED BY <1>1, <2>1, <3>2, <3>3, PendsStay DEF WayInv
  <2> QED BY <1>4, <2>5, <2>7, <2>9, <2>10 DEF AInv, WayInv
<1> QED BY <1>5, <1>6

\* ... with no maps.
Apart ==
    /\ UNCHANGED <<deployment, body, serving, objects, maps, counters, overlap>> /\ OwnersGrow
    /\ \A n \in Nodes : \A f \in DOMAIN owner'[n] : f \in DOMAIN owner[n] \/ owner'[n][f] \in Grouping \cup {None}
    /\ \A n \in Nodes : main'[n] = main[n] \/ (main[n].at \notin {"save", "dead"} /\ main'[n].at # "exec")
    /\ \A c \in Clients \ Grouping : client'[c] = client[c] /\ inbox'[c] = inbox[c]
    /\ overlap \/ \A n \in Nodes : \A f \in DOMAIN ipc'[n] : Other(n, f)

LEMMA ApartA ==
    ASSUME IInv, OInv, IInv', OInv', AInv, CommandInv', Apart
    PROVE  AInv'
<1>1. /\ UNCHANGED <<incomingconnection, incomingtag, outgoingconnection, allocation_return>>
      /\ UNCHANGED <<next_tag, next_object_id, allocation_id>>
  BY DEF Apart, maps, counters
<1>2. LeadsOn
  BY <1>1 DEF Apart, LeadsOn, Leads
<1>3. Clear
  BY <1>1, <1>2 DEF Clear, Apart
<1> QED BY <1>3, ClearA

-----------------------------------------------------------------------------
(* Steps of groups, threads and wakes. *)

\* Behind a wake there is no request and no answer.
LEMMA WakeTaken ==
    ASSUME IInv, OInv, ConnInv, NEW n \in Nodes, NEW fd, NEW ops, Takes(n, fd, ops), ops \cap {"call", "answer"} = {},
           owner[n][fd] = None
    PROVE  \A m \in ToSet(Tail(ipc[n][fd])) : m.op \notin {"call", "answer"}
<1>1. PICK s : s = ipc[n][fd]
  OBVIOUS
<1>2. s \in Seq(Msg) /\ s # <<>> /\ fd \in DOMAIN ipc[n] /\ Head(s).op \in ops
  BY <1>1 DEF Takes, IInv, TypeInv, SockType
<1>3. ToSet(Tail(s)) \subseteq ToSet(s) /\ (Len(s) <= 1 => Tail(s) = <<>>)
  BY <1>2, TailSync
<1>4. ASSUME NEW m \in ToSet(Tail(s)), m.op \in {"call", "answer"} PROVE FALSE
  <2>1. Len(s) = 1
    BY <1>1, <1>2, <1>3, <1>4 DEF ConnInv
  <2>2. Tail(s) = <<>>
    BY <1>3, <2>1
  <2> QED BY <1>4, <2>2 DEF ToSet
<1> QED BY <1>1, <1>4

\* A main thread takes a wake or what a group was told.
LEMMA TakeApart ==
    ASSUME IInv, OInv, AInv, NEW n \in Nodes, NEW fd, NEW ops, Takes(n, fd, ops), ipc' = Taken(n, fd),
           UNCHANGED <<deployment, body, serving, objects, maps, counters, overlap, owner, client>>,
           \/ owner[n][fd] \in Grouping
           \/ owner[n][fd] = None /\ ops \cap {"call", "answer"} = {},
           \A k \in Nodes : main'[k] = main[k] \/ (main[k].at \notin {"save", "dead"} /\ main'[k].at # "exec"),
           \A c \in Clients \ Grouping : inbox'[c] = inbox[c]
    PROVE  Apart
<1>1. /\ fd \in DOMAIN ipc[n] /\ ipc[n][fd] # <<>> /\ ipc'[n][fd] = Tail(ipc[n][fd])
      /\ \A k \in Nodes : DOMAIN ipc'[k] = DOMAIN ipc[k]
      /\ \A k \in Nodes : \A f \in DOMAIN ipc[k] : k # n \/ f # fd => ipc'[k][f] = ipc[k][f]
  BY TakeShape
<1>2. ASSUME ~overlap, NEW k \in Nodes, NEW f \in DOMAIN ipc'[k] PROVE Other(k, f)
  <2>1. CASE k # n \/ f # fd
    BY <1>1, <2>1 DEF Other
  <2>2. CASE k = n /\ f = fd
    <3>1. CASE owner[n][fd] \in Grouping
      BY <2>2, <3>1 DEF Other
    <3>2. CASE owner[n][fd] = None /\ ops \cap {"call", "answer"} = {}
      <4>1. ConnInv
        BY <1>2 DEF AInv, WayInv
      <4>2. \A m \in ToSet(ipc'[n][fd]) : m.op \notin {"call", "answer"}
        BY <1>1, <3>2, <4>1, WakeTaken
      <4> QED BY <1>1, <2>2, <3>2, <4>2 DEF Other, Bare
    <3> QED BY <3>1, <3>2
  <2> QED BY <2>1, <2>2
<1>3. OwnersGrow
  BY OwnersSame
<1> QED BY <1>2, <1>3 DEF Apart

LEMMA TerminateA ==
    ASSUME IInv, OInv, IInv', OInv', AInv, NEW n \in Nodes, NEW fd, Terminate(n, fd)
    PROVE  AInv'
<1>1. /\ Takes(n, fd, {"terminate"}) /\ ipc' = Taken(n, fd) /\ main' = [main EXCEPT ![n].at = "ended"]
      /\ UNCHANGED <<deployment, body, serving, objects, maps, counters, overlap, owner, client, inbox>>
  BY DEF Terminate
<1>2. CommandInv'
  BY TerminateCommand DEF AInv, BaseInv
<1>3. main[n].at = "poll" /\ main \in [Nodes -> MainType]
  BY <1>1 DEF Takes, IInv, TypeInv
<1>4. \A k \in Nodes : main'[k] = main[k] \/ (main[k].at \notin {"save", "dead"} /\ main'[k].at # "exec")
  BY <1>1, <1>3 DEF MainType
<1>5. owner[n][fd] = None
  <2>1. PICK m, ops : m = Head(ipc[n][fd]) /\ ops = {"terminate"}
    OBVIOUS
  <2>2. fd \in DOMAIN ipc[n] /\ m \in ToSet(ipc[n][fd]) /\ m.op = "terminate"
    BY <1>1, <2>1, TakenHead
  <2>3. m.op \in Voice(owner[n][fd])
    BY <2>2 DEF OInv, SpeechInv
  <2> QED BY <2>2, <2>3 DEF Voice
<1>6. PICK ops : ops = {"terminate"}
  OBVIOUS
<1>7. Takes(n, fd, ops) /\ ops \cap {"call", "answer"} = {}
  BY <1>1, <1>6
<1>8. Apart
  BY <1>1, <1>4, <1>5, <1>7, TakeApart
<1> QED BY <1>2, <1>8, ApartA

\* A thread goes on, with nothing on any socket.
LEMMA ThreadA ==
    ASSUME IInv, OInv, IInv', OInv', AInv, NEW n \in Nodes, JoinThread(n) \/ SendCompletes(n)
    PROVE  AInv'
<1>1. /\ main[n].at \in {"ended", "sent"} /\ (main' = [main EXCEPT ![n].at = "exited"] \/ main' = [main EXCEPT ![n] = Idle])
      /\ UNCHANGED <<deployment, cmd, body, serving, objects, maps, counters, overlap, ipc, owner, client, inbox>>
  BY DEF JoinThread, SendCompletes, mpi, local
<1>2. CommandInv'
  BY <1>1, CommandsStay DEF AInv, BaseInv
<1>3. \A k \in Nodes : main'[k] = main[k] \/ (main[k].at \notin {"save", "dead"} /\ main'[k].at # "exec")
  <2>1. main \in [Nodes -> MainType]
    BY DEF IInv, TypeInv
  <2> QED BY <1>1, <2>1 DEF MainType, Idle
<1>4. OwnersGrow
  BY <1>1, OwnersSame
<1>5. Apart
  BY <1>1, <1>3, <1>4 DEF Apart, Other
<1> QED BY <1>2, <1>5, ApartA

\* What is on the first socket of a node wakes its main thread.
LEMMA WakesOnly ==
    ASSUME IInv, OInv, ConnInv, NEW n \in Nodes, NEW m \in ToSet(ipc[n][1])
    PROVE  m.op \notin {"call", "answer"}
<1>1. 1 \in DOMAIN ipc[n] /\ owner[n][1] = None
  BY DEF IInv, TypeInv, OInv, OwnerInv
<1>2. 1 \notin DOMAIN outgoingconnection[n]
  BY DEF OInv, EndsInv, ConnEnds, Inner
<1> QED BY <1>1, <1>2 DEF ConnInv

LEMMA ReceiveCommandA ==
    ASSUME IInv, OInv, IInv', OInv', AInv, NEW n \in Nodes, NEW s \in Nodes, ReceiveCommand(n, s)
    PROVE  AInv'
<1>1. UNCHANGED <<deployment, body, serving, objects, maps, counters, overlap, owner, client, inbox, main>>
  BY DEF ReceiveCommand
<1>2. CommandInv'
  BY ReceiveCommandCommand DEF AInv, BaseInv
<1>3. OwnersGrow
  BY <1>1, OwnersSame
<1>4. PICK c : c = Head(cmd[s][n])
  OBVIOUS
<1>5. c.tag \in Nat /\ s \in Nat
  <2>1. cmd[s][n] \in Seq([what : Commands, tag : Nat]) /\ cmd[s][n] # <<>>
    BY DEF ReceiveCommand, IInv, TypeInv, CmdType
  <2>2. c \in [what : Commands, tag : Nat]
    <3>1. PICK S, q : S = [what : Commands, tag : Nat] /\ q = cmd[s][n]
      OBVIOUS
    <3>2. q \in Seq(S) /\ q # <<>> /\ c = Head(q)
      BY <1>4, <2>1, <3>1
    <3>3. c \in S
      BY <3>2, TailSet
    <3> QED BY <3>1, <3>3
  <2>3. s \in Nat
    BY InterconnectorAssumption DEF Nodes
  <2> QED BY <2>2, <2>3
<1>6. ipc' = ipc \/ \E w \in Msg : w.op \notin {"call", "answer"} /\ ipc' = Replace(ipc, n, 1, Append(ipc[n][1], w))
  <2>1. Wake("terminate", 0, 0) \in Msg /\ Wake("allocation", 0, 0) \in Msg /\ Wake("request", s, c.tag) \in Msg
    BY <1>5 DEF Wake, Message, Msg, Ops
  <2>2. /\ Wake("terminate", 0, 0).op \notin {"call", "answer"} /\ Wake("allocation", 0, 0).op \notin {"call", "answer"}
        /\ Wake("request", s, c.tag).op \notin {"call", "answer"}
    BY DEF Wake, Message
  <2>3. \/ ipc' = ipc \/ WakeMain(n, Wake("terminate", 0, 0)) \/ WakeMain(n, Wake("allocation", 0, 0))
        \/ WakeMain(n, Wake("request", s, c.tag))
    BY <1>4 DEF ReceiveCommand
  <2> QED BY <2>1, <2>2, <2>3 DEF WakeMain, Replace
<1>7. \A k \in Nodes : \A f \in DOMAIN owner'[k] : f \in DOMAIN owner[k] \/ owner'[k][f] \in Grouping \cup {None}
  BY <1>1
<1>8. CASE ipc' = ipc
  <2>1. Apart
    BY <1>1, <1>3, <1>7, <1>8 DEF Apart, Other
  <2> QED BY <1>2, <2>1, ApartA
<1>9. CASE ipc' # ipc
  <2>1. PICK w \in Msg : w.op \notin {"call", "answer"} /\ ipc' = Replace(ipc, n, 1, Append(ipc[n][1], w))
    BY <1>6, <1>9
  <2>2. 1 \in DOMAIN ipc[n] /\ owner[n][1] = None
    BY DEF IInv, TypeInv, OInv, OwnerInv
  <2>3. \A i \in Nodes : DOMAIN ipc'[i] = DOMAIN ipc[i]
    BY <2>1, <2>2, PushShape
  <2>4. \A i \in Nodes : \A g \in DOMAIN ipc[i] : i # n \/ g # 1 => ipc'[i][g] = ipc[i][g]
    BY <2>1, <2>2, PushShape
  <2>5. \A i \in Nodes : \A g \in DOMAIN ipc[i] : \A x \in ToSet(ipc'[i][g]) :
           x \in ToSet(ipc[i][g]) \/ (i = n /\ g = 1 /\ x = w)
    BY <2>1, <2>2, PushShape, ZenonT(60)
  <2>6. ASSUME ~overlap, NEW k \in Nodes, NEW f \in DOMAIN ipc'[k] PROVE Other(k, f)
    <3>1. CASE k # n \/ f # 1
      BY <2>3, <2>4, <3>1 DEF Other
    <3>2. CASE k = n /\ f = 1
      <4>1. ConnInv
        BY <2>6 DEF AInv, WayInv
      <4>2. \A m \in ToSet(ipc'[n][1]) : m.op \notin {"call", "answer"}
        BY <2>1, <2>2, <2>5, <4>1, WakesOnly
      <4> QED BY <1>1, <2>2, <3>2, <4>2 DEF Other, Bare
    <3> QED BY <3>1, <3>2
  <2>7. Apart
    BY <1>1, <1>3, <1>7, <2>6 DEF Apart
  <2> QED BY <1>2, <2>7, ApartA
<1> QED BY <1>8, <1>9

\* A group is created, or told something.
LEMMA GroupTakesA ==
    ASSUME IInv, OInv, IInv', OInv', AInv, NEW n \in Nodes, NEW fd,
           SpawnGroup(n, fd) \/ SetRank(n, fd) \/ ForwardToGroup(n, fd)
    PROVE  AInv'
<1>1. /\ ipc' = Taken(n, fd)
      /\ UNCHANGED <<deployment, cmd, body, serving, objects, maps, counters, overlap, owner, client, main>>
  BY DEF SpawnGroup, SetRank, ForwardToGroup, mpi
<1>2. PICK ops : ops \in {{"group"}, {"rank"}, {"call", "final"}} /\ Takes(n, fd, ops)
  BY DEF SpawnGroup, SetRank, ForwardToGroup
<1>3. inbox' = inbox \/ \E m : Deliver(n, fd, m)
  BY DEF SpawnGroup, SetRank, ForwardToGroup
<1>4. fd \in DOMAIN owner[n] /\ owner[n][fd] \in Grouping
  <2>1. CASE fd \in object_group[n]
    BY <2>1 DEF OInv, GroupSockets
  <2>2. CASE fd \notin object_group[n]
    <3>1. Takes(n, fd, {"group"})
      BY <2>2 DEF SpawnGroup, SetRank, ForwardToGroup
    <3>2. {"group"} \cap Voice(None) = {} /\ {"group"} \cap {"alloc", "connect", "call"} = {}
      BY DEF Voice
    <3> QED BY <3>1, <3>2, GroupSpeaks
  <2> QED BY <2>1, <2>2
<1>5. \A c \in Clients \ Grouping : inbox'[c] = inbox[c]
  BY <1>3, <1>4 DEF Deliver
<1>6. CommandInv'
  BY <1>1, CommandsStay DEF AInv, BaseInv
<1>7. Apart
  BY <1>1, <1>2, <1>4, <1>5, TakeApart
<1> QED BY <1>6, <1>7, ApartA

\* A member runs or answers.
LEMMA GroupRunsA ==
    ASSUME IInv, OInv, IInv', OInv', AInv,
           (\E n \in Nodes : \E fd : ReceiveGroup(n, fd)) \/ (\E g, i : MemberRuns(g, i))
    PROVE  AInv'
<1>1. UNCHANGED <<deployment, cmd, body, serving, objects, maps, counters, overlap, ipc, owner, client, main>>
  BY DEF ReceiveGroup, MemberRuns, mpi, local
<1>2. \A c \in Clients \ Grouping : inbox'[c] = inbox[c]
  <2>1. CASE \E n \in Nodes : \E fd : ReceiveGroup(n, fd)
    <3>1. PICK n \in Nodes : \E fd : ReceiveGroup(n, fd)
      BY <2>1
    <3>2. PICK fd : ReceiveGroup(n, fd)
      BY <3>1
    <3>3. PICK m : Deliver(n, fd, m) /\ fd \in object_group[n]
      BY <3>2 DEF ReceiveGroup
    <3>4. owner[n][fd] \in Grouping
      BY <3>3 DEF OInv, GroupSockets
    <3> QED BY <3>3, <3>4 DEF Deliver
  <2>2. CASE \E g, i : MemberRuns(g, i)
    BY <2>2 DEF MemberRuns
  <2> QED BY <2>1, <2>2
<1>3. OwnersGrow
  BY <1>1, OwnersSame
<1>4. CommandInv'
  BY <1>1, CommandsStay DEF AInv, BaseInv
<1>5. Apart
  BY <1>1, <1>2, <1>3 DEF Apart, Other
<1> QED BY <1>4, <1>5, ApartA

\* The program of a group.
LEMMA GroupProgramA ==
    ASSUME IInv, OInv, IInv', OInv', AInv, NEW c \in Grouping,
           \/ AllocateGroup(c) \/ Finalize(c) \/ Read(c)
           \/ \E target \in 0 .. All, sync \in BOOLEAN : GroupCall(c, target, sync)
    PROVE  AInv'
<1>1. c \in Clients /\ Home[c] \in Nodes /\ client[c] \in ClientType /\ client \in [Clients -> ClientType]
  BY Deployed DEF Grouping, IInv, TypeInv
<1>2. /\ UNCHANGED <<deployment, cmd, body, serving, objects, maps, counters, overlap, main>>
      /\ inbox' = inbox \/ inbox' = [inbox EXCEPT ![c] = Tail(@)]
  BY DEF AllocateGroup, Finalize, Read, GroupCall, Untouched, mpi
<1>3. CommandInv'
  BY <1>2, CommandsStay DEF AInv, BaseInv
<1>4. \A d \in Clients \ Grouping : client'[d] = client[d] /\ inbox'[d] = inbox[d]
  <2>1. \A d \in Clients : d # c => inbox'[d] = inbox[d]
    BY <1>1, <1>2 DEF OInv, KindInv
  <2>2. CASE AllocateGroup(c)
    BY <1>1, <2>1, <2>2 DEF AllocateGroup
  <2>3. CASE Finalize(c)
    BY <1>1, <2>1, <2>3 DEF Finalize
  <2>4. CASE Read(c)
    BY <1>1, <2>1, <2>4 DEF Read
  <2>5. CASE \E target \in 0 .. All, sync \in BOOLEAN : GroupCall(c, target, sync)
    <3>1. PICK target \in 0 .. All, sync \in BOOLEAN : GroupCall(c, target, sync)
      BY <2>5
    <3> QED BY <1>1, <2>1, <3>1 DEF GroupCall
  <2> QED BY <2>2, <2>3, <2>4, <2>5
<1>5. PICK h : h = Home[c]
  OBVIOUS
<1>6. /\ OwnersGrow
      /\ \A n \in Nodes : \A f \in DOMAIN owner'[n] : f \in DOMAIN owner[n] \/ owner'[n][f] \in Grouping \cup {None}
      /\ \A n \in Nodes : \A f \in DOMAIN ipc'[n] : Other(n, f)
  <2>1. CASE AllocateGroup(c)
    <3>1. PICK m, s, new : m = Message("group", c, 0, TRUE, 0, 0) /\ s = <<m>> /\ new = Len(ipc[h]) + 1
      OBVIOUS
    <3>2. Opens(c, s)
      BY <2>1, <3>1 DEF AllocateGroup
    <3>3. m \in Msg
      BY <1>1, <3>1, Deployed DEF Msg, Message, Ops, IInv
    <3>4. s \in Seq(Msg)
      <4>1. <<m>> \in Seq(Msg)
        BY <3>3
      <4> QED BY <3>1, <4>1
    <3>5. /\ owner'[h][new] = c
          /\ \A k \in Nodes : \A f \in DOMAIN ipc[k] :
               f \in DOMAIN ipc'[k] /\ ipc'[k][f] = ipc[k][f] /\ owner'[k][f] = owner[k][f]
          /\ \A k \in Nodes : \A f \in DOMAIN ipc'[k] : f \in DOMAIN ipc[k] \/ (k = h /\ f = new)
          /\ \A k \in Nodes : DOMAIN owner'[k] = DOMAIN ipc'[k]
      <4>1. c \in Clients /\ s \in Seq(Msg) /\ Opens(c, s) /\ h = Home[c] /\ new = Len(ipc[h]) + 1
        BY <1>1, <1>5, <3>1, <3>2, <3>4
      <4>2. owner'[h][new] = c
        BY <4>1, OpensShape
      <4>3. \A k \in Nodes : \A f \in DOMAIN ipc[k] :
               f \in DOMAIN ipc'[k] /\ ipc'[k][f] = ipc[k][f] /\ owner'[k][f] = owner[k][f]
        BY <4>1, OpensShape
      <4>4. \A k \in Nodes : \A f \in DOMAIN ipc'[k] : f \in DOMAIN ipc[k] \/ (k = h /\ f = new)
        BY <4>1, OpensShape
      <4>5. \A k \in Nodes : DOMAIN owner'[k] = DOMAIN ipc'[k]
        BY <4>1, OpensShape
      <4> QED BY <4>2, <4>3, <4>4, <4>5
    <3>6. \A k \in Nodes : DOMAIN owner[k] = DOMAIN ipc[k]
      BY Sockets DEF OInv
    <3> QED BY <3>5, <3>6 DEF OwnersGrow, Other
  <2>2. CASE Read(c)
    <3>1. ipc' = ipc /\ owner' = owner
      BY <2>2 DEF Read, local
    <3> QED BY <3>1 DEF OwnersGrow, Other
  <2>3. CASE Finalize(c) \/ \E target \in 0 .. All, sync \in BOOLEAN : GroupCall(c, target, sync)
    <3>1. PICK s : s \in Seq(Msg) /\ Says(c, s) /\ client[c].at # "idle"
      <4>1. CASE Finalize(c)
        <5>1. PICK m : m = Message("final", c, client[c].n + 1, TRUE, All, 0)
          OBVIOUS
        <5>2. c \in Everyone /\ All \in Nat /\ client[c].n + 1 \in Nat
          BY <1>1, Deployed, InterconnectorAssumption DEF IInv, All, ClientType
        <5>3. m \in Msg
          BY <5>1, <5>2 DEF Msg, Message, Ops
        <5>4. <<m>> \in Seq(Msg)
          BY <5>3
        <5> QED BY <4>1, <5>1, <5>4 DEF Finalize
      <4>2. CASE \E target \in 0 .. All, sync \in BOOLEAN : GroupCall(c, target, sync)
        <5>1. PICK target \in 0 .. All, sync \in BOOLEAN : GroupCall(c, target, sync)
          BY <4>2
        <5>2. PICK m, r : /\ m = Message("call", c, client[c].n + 1, sync, target, 0)
                          /\ r = Message("rank", c, 0, FALSE, target, target)
          OBVIOUS
        <5>3. c \in Everyone /\ target \in Nat /\ client[c].n + 1 \in Nat
          BY <1>1, Deployed, InterconnectorAssumption DEF IInv, All, ClientType
        <5>4. m \in Msg /\ r \in Msg
          BY <5>2, <5>3 DEF Msg, Message, Ops
        <5>5. Says(c, GroupSaying(target, r, m)) /\ client[c].at # "idle"
          BY <5>1, <5>2 DEF GroupCall, GroupSaying
        <5> QED BY <5>4, <5>5, GroupSaid
      <4> QED BY <2>3, <4>1, <4>2
    <3>2. PICK f : f = client[c].fd
      OBVIOUS
    <3>3. f \in DOMAIN ipc[h] /\ owner[h][f] = c /\ owner' = owner /\ Gains(h, f, s) /\ \A k \in Nodes : DOMAIN ipc'[k] = DOMAIN ipc[k]
      BY <1>1, <1>5, <3>1, <3>2, SaysShape
    <3>4. \A k \in Nodes : \A g \in DOMAIN ipc[k] : k # h \/ g # f => ipc'[k][g] = ipc[k][g]
      BY <3>3 DEF Gains
    <3> QED BY <3>3, <3>4 DEF OwnersGrow, Other
  <2> QED BY <2>1, <2>2, <2>3
<1>7. Apart
  BY <1>2, <1>4, <1>6 DEF Apart
<1> QED BY <1>3, <1>7, ApartA

LEMMA ProgramTerminatesA ==
    ASSUME IInv, OInv, IInv', OInv', AInv, ProgramTerminates
    PROVE  AInv'
<1>1. PICK w, s, new : w = Wake("terminate", 0, 0) /\ s = <<w>> /\ new = Len(ipc[0]) + 1
  OBVIOUS
<1>2. 0 \in Nodes /\ w \in Msg /\ w.op = "terminate"
  BY <1>1, InterconnectorAssumption DEF Nodes, Wake, Message, Msg, Ops
<1>3. /\ ipc' = Extend(ipc, 0, s) /\ owner' = Extend(owner, 0, None)
      /\ UNCHANGED <<deployment, cmd, body, serving, objects, maps, counters, overlap, client, inbox, main>>
  BY <1>1 DEF ProgramTerminates, Extend, mpi
<1>4. s \in Seq(Msg) /\ ToSet(s) = {w}
  <2>1. s \in Seq(Msg)
    BY <1>1, <1>2
  <2> QED BY <1>1, <2>1 DEF ToSet
<1>5. ipc \in SockType
  BY DEF IInv, TypeInv
<1>6. /\ \A k \in Nodes : DOMAIN ipc[k] \subseteq DOMAIN ipc'[k]
      /\ \A k \in Nodes : \A f \in DOMAIN ipc[k] : ipc'[k][f] = ipc[k][f]
      /\ \A k \in Nodes : \A f \in DOMAIN ipc'[k] \ DOMAIN ipc[k] : k = 0 /\ f = new
      /\ ipc'[0][new] = s
  BY <1>1, <1>2, <1>3, <1>4, <1>5, Opened
<1>7. PICK S : S = Clients \cup {None}
  OBVIOUS
<1>8. None \in S /\ owner \in [Nodes -> Seq(S)]
  BY <1>7 DEF OInv, OwnerInv
<1>9. PICK q : q = owner'
  OBVIOUS
<1>10. /\ \A k \in Nodes : \A f \in DOMAIN owner[k] : f \in DOMAIN q[k] /\ q[k][f] = owner[k][f]
       /\ \A k \in Nodes : \A f \in DOMAIN q[k] : f \in DOMAIN owner[k] \/ q[k][f] = None
  <2>1. q = Extend(owner, 0, None)
    BY <1>3, <1>9
  <2> QED BY <1>2, <1>8, <2>1, Unowned, SMTT(30)
<1>11. OwnersGrow /\ \A k \in Nodes : \A f \in DOMAIN owner'[k] : f \in DOMAIN owner[k] \/ owner'[k][f] = None
  BY <1>9, <1>10 DEF OwnersGrow
<1>12. ASSUME NEW k \in Nodes, NEW f \in DOMAIN ipc'[k] PROVE Other(k, f)
  <2>1. CASE f \in DOMAIN ipc[k]
    BY <1>6, <2>1 DEF Other
  <2>2. CASE f \notin DOMAIN ipc[k]
    <3>1. ipc'[k][f] = s
      BY <1>6, <2>2
    <3>2. \A m \in ToSet(ipc'[k][f]) : m.op \notin {"call", "answer"}
      BY <1>2, <1>4, <3>1
    <3>3. owner'[k][f] = None
      <4>1. DOMAIN owner[k] = DOMAIN ipc[k]
        BY Sockets DEF OInv
      <4>2. ipc'[k] \in Seq(Seq(Msg)) /\ Len(owner'[k]) = Len(ipc'[k]) /\ owner'[k] \in Seq(Clients' \cup {None})
        BY DEF IInv, TypeInv, SockType, OInv, OwnerInv
      <4>3. DOMAIN owner'[k] = DOMAIN ipc'[k]
        BY <4>2
      <4> QED BY <1>11, <2>2, <4>1, <4>3
    <3> QED BY <2>2, <3>2, <3>3 DEF Other, Bare
  <2> QED BY <2>1, <2>2
<1>13. CommandInv'
  BY <1>3, CommandsStay DEF AInv, BaseInv
<1>14. Apart
  BY <1>3, <1>11, <1>12 DEF Apart
<1> QED BY <1>13, <1>14, ApartA

-----------------------------------------------------------------------------
(* Steps of clients and requests: what they leave alone. *)

\* No allocation moves, and no client that waits for one.
LEMMA AllocKept ==
    ASSUME IInv, AllocInv, KnownInv, LeadsOn, deployment' = deployment, OwnersGrow,
           \A n \in Nodes : \A f \in DOMAIN ipc'[n] : \A m \in ToSet(ipc'[n][f]) :
             m.op = "alloc" => f \in DOMAIN ipc[n] /\ m \in ToSet(ipc[n][f]),
           \A n \in Nodes : main'[n].at = "exec" => main'[n] = main[n],
           \A b \in body' : b.kind \in {"alloc", "address"} => b \in body,
           \A c \in Clients \ Grouping : client[c].at = "alloc" /\ inbox[c] = <<>> =>
             client'[c] = client[c] /\ inbox'[c] = inbox[c]
    PROVE  AllocInv'
<1>1. ASSUME NEW n \in Nodes, NEW f, NEW kind, NEW y, Token(kind, y, n, f)'
      PROVE  Token(kind, y, n, f) /\ Stays(n, f)
  <2>1. kind = "said" => f \in DOMAIN ipc[n] /\ y \in ToSet(ipc[n][f])
    BY <1>1 DEF Token
  <2>2. kind = "exec" => main'[y] = main[y]
    BY <1>1 DEF Token, Executes
  <2>3. kind = "sent" => y \in body
    BY <1>1 DEF Token, Carries
  <2>4. Token(kind, y, n, f)
    BY <1>1, <2>1, <2>2, <2>3, SamePlace
  <2>5. Fit(kind, y, n, f)
    BY <2>4 DEF AllocInv
  <2> QED BY <2>4, <2>5 DEF Fit, Asker, Stays
<1>2. PICK s, g, l, z : s = None /\ g = 0 /\ l = 0 /\ z = 0
  OBVIOUS
<1>3. None \notin Nodes
  BY InterconnectorAssumption DEF Nodes
<1>4. Moves(s, g, l, z)
  BY <1>1, <1>2, <1>3 DEF Moves
<1> QED BY <1>4, AllocMoves

\* No request moves, and no client that waits for one.
LEMMA RequestsKept ==
    ASSUME IInv, OInv, IInv', OInv', ConnInv, PendInv, OwnersGrow, BareOn,
           UNCHANGED <<deployment, serving, outgoingconnection, incomingtag, next_tag>>,
           \A b \in body' : b.kind \in {"request", "response"} => b \in body,
           \A w \in Clients \ Grouping :
             client[w].at = "wait" /\ inbox[w] = <<>> /\ NoSync(ipc[Home[w]][client[w].fd]) =>
               client'[w] = client[w] /\ inbox'[w] = inbox[w] /\ NoSync(ipc'[Home[w]][client[w].fd])
    PROVE  ConnInv' /\ PendInv'
<1>1. ConnInv'
  <2>1. \A b \in body' : \/ b \in body
                         \/ (b.kind = "request" => b.id # 0) /\ (b.kind = "response" => b.m.op # "address")
    OBVIOUS
  <2> QED BY <2>1, ConnOn
<1>2. \A h, t, w, k : Pends(h, t, w, k)' => Pends(h, t, w, k)
  BY PendsBack
<1>3. ASSUME NEW h, NEW t, NEW w, NEW k, Held(h, t, w, k) PROVE Held(h, t, w, k)'
  <2>1. /\ h = Home[w] /\ w \in Clients \ Grouping /\ client[w].at = "wait" /\ inbox[w] = <<>>
        /\ NoSync(ipc[Home[w]][client[w].fd])
    BY <1>3 DEF Held
  <2>2. client'[w] = client[w] /\ inbox'[w] = inbox[w] /\ NoSync(ipc'[h][client[w].fd])
    BY <2>1
  <2> QED BY <1>3, <2>2, HeldOn
<1> QED BY <1>1, <1>2, <1>3, PendsStay

\* The client at the socket that is served.
Speaker(c, n, fd) ==
    /\ c \in Clients \ Grouping /\ c = owner[n][fd] /\ n = Home[c] /\ fd = client[c].fd /\ client[c].at # "idle"
    /\ ipc[n][fd] \in Seq(Msg) /\ ipc[n][fd] # <<>> /\ client[c] \in ClientType /\ inbox[c] \in Seq(Msg)
    /\ Talks(c, n, client[c], ipc[n][fd], inbox[c], fd \in DOMAIN incomingconnection[n])

LEMMA Speaks ==
    ASSUME IInv, OInv, TalkInv, NEW n \in Nodes, NEW fd, NEW ops, Takes(n, fd, ops), NEW c \in Clients \ Grouping, c = owner[n][fd]
    PROVE  Speaker(c, n, fd)
<1>1. fd \in DOMAIN owner[n] /\ ipc[n][fd] # <<>> /\ ipc[n][fd] \in Seq(Msg)
  <2>1. fd \in DOMAIN ipc[n] /\ ipc[n][fd] # <<>>
    BY DEF Takes
  <2> QED BY <2>1, Sockets DEF OInv, IInv, TypeInv, SockType
<1>2. c # None /\ n = Home[c] /\ client[c].at # "idle"
  BY <1>1, Sockets DEF OInv, OwnerInv
<1>3. fd = client[c].fd
  BY <1>1 DEF TalkInv
<1>4. client[c] \in ClientType /\ inbox[c] \in Seq(Msg)
  BY DEF IInv, TypeInv, OInv, KindInv
<1>5. Talks(c, n, client[c], ipc[n][fd], inbox[c], fd \in DOMAIN incomingconnection[n])
  BY <1>2, <1>3 DEF TalkInv
<1> QED BY <1>1, <1>2, <1>3, <1>4, <1>5 DEF Speaker

\* It has said one thing less.
LEMMA TalkTaken ==
    ASSUME IInv, OInv, OInv', TalkInv, NEW n \in Nodes, NEW fd, NEW ops, Takes(n, fd, ops), ipc' = Taken(n, fd),
           NEW c, Speaker(c, n, fd), UNCHANGED <<deployment, owner, client, inbox>>,
           \A k \in Nodes : DOMAIN incomingconnection[k] \subseteq DOMAIN incomingconnection'[k],
           Talks(c, n, client[c], Tail(ipc[n][fd]), inbox[c], fd \in DOMAIN incomingconnection'[n])
    PROVE  TalkInv'
<1>1. /\ fd \in DOMAIN ipc[n] /\ ipc'[n][fd] = Tail(ipc[n][fd])
      /\ \A k \in Nodes : \A f \in DOMAIN ipc[k] : k # n \/ f # fd => ipc'[k][f] = ipc[k][f]
  BY TakeShape
<1>2. \A k \in Nodes : DOMAIN owner[k] = DOMAIN ipc[k]
  BY Sockets DEF OInv
<1>3. ASSUME NEW d \in Clients \ Grouping, client'[d].at # "idle" PROVE Same(d) \/ TalksNext(d)
  <2>1. CASE d = c
    BY <1>1, <2>1 DEF TalksNext, Speaker
  <2>2. CASE d # c
    <3>1. PICK k, f : k = Home[d] /\ f = client[d].fd
      OBVIOUS
    <3>2. k \in Nodes /\ f \in DOMAIN owner[k] /\ owner[k][f] = d
      BY <1>3, <3>1, Deployed DEF IInv, OInv, OwnerInv
    <3>3. k # n \/ f # fd
      BY <2>2, <3>2 DEF Speaker
    <3>4. ipc'[k][f] = ipc[k][f]
      BY <1>1, <1>2, <3>2, <3>3
    <3> QED BY <3>1, <3>4 DEF Same
  <2> QED BY <2>1, <2>2
<1>4. OwnersGrow
  BY OwnersSame
<1>5. \A k \in Nodes : \A f \in DOMAIN owner[k] : owner[k][f] \in Clients \ Grouping =>
             ipc'[k][f] = ipc[k][f] \/ ipc[k][f] # <<>>
  BY <1>1, <1>2 DEF Speaker
<1>6. \A k \in Nodes : \A f \in DOMAIN owner'[k] :
             owner'[k][f] \in Clients \ Grouping /\ f # client'[owner'[k][f]].fd => ipc'[k][f] = <<>>
  BY <1>4, <1>5, AloneOn
<1> QED BY <1>3, <1>6, TalksOn

-----------------------------------------------------------------------------
(* Steps of main threads that take what a client said. *)

\* Nothing changes where no client is.
LEMMA TakenBare ==
    ASSUME IInv, OInv, NEW n \in Nodes, NEW fd, NEW ops, Takes(n, fd, ops), ipc' = Taken(n, fd), owner' = owner,
           owner[n][fd] # None
    PROVE  BareOn
<1>1. /\ \A k \in Nodes : DOMAIN ipc'[k] = DOMAIN ipc[k]
      /\ \A k \in Nodes : \A f \in DOMAIN ipc[k] : k # n \/ f # fd => ipc'[k][f] = ipc[k][f]
  BY TakeShape
<1> QED BY <1>1 DEF BareOn, Bare

\* What is left of what a client said holds no new call.
LEMMA TakenQuiet ==
    ASSUME IInv, OInv, NEW n \in Nodes, NEW fd, NEW ops, Takes(n, fd, ops), ipc' = Taken(n, fd),
           NEW w \in Clients, client[w].at # "idle", NoSync(ipc[Home[w]][client[w].fd])
    PROVE  NoSync(ipc'[Home[w]][client[w].fd])
<1>1. PICK h, f : h = Home[w] /\ f = client[w].fd
  OBVIOUS
<1>2. h \in Nodes /\ f \in DOMAIN ipc[h]
  BY <1>1, Deployed, Sockets DEF IInv, OInv, OwnerInv
<1>3. \A k \in Nodes : \A g \in DOMAIN ipc[k] : ToSet(ipc'[k][g]) \subseteq ToSet(ipc[k][g])
  BY TakeShape
<1> QED BY <1>1, <1>2, <1>3 DEF NoSync

LEMMA TakenSpeech ==
    ASSUME IInv, NEW n \in Nodes, NEW fd, NEW ops, Takes(n, fd, ops), ipc' = Taken(n, fd)
    PROVE  \A k \in Nodes : \A f \in DOMAIN ipc'[k] : \A m \in ToSet(ipc'[k][f]) : f \in DOMAIN ipc[k] /\ m \in ToSet(ipc[k][f])
<1>1. /\ \A k \in Nodes : DOMAIN ipc'[k] = DOMAIN ipc[k]
      /\ \A k \in Nodes : \A f \in DOMAIN ipc[k] : ToSet(ipc'[k][f]) \subseteq ToSet(ipc[k][f])
  BY TakeShape
<1> QED BY <1>1

LEMMA SaveReturnA ==
    ASSUME IInv, OInv, IInv', OInv', AInv, NEW n \in Nodes, SaveReturn(n)
    PROVE  AInv'
<1>1. /\ UNCHANGED <<deployment, cmd, body, ipc, owner, incomingconnection, incomingtag, outgoingconnection>>
      /\ UNCHANGED <<next_tag, next_object_id, objects, serving, client, inbox, overlap>>
      /\ main' = [main EXCEPT ![n] = Idle]
  BY DEF SaveReturn, mpi, local
<1>2. CommandInv'
  BY <1>1, CommandsStay DEF AInv, BaseInv
<1>3. LeadsOn
  BY LeadsSaved
<1>4. OwnersGrow
  BY <1>1, OwnersSame
<1>5. \A k \in Nodes : main'[k].at = "exec" => main'[k] = main[k]
  <2>1. main \in [Nodes -> MainType]
    BY DEF IInv, TypeInv
  <2> QED BY <1>1, <2>1 DEF Idle
<1>6. Clear
  BY <1>1, <1>3, <1>4, <1>5 DEF Clear, Other
<1> QED BY <1>2, <1>6, ClearA

LEMMA ConnectionA ==
    ASSUME IInv, OInv, IInv', OInv', AInv, NEW n \in Nodes, NEW fd, Connection(n, fd)
    PROVE  AInv'
<1>1. /\ Takes(n, fd, {"connect"}) /\ ipc' = Taken(n, fd)
      /\ UNCHANGED <<deployment, main, cmd, body, owner, incomingtag, outgoingconnection, allocation_return>>
      /\ UNCHANGED <<next_tag, next_object_id, allocation_id, objects, serving, client, inbox, overlap>>
  BY DEF Connection, mpi, counters
<1>2. PICK ops : ops = {"connect"} /\ Takes(n, fd, ops)
  BY <1>1
<1>3. PICK p, x : /\ p = incomingconnection[n]
                  /\ incomingconnection' = [incomingconnection EXCEPT ![n] = IF fd \in DOMAIN p THEN p ELSE Put(p, fd, x)]
  BY DEF Connection
<1>4. /\ \A k \in Nodes : DOMAIN incomingconnection[k] \subseteq DOMAIN incomingconnection'[k]
      /\ fd \in DOMAIN incomingconnection'[n]
  <2>1. incomingconnection = [k \in Nodes |-> incomingconnection[k]]
    BY DEF IInv, MapInv
  <2>2. /\ incomingconnection'[n] = (IF fd \in DOMAIN p THEN p ELSE Put(p, fd, x))
        /\ \A k \in Nodes : k # n => incomingconnection'[k] = incomingconnection[k]
    BY <1>3, <2>1
  <2>3. DOMAIN Put(p, fd, x) = DOMAIN p \cup {fd}
    BY DEF Put
  <2> QED BY <1>3, <2>2, <2>3
<1>5. LeadsOn
  BY <1>1, LeadsStay
<1>6. BaseInv'
  BY <1>1, <1>5, BaseStays DEF AInv
<1>7. CASE overlap
  BY <1>1, <1>6, <1>7 DEF AInv
<1>8. CASE ~overlap
  <2>1. AllocInv /\ TalkInv /\ ConnInv /\ PendInv /\ KnownInv
    BY <1>8 DEF AInv, WayInv, BaseInv
  <2>2. OwnersGrow
    BY <1>1, OwnersSame
  <2>3. PICK c : c = owner[n][fd]
    OBVIOUS
  <2>4. c \in Clients \ Grouping /\ c # None /\ Head(ipc[n][fd]).op = "connect"
    <3>1. PICK m : m = Head(ipc[n][fd])
      OBVIOUS
    <3>2. fd \in DOMAIN ipc[n] /\ m \in ToSet(ipc[n][fd]) /\ m.op = "connect"
      BY <1>2, <3>1, TakenHead
    <3>3. m.op \in Voice(c)
      BY <2>3, <3>2 DEF OInv, SpeechInv
    <3>4. fd \in DOMAIN owner[n]
      BY <3>2, Sockets DEF OInv
    <3>5. c \in Clients \cup {None}
      BY <2>3, <3>4, Sockets DEF OInv
    <3> QED BY <3>1, <3>2, <3>3, <3>5 DEF Voice
  <2>5. Speaker(c, n, fd)
    BY <1>2, <2>1, <2>3, <2>4, Speaks
  <2>6. TalkInv'
    <3>1. Talks(c, n, client[c], Tail(ipc[n][fd]), inbox[c], TRUE)
      <4>1. PICK s, j, v, b : /\ s = ipc[n][fd] /\ j = (fd \in DOMAIN incomingconnection[n]) /\ v = client[c] /\ b = inbox[c]
        OBVIOUS
      <4>2. s \in Seq(Msg) /\ Talks(c, n, v, s, b, j) /\ s # <<>> /\ Head(s).op = "connect"
        BY <2>4, <2>5, <4>1 DEF Speaker
      <4>3. Talks(c, n, v, Tail(s), b, TRUE)
        BY <4>2, ConnectTaken
      <4> QED BY <4>1, <4>3
    <3>2. (fd \in DOMAIN incomingconnection'[n]) = TRUE
      BY <1>4
    <3>3. Talks(c, n, client[c], Tail(ipc[n][fd]), inbox[c], fd \in DOMAIN incomingconnection'[n])
      BY <3>1, <3>2
    <3> QED BY <1>1, <1>2, <1>4, <2>1, <2>5, <3>3, TalkTaken
  <2>7. AllocInv'
    <3>1. \A k \in Nodes : \A f \in DOMAIN ipc'[k] : \A m \in ToSet(ipc'[k][f]) : f \in DOMAIN ipc[k] /\ m \in ToSet(ipc[k][f])
      BY <1>1, <1>2, TakenSpeech
    <3> QED BY <1>1, <1>5, <2>1, <2>2, <3>1, AllocKept
  <2>8. ConnInv' /\ PendInv'
    <3>1. BareOn
      BY <1>1, <1>2, <2>3, <2>4, TakenBare
    <3>2. ASSUME NEW w \in Clients \ Grouping, client[w].at = "wait", NoSync(ipc[Home[w]][client[w].fd])
          PROVE  NoSync(ipc'[Home[w]][client[w].fd])
      BY <1>1, <1>2, <3>2, TakenQuiet
    <3>3. \A w \in Clients \ Grouping :
             client[w].at = "wait" /\ inbox[w] = <<>> /\ NoSync(ipc[Home[w]][client[w].fd]) =>
               client'[w] = client[w] /\ inbox'[w] = inbox[w] /\ NoSync(ipc'[Home[w]][client[w].fd])
      BY <1>1, <3>2
    <3> QED BY <1>1, <2>1, <2>2, <3>1, <3>3, RequestsKept
  <2> QED BY <1>6, <2>6, <2>7, <2>8 DEF AInv, WayInv
<1> QED BY <1>7, <1>8

-----------------------------------------------------------------------------
(* Steps of allocations. *)

\* A message, a main thread or the parts of a command where they were.
OldPlace(kind, y, n, f) ==
    /\ kind = "said" => f \in DOMAIN ipc[n] /\ y \in ToSet(ipc[n][f])
    /\ kind = "exec" => main'[y] = main[y]
    /\ kind = "sent" => y \in body

\* The allocation for socket g of node s was at k, x and is at l, z now, or nowhere.
Shifts(s, g, k, x, l, z) ==
    \A n \in Nodes : \A f, kind, y : Token(kind, y, n, f)' =>
        \/ OldPlace(kind, y, n, f) /\ ~(n = s /\ f = g /\ kind = k /\ y = x)
        \/ n = s /\ f = g /\ kind = l /\ y = z /\ Fit(kind, y, n, f)'

LEMMA AllocShifts ==
    ASSUME IInv, OInv, AllocInv, KnownInv, LeadsOn, deployment' = deployment, OwnersGrow,
           NEW s \in Nodes, NEW g, NEW k, NEW x, NEW l, NEW z, Token(k, x, s, g), Shifts(s, g, k, x, l, z),
           \A c \in Clients \ Grouping : client[c].at = "alloc" /\ inbox[c] = <<>> /\ c # owner[s][g] =>
             client'[c] = client[c] /\ inbox'[c] = inbox[c]
    PROVE  AllocInv'
<1>1. Fit(k, x, s, g)
  BY DEF AllocInv
<1>2. ASSUME NEW n \in Nodes, NEW f, NEW kind, NEW y, Token(kind, y, n, f)',
             OldPlace(kind, y, n, f), ~(n = s /\ f = g /\ kind = k /\ y = x)
      PROVE  Token(kind, y, n, f) /\ Stays(n, f) /\ ~(n = s /\ f = g)
  <2>1. Token(kind, y, n, f)
    <3>1. /\ kind = "said" => f \in DOMAIN ipc[n] /\ y \in ToSet(ipc[n][f])
          /\ kind = "exec" => main'[y] = main[y]
          /\ kind = "sent" => y \in body
      BY <1>2 DEF OldPlace
    <3> QED BY <1>2, <3>1, SamePlace
  <2>2. Fit(kind, y, n, f)
    BY <2>1 DEF AllocInv
  <2>3. ~(n = s /\ f = g)
    BY <1>2, <2>1 DEF AllocInv
  <2>4. PICK c, d : c = owner[n][f] /\ d = owner[s][g]
    OBVIOUS
  <2>5. /\ c \in Clients \ Grouping /\ client[c].at = "alloc" /\ client[c].fd = f /\ inbox[c] = <<>> /\ f \in DOMAIN owner[n]
        /\ client[d].fd = g /\ g \in DOMAIN owner[s] /\ d \in Clients \ Grouping
    BY <1>1, <2>2, <2>4 DEF Fit, Asker
  <2>6. c # None /\ d # None
    BY <2>5, Sockets DEF OInv
  <2>7. Home[c] = n /\ Home[d] = s
    BY <2>4, <2>5, <2>6 DEF OInv, OwnerInv
  <2>8. c # d
    BY <2>3, <2>5, <2>7
  <2> QED BY <2>1, <2>3, <2>4, <2>5, <2>8 DEF Stays
<1>3. Moves(s, g, l, z)
  BY <1>2 DEF Moves, Shifts
<1> QED BY <1>3, AllocMoves

\* More allocations under way, each for some socket.
LEMMA KnownGrows ==
    ASSUME IInv, KnownInv, LeadsOn,
           \A n \in Nodes : main'[n].at = "exec" /\ main'[n].src # None =>
             main'[n] = main[n] \/ \E b \in body : b.kind = "alloc" /\ b.src = main'[n].src /\ b.id = main'[n].fd,
           \A b \in body' : \/ b \in body \/ b.kind \notin {"alloc", "address"}
                            \/ b.kind = "alloc" /\ \E f : Leads(b.src, b.id, f)'
                            \/ /\ b.kind = "address"
                               /\ \E n \in Nodes : main[n].at = "exec" /\ main[n].src # None /\ main[n].src = b.dst /\ main[n].fd = b.tag
    PROVE  KnownInv'
<1>1. ASSUME NEW n \in Nodes, NEW k, \E f : Leads(n, k, f) PROVE \E f : Leads(n, k, f)'
  BY <1>1 DEF LeadsOn
<1>2. ASSUME NEW b \in body, b.kind = "alloc" PROVE b.src \in Nodes /\ \E f : Leads(b.src, b.id, f)'
  <2>1. b.src \in Nodes
    BY <1>2 DEF IInv, TypeInv, BodyType
  <2> QED BY <1>1, <1>2, <2>1 DEF KnownInv
<1>3. ASSUME NEW n \in Nodes, main[n].at = "exec", main[n].src # None, NEW x, NEW k, x = main[n].src, k = main[n].fd
      PROVE  x \in Nodes /\ \E f : Leads(x, k, f)'
  <2>1. main[n] \in MainType
    BY DEF IInv, TypeInv
  <2>2. x \in Nodes /\ \E f : Leads(x, k, f)
    BY <1>3, <2>1 DEF KnownInv, MainType
  <2> QED BY <1>1, <2>2
<1>4. ASSUME NEW b \in body', b.kind = "alloc" PROVE \E f : Leads(b.src, b.id, f)'
  BY <1>2, <1>4
<1>5. ASSUME NEW b \in body', b.kind = "address" PROVE b.dst \in Nodes /\ \E f : Leads(b.dst, b.tag, f)'
  <2>1. CASE b \in body
    BY <1>1, <1>5, <2>1 DEF KnownInv
  <2>2. CASE b \notin body
    <3>1. PICK n \in Nodes : main[n].at = "exec" /\ main[n].src # None /\ main[n].src = b.dst /\ main[n].fd = b.tag
      BY <1>5, <2>2
    <3> QED BY <1>3, <3>1
  <2> QED BY <2>1, <2>2
<1>6. ASSUME NEW n \in Nodes, main'[n].at = "exec", main'[n].src # None
      PROVE  \E f : Leads(main[n].src, main[n].fd, f)'
  <2>1. PICK x, k : x = main'[n].src /\ k = main'[n].fd
    OBVIOUS
  <2>2. \E f : Leads(x, k, f)'
    <3>1. CASE main'[n] = main[n]
      BY <1>3, <1>6, <2>1, <3>1
    <3>2. CASE main'[n] # main[n]
      <4>1. PICK b \in body : b.kind = "alloc" /\ b.src = x /\ b.id = k
        BY <1>6, <2>1, <3>2
      <4> QED BY <1>2, <4>1
    <3> QED BY <3>1, <3>2
  <2> QED BY <2>1, <2>2
<1> QED BY <1>4, <1>5, <1>6 DEF KnownInv

\* Of the allocations no longer on a socket only that for fd of n is new.
Passed(n, fd, l, z) ==
    \A k \in Nodes : \A f, kind, y : Token(kind, y, k, f)' /\ kind # "said" =>
        \/ (kind = "exec" => main'[y] = main[y]) /\ (kind = "sent" => y \in body)
        \/ k = n /\ f = fd /\ kind = l /\ y = z

\* A main thread takes what a client asked for, and passes it on.
LEMMA AskTaken ==
    ASSUME IInv, OInv, IInv', OInv', AllocInv, TalkInv, ConnInv, PendInv, KnownInv, LeadsOn,
           NEW n \in Nodes, NEW fd, NEW ops, ops = {"alloc"}, Takes(n, fd, ops), ipc' = Taken(n, fd),
           UNCHANGED <<deployment, owner, client, inbox, serving>>,
           UNCHANGED <<incomingconnection, outgoingconnection, incomingtag, next_tag>>,
           \A b \in body' : b.kind \in {"request", "response"} => b \in body,
           NEW m, m = Head(ipc[n][fd]), NEW p, p = (IF m.node < World THEN m.node ELSE n),
           NEW l, NEW z, (l = "exec" /\ z = p) \/ (l = "sent" /\ z.kind = "alloc" /\ z.dst = p),
           Passed(n, fd, l, z)
    PROVE  WayInv'
<1>1. OwnersGrow
  BY OwnersSame
<1>2. /\ fd \in DOMAIN ipc[n] /\ ipc[n][fd] \in Seq(Msg) /\ ipc[n][fd] # <<>> /\ ipc'[n][fd] = Tail(ipc[n][fd])
      /\ \A k \in Nodes : DOMAIN ipc'[k] = DOMAIN ipc[k]
      /\ \A k \in Nodes : \A f \in DOMAIN ipc[k] : k # n \/ f # fd => ipc'[k][f] = ipc[k][f]
  BY TakeShape
<1>3. m \in ToSet(ipc[n][fd]) /\ m.op = "alloc"
  BY TakenHead
<1>4. PICK said : said = "said"
  OBVIOUS
<1>5. Token(said, m, n, fd)
  BY <1>2, <1>3, <1>4 DEF Token
<1>6. PICK c, v : c = owner[n][fd] /\ v = client[c]
  OBVIOUS
<1>7. Asker(n, fd) /\ v.fd = fd /\ v.at = "alloc" /\ inbox[c] = <<>> /\ m.node = v.node
  BY <1>4, <1>5, <1>6 DEF AllocInv, Fit
<1>8. c \in Clients \ Grouping /\ c # None
  BY <1>6, <1>7, Sockets DEF Asker, OInv
<1>9. Speaker(c, n, fd)
  BY <1>6, <1>8, Speaks
<1>10. Tail(ipc[n][fd]) = <<>> /\ Talks(c, n, client[c], Tail(ipc[n][fd]), inbox[c], fd \in DOMAIN incomingconnection'[n])
  <2>1. PICK s, j, b : s = ipc[n][fd] /\ j = (fd \in DOMAIN incomingconnection[n]) /\ b = inbox[c]
    OBVIOUS
  <2>2. s \in Seq(Msg) /\ Talks(c, n, v, s, b, j) /\ s # <<>> /\ v.at = "alloc"
    BY <1>6, <1>7, <1>9, <2>1 DEF Speaker
  <2>3. Tail(s) = <<>> /\ Talks(c, n, v, Tail(s), b, j)
    BY <2>2, AllocTaken
  <2> QED BY <1>6, <2>1, <2>3
<1>11. TalkInv'
  <2>1. \A k \in Nodes : DOMAIN incomingconnection[k] \subseteq DOMAIN incomingconnection'[k]
    OBVIOUS
  <2> QED BY <1>9, <1>10, <2>1, TalkTaken
<1>12. ConnInv' /\ PendInv'
  <2>1. BareOn
    BY <1>6, <1>8, TakenBare
  <2>2. ASSUME NEW w \in Clients \ Grouping, client[w].at = "wait", NoSync(ipc[Home[w]][client[w].fd])
        PROVE  NoSync(ipc'[Home[w]][client[w].fd])
    BY <2>2, TakenQuiet
  <2>3. \A w \in Clients \ Grouping :
           client[w].at = "wait" /\ inbox[w] = <<>> /\ NoSync(ipc[Home[w]][client[w].fd]) =>
             client'[w] = client[w] /\ inbox'[w] = inbox[w] /\ NoSync(ipc'[Home[w]][client[w].fd])
    BY <2>2
  <2> QED BY <1>1, <2>1, <2>3, RequestsKept
<1>13. Fit(l, z, n, fd)'
  <2>1. Asker(n, fd)'
    BY <1>1, <1>7, EndsGrow
  <2>2. Place(v, n) = p
    BY <1>7 DEF Place
  <2>3. PICK q : q = Place(v, n)
    OBVIOUS
  <2>4. /\ owner'[n][fd] = c /\ client'[c] = v /\ inbox'[c] = <<>>
        /\ (l = "exec" => z = q) /\ (l = "sent" => (IF z.kind = "alloc" THEN z.dst ELSE z.src) = q) /\ l # "said"
    BY <1>6, <1>7, <2>2, <2>3
  <2> QED BY <1>7, <2>1, <2>3, <2>4 DEF Fit, Place
<1>14. Shifts(n, fd, said, m, l, z)
  <2>1. ASSUME NEW k \in Nodes, NEW f, NEW kind, NEW y, Token(kind, y, k, f)'
        PROVE  \/ OldPlace(kind, y, k, f) /\ ~(k = n /\ f = fd /\ kind = said /\ y = m)
               \/ k = n /\ f = fd /\ kind = l /\ y = z /\ Fit(kind, y, k, f)'
    <3>1. CASE kind = "said"
      <4>1. f \in DOMAIN ipc'[k] /\ y \in ToSet(ipc'[k][f])
        BY <2>1, <3>1 DEF Token
      <4>2. ~(k = n /\ f = fd)
        <5>1. ipc'[n][fd] = <<>>
          BY <1>2, <1>10
        <5>2. \A x : x \notin ToSet(<<>>)
          BY DEF ToSet
        <5> QED BY <4>1, <5>1, <5>2
      <4>3. f \in DOMAIN ipc[k] /\ y \in ToSet(ipc[k][f])
        BY <1>2, <4>1, <4>2
      <4> QED BY <3>1, <4>2, <4>3 DEF OldPlace
    <3>2. CASE kind # "said"
      <4>1. CASE (kind = "exec" => main'[y] = main[y]) /\ (kind = "sent" => y \in body)
        BY <1>4, <3>2, <4>1 DEF OldPlace
      <4>2. CASE k = n /\ f = fd /\ kind = l /\ y = z
        BY <1>13, <4>2
      <4> QED BY <2>1, <3>2, <4>1, <4>2 DEF Passed
    <3> QED BY <3>1, <3>2
  <2> QED BY <2>1 DEF Shifts
<1>15. AllocInv'
  BY <1>1, <1>5, <1>14, AllocShifts
<1> QED BY <1>11, <1>12, <1>15 DEF WayInv

\* A new object: it gets a number of its own.
LEMMA ForkIds ==
    ASSUME IInv, IdsInv, NEW n \in Nodes, NEW f, NEW src, Fork(n, f, src), objects' = objects
    PROVE  IdsInv'
<1>1. main \in [Nodes -> MainType] /\ next_object_id \in [Nodes -> Nat]
  BY DEF IInv, TypeInv
<1>2. /\ main'[n].id = next_object_id[n] /\ next_object_id'[n] = next_object_id[n] + 1
      /\ \A k \in Nodes : k # n => main'[k] = main[k] /\ next_object_id'[k] = next_object_id[k]
  BY <1>1 DEF Fork
<1>3. next_object_id[n] \in Nat
  BY <1>1
<1>4. next_object_id'[n] # 0
  BY <1>2, <1>3
<1> QED BY <1>2, <1>4 DEF IdsInv

LEMMA AllocateHereA ==
    ASSUME IInv, OInv, IInv', OInv', AInv, NEW n \in Nodes, NEW fd, AllocateHere(n, fd)
    PROVE  AInv'
<1>1. /\ Takes(n, fd, {"alloc"}) /\ ipc' = Taken(n, fd) /\ Fork(n, fd, None)
      /\ UNCHANGED <<deployment, cmd, body, owner, client, inbox, serving, objects, overlap>>
      /\ UNCHANGED <<incomingconnection, outgoingconnection, incomingtag, allocation_return, next_tag, allocation_id>>
  BY DEF AllocateHere, mpi, maps
<1>2. PICK m, p, ops, l : /\ m = Head(ipc[n][fd]) /\ p = (IF m.node < World THEN m.node ELSE n)
                          /\ ops = {"alloc"} /\ l = "exec"
  OBVIOUS
<1>3. p = n
  <2>1. m.node = n \/ m.node >= World
    BY <1>2 DEF AllocateHere
  <2>2. m \in Msg
    BY <1>1, <1>2, TakenHead
  <2>3. m.node \in Nat /\ World \in Nat /\ n < World /\ n \in Nat
    BY <2>2, InterconnectorAssumption DEF Nodes, Msg
  <2> QED BY <1>2, <2>1, <2>3
<1>4. /\ main[n].at = "poll" /\ main'[n].at = "exec" /\ main'[n].src = None /\ main'[n].fd = fd
      /\ \A k \in Nodes : k # n => main'[k] = main[k]
  BY <1>1 DEF Takes, Fork, IInv, TypeInv
<1>5. LeadsOn
  BY <1>1, <1>4, LeadsTurn
<1>6. BaseInv'
  <2>1. CommandInv'
    BY <1>1, CommandsStay DEF AInv, BaseInv
  <2>2. IdsInv'
    BY <1>1, ForkIds DEF AInv, BaseInv
  <2>3. KnownInv'
    <3>1. \A k \in Nodes : main'[k].at = "exec" /\ main'[k].src # None =>
             main'[k] = main[k] \/ \E b \in body : b.kind = "alloc" /\ b.src = main'[k].src /\ b.id = main'[k].fd
      BY <1>4
    <3> QED BY <1>1, <1>5, <3>1, KnownGrows DEF AInv, BaseInv
  <2> QED BY <2>1, <2>2, <2>3 DEF BaseInv
<1>7. CASE overlap
  BY <1>1, <1>6, <1>7 DEF AInv
<1>8. CASE ~overlap
  <2>1. AllocInv /\ TalkInv /\ ConnInv /\ PendInv /\ KnownInv
    BY <1>8 DEF AInv, WayInv, BaseInv
  <2>2. ASSUME NEW k \in Nodes, NEW f, NEW kind, NEW y, Token(kind, y, k, f)', kind # "said"
        PROVE  \/ (kind = "exec" => main'[y] = main[y]) /\ (kind = "sent" => y \in body)
               \/ k = n /\ f = fd /\ kind = l /\ y = n
    <3>1. CASE kind = "exec" /\ y \in Nodes /\ Executes(y, k, f)'
      <4>1. CASE y # n
        BY <1>4, <3>1, <4>1
      <4>2. CASE y = n
        <5>1. main'[y].src # k
          BY <1>4, <4>2, InterconnectorAssumption DEF Nodes
        <5>2. k = n /\ f = fd
          BY <1>4, <3>1, <4>2, <5>1 DEF Executes
        <5> QED BY <1>2, <3>1, <4>2, <5>2
      <4> QED BY <4>1, <4>2
    <3>2. CASE kind = "sent" /\ y \in body'
      BY <1>1, <3>2
    <3>3. (kind = "exec" /\ y \in Nodes /\ Executes(y, k, f)') \/ (kind = "sent" /\ y \in body')
      BY <2>2, Zenon DEF Token
    <3> QED BY <3>1, <3>2, <3>3
  <2>3. Takes(n, fd, ops) /\ n = p /\ \A b \in body' : b.kind \in {"request", "response"} => b \in body
    BY <1>1, <1>2, <1>3
  <2>4. Passed(n, fd, l, n)
    BY <2>2 DEF Passed
  <2>5. WayInv'
    BY <1>1, <1>2, <1>5, <2>1, <2>3, <2>4, AskTaken
  <2> QED BY <1>6, <2>5 DEF AInv
<1> QED BY <1>7, <1>8

LEMMA AllocateThereA ==
    ASSUME IInv, OInv, IInv', OInv', AInv, NEW n \in Nodes, NEW fd, AllocateThere(n, fd)
    PROVE  AInv'
<1>1. PICK m, p, ops, l, id : /\ m = Head(ipc[n][fd]) /\ p = (IF m.node < World THEN m.node ELSE n)
                              /\ ops = {"alloc"} /\ l = "sent" /\ id = allocation_id[n]
  OBVIOUS
<1>2. PICK b : b = Body("alloc", n, m.node, 17, id, m)
  OBVIOUS
<1>3. /\ Takes(n, fd, ops) /\ ipc' = Taken(n, fd) /\ m.node < World /\ body' = body \cup {b}
      /\ main' = [main EXCEPT ![n] = [Idle EXCEPT !.at = "save", !.fd = fd]]
      /\ UNCHANGED <<deployment, owner, client, inbox, serving, objects, overlap>>
      /\ UNCHANGED <<incomingconnection, outgoingconnection, incomingtag, allocation_return, next_tag, next_object_id, allocation_id>>
  BY <1>1, <1>2 DEF AllocateThere, maps, counters
<1>4. b.kind = "alloc" /\ b.src = n /\ b.dst = p /\ b.id = id
  BY <1>1, <1>2, <1>3 DEF Body
<1>5. /\ main[n].at = "poll" /\ main'[n].at = "save" /\ main'[n].fd = fd
      /\ \A k \in Nodes : k # n => main'[k] = main[k]
  BY <1>3 DEF Takes, Idle, IInv, TypeInv
<1>6. LeadsOn
  BY <1>3, <1>5, LeadsTurn
<1>7. id \notin DOMAIN allocation_return'[n] /\ allocation_id'[n] = id
  <2>1. id \in Nat /\ \A k \in DOMAIN allocation_return[n] : k \in 0 .. id - 1
    BY <1>1 DEF OInv, EndsInv, ReturnEnds, IInv, TypeInv
  <2>2. id \notin DOMAIN allocation_return[n]
    BY <2>1
  <2> QED BY <1>1, <1>3, <2>2
<1>8. Leads(n, id, fd)'
  BY <1>5, <1>7 DEF Leads
<1>9. ASSUME NEW f, Leads(n, id, f)' PROVE f = fd
  BY <1>5, <1>7, <1>9 DEF Leads
<1>10. BaseInv'
  <2>1. CommandInv'
    BY AllocateThereCommand DEF AInv, BaseInv
  <2>2. IdsInv'
    BY <1>3, <1>5, IdsStay DEF AInv, BaseInv
  <2>3. KnownInv'
    <3>1. \A k \in Nodes : main'[k].at = "exec" /\ main'[k].src # None =>
             main'[k] = main[k] \/ \E a \in body : a.kind = "alloc" /\ a.src = main'[k].src /\ a.id = main'[k].fd
      BY <1>5
    <3>2. \A a \in body' : \/ a \in body \/ a.kind \notin {"alloc", "address"}
                           \/ a.kind = "alloc" /\ \E f : Leads(a.src, a.id, f)'
      BY <1>3, <1>4, <1>8
    <3> QED BY <1>6, <3>1, <3>2, KnownGrows DEF AInv, BaseInv
  <2> QED BY <2>1, <2>2, <2>3 DEF BaseInv
<1>11. CASE overlap
  BY <1>3, <1>10, <1>11 DEF AInv
<1>12. CASE ~overlap
  <2>1. AllocInv /\ TalkInv /\ ConnInv /\ PendInv /\ KnownInv
    BY <1>12 DEF AInv, WayInv, BaseInv
  <2>2. ASSUME NEW k \in Nodes, NEW f, NEW kind, NEW y, Token(kind, y, k, f)', kind # "said"
        PROVE  \/ (kind = "exec" => main'[y] = main[y]) /\ (kind = "sent" => y \in body)
               \/ k = n /\ f = fd /\ kind = l /\ y = b
    <3>1. CASE kind = "exec" /\ y \in Nodes /\ Executes(y, k, f)'
      BY <1>5, <3>1 DEF Executes
    <3>2. CASE kind = "sent" /\ y \in body' /\ Carries(y, k, f)'
      <4>1. CASE y \in body
        BY <3>2, <4>1
      <4>2. CASE y \notin body
        <5>1. y = b
          BY <1>3, <3>2, <4>2
        <5>2. k = n /\ Leads(n, id, f)'
          BY <1>4, <3>2, <5>1 DEF Carries
        <5> QED BY <1>1, <1>9, <3>2, <5>1, <5>2
      <4> QED BY <4>1, <4>2
    <3>3. (kind = "exec" /\ y \in Nodes /\ Executes(y, k, f)') \/ (kind = "sent" /\ y \in body' /\ Carries(y, k, f)')
      BY <2>2, Zenon DEF Token
    <3> QED BY <3>1, <3>2, <3>3
  <2>3. \A a \in body' : a.kind \in {"request", "response"} => a \in body
    BY <1>3, <1>4
  <2>4. Passed(n, fd, l, b)
    BY <2>2 DEF Passed
  <2>5. WayInv'
    BY <1>1, <1>3, <1>4, <1>6, <2>1, <2>3, <2>4, AskTaken
  <2> QED BY <1>10, <2>5 DEF AInv
<1> QED BY <1>11, <1>12

\* The clients say nothing, and at most client x gets something.
LEMMA TalksKept ==
    ASSUME IInv, OInv, OInv', TalkInv, UNCHANGED <<deployment, incomingconnection>>, OwnersGrow, NEW x,
           \A c \in Clients \ Grouping : client'[c] = client[c] /\ (c # x => inbox'[c] = inbox[c]),
           \A n \in Nodes : \A f \in DOMAIN owner'[n] : f \in DOMAIN owner[n] \/ owner'[n][f] \in Grouping \cup {None},
           \A n \in Nodes : \A f \in DOMAIN owner[n] : owner[n][f] \in Clients \ Grouping => ipc'[n][f] = ipc[n][f],
           x \in Clients \ Grouping /\ client[x].at # "idle" =>
             Talks(x, Home[x], client[x], ipc[Home[x]][client[x].fd], inbox'[x], client[x].fd \in DOMAIN incomingconnection[Home[x]])
    PROVE  TalkInv'
<1>1. ASSUME NEW c \in Clients \ Grouping, client'[c].at # "idle" PROVE Same(c) \/ TalksNext(c)
  <2>1. client'[c] = client[c]
    OBVIOUS
  <2>2. Home[c] \in Nodes /\ client[c].fd \in DOMAIN owner[Home[c]] /\ owner[Home[c]][client[c].fd] = c
    BY <1>1, <2>1, Deployed DEF IInv, OInv, OwnerInv
  <2>3. ipc'[Home[c]][client[c].fd] = ipc[Home[c]][client[c].fd]
    BY <2>2
  <2>4. CASE c # x
    BY <2>1, <2>3, <2>4 DEF Same
  <2>5. CASE c = x
    <3>1. Talks(c, Home[c], client[c], ipc[Home[c]][client[c].fd], inbox'[c], client[c].fd \in DOMAIN incomingconnection[Home[c]])
      BY <1>1, <2>1, <2>5
    <3> QED BY <2>1, <2>3, <3>1 DEF TalksNext
  <2> QED BY <2>4, <2>5
<1>2. \A c \in Clients \ Grouping : client'[c].fd = client[c].fd
  OBVIOUS
<1>3. \A n \in Nodes : \A f \in DOMAIN owner[n] : owner[n][f] \in Clients \ Grouping =>
         ipc'[n][f] = ipc[n][f] \/ ipc[n][f] # <<>>
  OBVIOUS
<1>4. \A n \in Nodes : \A f \in DOMAIN owner'[n] :
         owner'[n][f] \in Clients \ Grouping /\ f # client'[owner'[n][f]].fd => ipc'[n][f] = <<>>
  BY <1>2, <1>3, AloneOn
<1>5. \A n \in Nodes : DOMAIN incomingconnection[n] \subseteq DOMAIN incomingconnection'[n]
  OBVIOUS
<1> QED BY <1>1, <1>4, <1>5, TalksOn

\* ... and nobody gets anything.
LEMMA TalksSame ==
    ASSUME IInv, OInv, OInv', TalkInv, UNCHANGED <<deployment, incomingconnection, client, inbox>>, OwnersGrow,
           \A n \in Nodes : \A f \in DOMAIN owner'[n] : f \in DOMAIN owner[n] \/ owner'[n][f] \in Grouping \cup {None},
           \A n \in Nodes : \A f \in DOMAIN owner[n] : owner[n][f] \in Clients \ Grouping => ipc'[n][f] = ipc[n][f]
    PROVE  TalkInv'
<1>1. PICK x : x = None
  OBVIOUS
<1>2. x \notin Clients
  BY <1>1, Sockets DEF OInv
<1> QED BY <1>2, TalksKept

\* A wake is taken.
LEMMA WakeBare ==
    ASSUME IInv, OInv, ConnInv, NEW n \in Nodes, NEW fd, NEW ops, Takes(n, fd, ops), ops \cap {"call", "answer"} = {},
           ipc' = Taken(n, fd), owner' = owner, owner[n][fd] = None
    PROVE  BareOn /\ \A k \in Nodes : \A f \in DOMAIN owner[k] : owner[k][f] # None => ipc'[k][f] = ipc[k][f]
<1>1. /\ fd \in DOMAIN ipc[n] /\ ipc[n][fd] # <<>> /\ ipc'[n][fd] = Tail(ipc[n][fd])
      /\ \A k \in Nodes : DOMAIN ipc'[k] = DOMAIN ipc[k]
      /\ \A k \in Nodes : \A f \in DOMAIN ipc[k] : k # n \/ f # fd => ipc'[k][f] = ipc[k][f]
  BY TakeShape
<1>2. \A m \in ToSet(ipc'[n][fd]) : m.op \notin {"call", "answer"}
  BY <1>1, WakeTaken
<1>3. \A k \in Nodes : DOMAIN owner[k] = DOMAIN ipc[k]
  BY Sockets DEF OInv
<1>4. BareOn
  BY <1>1, <1>2 DEF BareOn, Bare
<1>5. \A k \in Nodes : \A f \in DOMAIN owner[k] : owner[k][f] # None => ipc'[k][f] = ipc[k][f]
  BY <1>1, <1>3
<1> QED BY <1>4, <1>5

\* No client is at a socket that wakes.
LEMMA WakeInner ==
    ASSUME IInv, OInv, NEW n \in Nodes, NEW fd, NEW ops, Takes(n, fd, ops), ops \subseteq {"terminate", "allocation", "request"}
    PROVE  owner[n][fd] = None
<1>1. PICK m : m = Head(ipc[n][fd])
  OBVIOUS
<1>2. fd \in DOMAIN ipc[n] /\ m \in ToSet(ipc[n][fd]) /\ m.op \in ops
  BY <1>1, TakenHead
<1>3. m.op \in Voice(owner[n][fd])
  BY <1>2 DEF OInv, SpeechInv
<1> QED BY <1>2, <1>3 DEF Voice

LEMMA AllocationFromMpiA ==
    ASSUME IInv, OInv, IInv', OInv', AInv, NEW n \in Nodes, NEW fd, AllocationFromMpi(n, fd)
    PROVE  AInv'
<1>1. /\ Takes(n, fd, {"allocation"}) /\ ipc' = Taken(n, fd)
      /\ UNCHANGED <<deployment, cmd, owner, client, inbox, serving, objects, overlap>>
      /\ UNCHANGED <<incomingconnection, outgoingconnection, incomingtag, allocation_return, next_tag, allocation_id>>
  BY DEF AllocationFromMpi, maps
<1>2. PICK b \in body : b.kind = "alloc" /\ b.dst = n /\ body' = body \ {b} /\ Fork(n, b.id, b.src)
  BY DEF AllocationFromMpi
<1>3. PICK ops, s, id : ops = {"allocation"} /\ s = b.src /\ id = b.id
  OBVIOUS
<1>4. Takes(n, fd, ops) /\ owner[n][fd] = None /\ s \in Nodes
  <2>1. Takes(n, fd, ops)
    BY <1>1, <1>3
  <2>2. owner[n][fd] = None
    BY <1>3, <2>1, WakeInner
  <2> QED BY <1>3, <2>1, <2>2 DEF IInv, TypeInv, BodyType
<1>5. /\ main[n].at = "poll" /\ main'[n].at = "exec" /\ main'[n].src = s /\ main'[n].fd = id
      /\ \A k \in Nodes : k # n => main'[k] = main[k]
  BY <1>1, <1>2, <1>3 DEF Takes, Fork, IInv, TypeInv
<1>6. LeadsOn
  BY <1>1, <1>5, LeadsTurn
<1>7. BaseInv'
  <2>1. CommandInv'
    BY <1>1, <1>2, CommandsStay DEF AInv, BaseInv
  <2>2. IdsInv'
    BY <1>1, <1>2, ForkIds DEF AInv, BaseInv
  <2>3. KnownInv'
    <3>1. \A k \in Nodes : main'[k].at = "exec" /\ main'[k].src # None =>
             main'[k] = main[k] \/ \E a \in body : a.kind = "alloc" /\ a.src = main'[k].src /\ a.id = main'[k].fd
      BY <1>2, <1>3, <1>5
    <3> QED BY <1>2, <1>6, <3>1, KnownGrows DEF AInv, BaseInv
  <2> QED BY <2>1, <2>2, <2>3 DEF BaseInv
<1>8. CASE overlap
  BY <1>1, <1>7, <1>8 DEF AInv
<1>9. CASE ~overlap
  <2>1. AllocInv /\ TalkInv /\ ConnInv /\ PendInv /\ KnownInv
    BY <1>9 DEF AInv, WayInv, BaseInv
  <2>2. OwnersGrow
    BY <1>1, OwnersSame
  <2>3. PICK g : Leads(s, id, g)
    BY <1>2, <1>3, <2>1 DEF KnownInv
  <2>4. Leads(s, id, g)' /\ \A f : Leads(s, id, f)' => f = g
    <3>1. Leads(s, id, g)'
      BY <1>4, <1>6, <2>3 DEF LeadsOn
    <3> QED BY <3>1 DEF Leads
  <2>5. PICK k, l : k = "sent" /\ l = "exec"
    OBVIOUS
  <2>6. Token(k, b, s, g)
    BY <1>2, <1>3, <2>3, <2>5 DEF Token, Carries
  <2>7. Fit(k, b, s, g)
    BY <1>4, <2>1, <2>6 DEF AllocInv
  <2>8. Fit(l, n, s, g)'
    <3>1. Asker(s, g)'
      BY <1>1, <1>4, <2>2, <2>7, EndsGrow DEF Fit
    <3> QED BY <1>1, <1>2, <2>5, <2>7, <3>1 DEF Fit, Place
  <2>9. /\ BareOn
        /\ \A i \in Nodes : \A f \in DOMAIN owner[i] : owner[i][f] # None => ipc'[i][f] = ipc[i][f]
    <3>1. ops \cap {"call", "answer"} = {}
      BY <1>3
    <3> QED BY <1>1, <1>4, <2>1, <3>1, WakeBare
  <2>10. Shifts(s, g, k, b, l, n)
    <3>1. ASSUME NEW i \in Nodes, NEW f, NEW kind, NEW y, Token(kind, y, i, f)'
          PROVE  \/ OldPlace(kind, y, i, f) /\ ~(i = s /\ f = g /\ kind = k /\ y = b)
                 \/ i = s /\ f = g /\ kind = l /\ y = n /\ Fit(kind, y, i, f)'
      <4>1. CASE kind = "said" /\ f \in DOMAIN ipc'[i] /\ y \in ToSet(ipc'[i][f])
        <5>1. f \in DOMAIN ipc[i] /\ y \in ToSet(ipc[i][f])
          BY <1>1, <1>4, <4>1, TakenSpeech
        <5> QED BY <2>5, <4>1, <5>1 DEF OldPlace
      <4>2. CASE kind = "exec" /\ y \in Nodes /\ Executes(y, i, f)'
        <5>1. CASE y # n
          BY <1>5, <2>5, <4>2, <5>1 DEF OldPlace
        <5>2. CASE y = n
          <6>1. main'[y].src # None
            BY <1>4, <1>5, <5>2, InterconnectorAssumption DEF Nodes
          <6>2. i = s /\ Leads(s, id, f)'
            BY <1>5, <4>2, <5>2, <6>1 DEF Executes
          <6> QED BY <2>4, <2>5, <2>8, <4>2, <5>2, <6>2
        <5> QED BY <5>1, <5>2
      <4>3. CASE kind = "sent" /\ y \in body'
        BY <1>2, <4>3 DEF OldPlace
      <4>4. \/ kind = "said" /\ f \in DOMAIN ipc'[i] /\ y \in ToSet(ipc'[i][f])
            \/ kind = "exec" /\ y \in Nodes /\ Executes(y, i, f)'
            \/ kind = "sent" /\ y \in body'
        BY <3>1, Zenon DEF Token
      <4> QED BY <4>1, <4>2, <4>3, <4>4
    <3> QED BY <3>1 DEF Shifts
  <2>11. AllocInv'
    BY <1>1, <1>4, <1>6, <2>1, <2>2, <2>6, <2>10, AllocShifts
  <2>12. \A i \in Nodes : \A f \in DOMAIN owner[i] : owner[i][f] \in Clients \ Grouping => ipc'[i][f] = ipc[i][f]
    BY <2>9, Sockets DEF OInv
  <2>13. TalkInv'
    BY <1>1, <2>1, <2>2, <2>12, TalksSame
  <2>14. ConnInv' /\ PendInv'
    <3>1. ASSUME NEW w \in Clients \ Grouping, client[w].at = "wait", NoSync(ipc[Home[w]][client[w].fd])
          PROVE  NoSync(ipc'[Home[w]][client[w].fd])
      BY <1>1, <1>4, <3>1, TakenQuiet
    <3>2. \A w \in Clients \ Grouping :
             client[w].at = "wait" /\ inbox[w] = <<>> /\ NoSync(ipc[Home[w]][client[w].fd]) =>
               client'[w] = client[w] /\ inbox'[w] = inbox[w] /\ NoSync(ipc'[Home[w]][client[w].fd])
      BY <1>1, <3>1
    <3>3. \A a \in body' : a.kind \in {"request", "response"} => a \in body
      BY <1>2
    <3> QED BY <1>1, <2>1, <2>2, <2>9, <3>2, <3>3, RequestsKept
  <2> QED BY <1>7, <2>11, <2>13, <2>14 DEF AInv, WayInv
<1> QED BY <1>8, <1>9

\* The address of a new object reaches the client that asked for it.
LEMMA AddressDelivered ==
    ASSUME IInv, OInv, IInv', OInv', AllocInv, TalkInv, ConnInv, PendInv, KnownInv, LeadsOn,
           UNCHANGED <<deployment, ipc, owner, client, serving>>,
           UNCHANGED <<incomingconnection, outgoingconnection, incomingtag, next_tag>>,
           NEW n \in Nodes, NEW g, NEW k, NEW x, Token(k, x, n, g), NEW a \in Msg, a.op = "address", Deliver(n, g, a),
           (k = "exec" /\ a.node = x) \/ (k = "sent" /\ x.kind = "address" /\ a.node = x.src),
           \A y \in Nodes : main'[y].at = "exec" => main'[y] = main[y] /\ (k = "exec" => y # x),
           \A b \in body' : b \in body /\ (k = "sent" => b # x)
    PROVE  WayInv'
<1>1. OwnersGrow
  BY OwnersSame
<1>2. PICK c, v : c = owner[n][g] /\ v = client[c]
  OBVIOUS
<1>3. Fit(k, x, n, g)
  BY DEF AllocInv
<1>4. /\ c \in Clients \ Grouping /\ g \in DOMAIN owner[n] /\ v.fd = g /\ v.at = "alloc" /\ inbox[c] = <<>>
      /\ a.node = Place(v, n)
  BY <1>2, <1>3 DEF Fit, Asker
<1>5. c # None /\ Home[c] = n
  <2>1. c # None
    BY <1>4, Sockets DEF OInv
  <2> QED BY <1>2, <1>4, <2>1 DEF OInv, OwnerInv
<1>6. inbox'[c] = <<a>> /\ \A d \in Clients : d # c => inbox'[d] = inbox[d]
  <2>1. inbox'[c] = Append(inbox[c], a) /\ \A d \in Clients : d # c => inbox'[d] = inbox[d]
    BY <1>2, <1>4 DEF Deliver
  <2>2. Append(<<>>, a) = <<a>>
    OBVIOUS
  <2> QED BY <1>4, <2>1, <2>2
<1>7. TalkInv'
  <2>1. PICK s, j : s = ipc[n][g] /\ j = (g \in DOMAIN incomingconnection[n])
    OBVIOUS
  <2>2. Talks(c, n, v, s, <<>>, j)
    BY <1>2, <1>4, <1>5, <2>1 DEF TalkInv
  <2>3. Talks(c, n, v, s, <<a>>, j)
    BY <1>4, <2>2, AddressComes
  <2>4. Talks(c, Home[c], client[c], ipc[Home[c]][client[c].fd], inbox'[c], client[c].fd \in DOMAIN incomingconnection[Home[c]])
    BY <1>2, <1>4, <1>5, <1>6, <2>1, <2>3
  <2>5. \A d \in Clients \ Grouping : client'[d] = client[d] /\ (d # c => inbox'[d] = inbox[d])
    BY <1>6
  <2>6. /\ \A i \in Nodes : \A f \in DOMAIN owner'[i] : f \in DOMAIN owner[i] \/ owner'[i][f] \in Grouping \cup {None}
        /\ \A i \in Nodes : \A f \in DOMAIN owner[i] : owner[i][f] \in Clients \ Grouping => ipc'[i][f] = ipc[i][f]
    OBVIOUS
  <2> QED BY <1>1, <2>4, <2>5, <2>6, TalksKept
<1>8. AllocInv'
  <2>1. PICK l, z : l = "none" /\ z = None
    OBVIOUS
  <2>2. ASSUME NEW i \in Nodes, NEW f, NEW kind, NEW y, Token(kind, y, i, f)'
        PROVE  OldPlace(kind, y, i, f) /\ ~(i = n /\ f = g /\ kind = k /\ y = x)
    <3>1. CASE kind = "said" /\ f \in DOMAIN ipc'[i] /\ y \in ToSet(ipc'[i][f])
      BY <3>1 DEF OldPlace
    <3>2. CASE kind = "exec" /\ y \in Nodes /\ Executes(y, i, f)'
      BY <3>2 DEF OldPlace, Executes
    <3>3. CASE kind = "sent" /\ y \in body'
      BY <3>3 DEF OldPlace
    <3>4. \/ kind = "said" /\ f \in DOMAIN ipc'[i] /\ y \in ToSet(ipc'[i][f])
          \/ kind = "exec" /\ y \in Nodes /\ Executes(y, i, f)'
          \/ kind = "sent" /\ y \in body'
      BY <2>2, Zenon DEF Token
    <3> QED BY <3>1, <3>2, <3>3, <3>4
  <2>3. Shifts(n, g, k, x, l, z)
    BY <2>2 DEF Shifts
  <2>4. \A d \in Clients \ Grouping : client[d].at = "alloc" /\ inbox[d] = <<>> /\ d # owner[n][g] =>
             client'[d] = client[d] /\ inbox'[d] = inbox[d]
    BY <1>2, <1>6
  <2> QED BY <1>1, <2>3, <2>4, AllocShifts
<1>9. ConnInv' /\ PendInv'
  <2>1. \A w \in Clients \ Grouping :
           client[w].at = "wait" /\ inbox[w] = <<>> /\ NoSync(ipc[Home[w]][client[w].fd]) =>
             client'[w] = client[w] /\ inbox'[w] = inbox[w] /\ NoSync(ipc'[Home[w]][client[w].fd])
    BY <1>2, <1>4, <1>6
  <2>2. BareOn
    BY DEF BareOn, Bare
  <2>3. \A b \in body' : b.kind \in {"request", "response"} => b \in body
    OBVIOUS
  <2> QED BY <1>1, <2>1, <2>2, <2>3, RequestsKept
<1> QED BY <1>7, <1>8, <1>9 DEF WayInv

\* One more object, with a number.
LEMMA MoreIds ==
    ASSUME IdsInv, UNCHANGED next_object_id, \A n \in Nodes : main'[n].at = "exec" => main'[n] = main[n],
           NEW o, o.id # 0, objects' = objects \cup {o}
    PROVE  IdsInv'
  BY DEF IdsInv

LEMMA ObjectCallsBackA ==
    ASSUME IInv, OInv, IInv', OInv', AInv, NEW n \in Nodes, NEW outcome, ObjectCallsBack(n, outcome)
    PROVE  AInv'
<1>1. PICK fd, s, id, a, o, b : /\ fd = main[n].fd /\ s = main[n].src /\ id = main[n].id
                                /\ a = Message("address", None, 0, FALSE, n, id) /\ o = [node |-> n, id |-> id, up |-> outcome = "up"]
                                /\ b = Body("address", n, s, fd, 0, a)
  OBVIOUS
<1>2. /\ main[n].at = "exec" /\ UNCHANGED <<deployment, ipc, owner, client, serving, overlap>>
      /\ UNCHANGED <<incomingconnection, outgoingconnection, incomingtag, allocation_return>>
      /\ UNCHANGED <<next_tag, allocation_id, next_object_id>>
  BY DEF ObjectCallsBack, local, maps, counters
<1>3. main[n] \in MainType /\ main \in [Nodes -> MainType] /\ n \in Nat /\ OwnersGrow
  BY <1>2, InterconnectorAssumption, OwnersSame DEF IInv, TypeInv, Nodes
<1>4. CommandInv'
  BY ObjectCallsBackCommand DEF AInv, BaseInv
<1>5. CASE outcome = "silent"
  <2>1. objects' = objects /\ main' = [main EXCEPT ![n].at = "stuck"] /\ UNCHANGED <<body, inbox>>
    BY <1>5 DEF ObjectCallsBack, mpi
  <2>2. main'[n].at = "stuck" /\ \A k \in Nodes : k # n => main'[k] = main[k]
    BY <1>3, <2>1 DEF MainType
  <2>3. LeadsOn
    BY <1>2, <2>2, LeadsTurn
  <2>4. Clear
    BY <1>2, <1>3, <2>1, <2>2, <2>3 DEF Clear, Other
  <2> QED BY <1>4, <2>4, ClearA
<1>6. CASE outcome # "silent"
  <2>1. objects' = objects \cup {o} /\ o.id # 0 /\ a \in Msg /\ a.op = "address" /\ a.node = n
    <3>1. objects' = objects \cup {o}
      BY <1>1, <1>6 DEF ObjectCallsBack
    <3>2. id # 0 /\ id \in Nat
      BY <1>1, <1>2, <1>3 DEF AInv, BaseInv, IdsInv, MainType
    <3>3. a \in Msg
      BY <1>1, <1>3, <3>2 DEF Msg, Message, Ops
    <3> QED BY <1>1, <3>1, <3>2, <3>3 DEF Message
  <2>2. CASE s = None
    <3>1. Deliver(n, fd, a) /\ main' = [main EXCEPT ![n] = Idle] /\ UNCHANGED <<cmd, body>>
      BY <1>1, <1>6, <2>2 DEF ObjectCallsBack, mpi
    <3>2. main'[n].at = "poll" /\ \A k \in Nodes : k # n => main'[k] = main[k]
      BY <1>3, <3>1 DEF Idle
    <3>3. LeadsOn
      BY <1>2, <3>2, LeadsTurn
    <3>4. \A k \in Nodes : main'[k].at = "exec" => main'[k] = main[k] /\ k # n
      BY <3>2
    <3>5. BaseInv'
      <4>1. IdsInv'
        BY <1>2, <2>1, <3>4, MoreIds DEF AInv, BaseInv
      <4>2. KnownInv'
        BY <3>1, <3>3, <3>4, KnownStays DEF AInv, BaseInv
      <4> QED BY <1>4, <4>1, <4>2 DEF BaseInv
    <3>6. CASE overlap
      BY <1>2, <3>5, <3>6 DEF AInv
    <3>7. CASE ~overlap
      <4>1. AllocInv /\ TalkInv /\ ConnInv /\ PendInv /\ KnownInv
        BY <3>7 DEF AInv, WayInv, BaseInv
      <4>2. PICK k : k = "exec"
        OBVIOUS
      <4>3. Token(k, n, n, fd)
        BY <1>1, <1>2, <2>2, <4>2 DEF Token, Executes
      <4>4. k = "exec" /\ a.node = n /\ \A y \in Nodes : main'[y].at = "exec" => main'[y] = main[y] /\ (k = "exec" => y # n)
        BY <2>1, <3>4, <4>2
      <4>5. \A y \in body' : y \in body /\ (k = "sent" => y # n)
        BY <3>1, <4>2
      <4>6. WayInv'
        BY <1>2, <2>1, <3>1, <3>3, <4>1, <4>3, <4>4, <4>5, AddressDelivered
      <4> QED BY <3>5, <4>6 DEF AInv
    <3> QED BY <3>6, <3>7
  <2>3. CASE s # None
    <3>1. body' = body \cup {b} /\ main' = [main EXCEPT ![n].at = "sent"] /\ inbox' = inbox
      BY <1>1, <1>6, <2>3 DEF ObjectCallsBack
    <3>2. main'[n].at = "sent" /\ (\A k \in Nodes : k # n => main'[k] = main[k]) /\ s \in Nodes
      BY <1>1, <1>3, <2>3, <3>1 DEF MainType
    <3>3. b.kind = "address" /\ b.src = n /\ b.dst = s /\ b.tag = fd
      BY <1>1 DEF Body
    <3>4. LeadsOn
      BY <1>2, <3>2, LeadsTurn
    <3>5. \A k \in Nodes : main'[k].at = "exec" => main'[k] = main[k] /\ k # n
      BY <3>2
    <3>6. BaseInv'
      <4>1. IdsInv'
        BY <1>2, <2>1, <3>5, MoreIds DEF AInv, BaseInv
      <4>2. \A y \in body' : \/ y \in body
                             \/ /\ y.kind = "address"
                                /\ \E k \in Nodes : main[k].at = "exec" /\ main[k].src # None /\ main[k].src = y.dst /\ main[k].fd = y.tag
        BY <1>1, <1>2, <2>3, <3>1, <3>3
      <4>3. KnownInv'
        BY <3>4, <3>5, <4>2, KnownGrows DEF AInv, BaseInv
      <4> QED BY <1>4, <4>1, <4>3 DEF BaseInv
    <3>7. CASE overlap
      BY <1>2, <3>6, <3>7 DEF AInv
    <3>8. CASE ~overlap
      <4>1. AllocInv /\ TalkInv /\ ConnInv /\ PendInv /\ KnownInv
        BY <3>8 DEF AInv, WayInv, BaseInv
      <4>2. PICK k, l : k = "exec" /\ l = "sent"
        OBVIOUS
      <4>3. PICK g : Leads(s, fd, g)
        BY <1>1, <1>2, <2>3, <4>1 DEF KnownInv
      <4>4. \A f : Leads(s, fd, f)' => f = g
        <5>1. Leads(s, fd, g)'
          BY <3>2, <3>4, <4>3 DEF LeadsOn
        <5> QED BY <5>1 DEF Leads
      <4>5. Token(k, n, s, g)
        BY <1>1, <1>2, <4>2, <4>3 DEF Token, Executes
      <4>6. Fit(k, n, s, g)
        BY <3>2, <4>1, <4>5 DEF AllocInv
      <4>7. Fit(l, b, s, g)'
        <5>1. Asker(s, g)'
          BY <1>2, <1>3, <3>2, <4>6, EndsGrow DEF Fit
        <5> QED BY <1>2, <3>1, <3>3, <4>2, <4>6, <5>1 DEF Fit, Place
      <4>8. ASSUME NEW i \in Nodes, NEW f, NEW kind, NEW y, Token(kind, y, i, f)'
            PROVE  \/ OldPlace(kind, y, i, f) /\ ~(i = s /\ f = g /\ kind = k /\ y = n)
                   \/ i = s /\ f = g /\ kind = l /\ y = b /\ Fit(kind, y, i, f)'
        <5>1. CASE kind = "said" /\ f \in DOMAIN ipc'[i] /\ y \in ToSet(ipc'[i][f])
          BY <1>2, <4>2, <5>1 DEF OldPlace
        <5>2. CASE kind = "exec" /\ y \in Nodes /\ Executes(y, i, f)'
          BY <3>5, <5>2 DEF OldPlace, Executes
        <5>3. CASE kind = "sent" /\ y \in body' /\ Carries(y, i, f)'
          <6>1. CASE y \in body
            BY <4>2, <5>3, <6>1 DEF OldPlace
          <6>2. CASE y \notin body
            <7>1. y = b
              BY <3>1, <5>3, <6>2
            <7>2. i = s /\ Leads(s, fd, f)'
              BY <3>3, <5>3, <7>1 DEF Carries
            <7> QED BY <4>2, <4>4, <4>7, <5>3, <7>1, <7>2
          <6> QED BY <6>1, <6>2
        <5>4. \/ kind = "said" /\ f \in DOMAIN ipc'[i] /\ y \in ToSet(ipc'[i][f])
              \/ kind = "exec" /\ y \in Nodes /\ Executes(y, i, f)'
              \/ kind = "sent" /\ y \in body' /\ Carries(y, i, f)'
          BY <4>8, Zenon DEF Token
        <5> QED BY <5>1, <5>2, <5>3, <5>4
      <4>9. Shifts(s, g, k, n, l, b)
        BY <4>8 DEF Shifts
      <4>10. AllocInv'
        BY <1>2, <1>3, <3>1, <3>2, <3>4, <4>1, <4>5, <4>9, AllocShifts
      <4>11. TalkInv'
        BY <1>2, <1>3, <3>1, <4>1, TalksSame
      <4>12. ConnInv' /\ PendInv'
        <5>1. BareOn
          BY <1>2 DEF BareOn, Bare
        <5>2. \A y \in body' : y.kind \in {"request", "response"} => y \in body
          BY <3>1, <3>3
        <5> QED BY <1>2, <1>3, <3>1, <4>1, <5>1, <5>2, RequestsKept
      <4> QED BY <3>6, <4>10, <4>11, <4>12 DEF AInv, WayInv
    <3> QED BY <3>7, <3>8
  <2> QED BY <2>2, <2>3
<1> QED BY <1>5, <1>6

LEMMA ReceiveAllocatedA ==
    ASSUME IInv, OInv, IInv', OInv', AInv, NEW n \in Nodes, NEW s \in Nodes, ReceiveAllocated(n, s)
    PROVE  AInv'
<1>1. PICK c : c = Head(cmd[s][n])
  OBVIOUS
<1>2. /\ cmd[s][n] # <<>> /\ c.what = "allocated" /\ UNCHANGED <<deployment, ipc, owner, client, serving, overlap, objects>>
      /\ UNCHANGED <<incomingconnection, outgoingconnection, incomingtag, allocation_return>>
      /\ UNCHANGED <<next_tag, allocation_id, next_object_id>>
  BY <1>1 DEF ReceiveAllocated, local, maps, counters
<1>3. PICK b \in body : /\ b.kind = "address" /\ b.src = s /\ b.dst = n /\ body' = body \ {b}
                        /\ IF c.tag \in DOMAIN allocation_return[n]
                           THEN Deliver(n, allocation_return[n][c.tag], b.m) /\ UNCHANGED main
                           ELSE main' = [main EXCEPT ![n].at = "dead"] /\ UNCHANGED inbox
  BY <1>1 DEF ReceiveAllocated
<1>4. b.tag = c.tag
  <2>1. Owed(c) /\ CommandInv
    BY <1>2 DEF Owed, AInv, BaseInv
  <2>2. Belongs(c, b)
    BY <1>1, <1>2, <1>3, <2>1, Announced
  <2> QED BY <2>2 DEF Belongs
<1>5. CommandInv'
  BY ReceiveAnswerCommand DEF AInv, BaseInv
<1>6. OwnersGrow
  BY <1>2, OwnersSame
<1>7. CASE c.tag \in DOMAIN allocation_return[n]
  <2>1. PICK g, a : g = allocation_return[n][c.tag] /\ a = b.m
    OBVIOUS
  <2>2. Deliver(n, g, a) /\ UNCHANGED main
    BY <1>3, <1>7, <2>1
  <2>3. LeadsOn
    BY <1>2, <2>2, LeadsStay
  <2>4. BaseInv'
    <3>1. IdsInv'
      BY <1>2, <2>2, IdsStay DEF AInv, BaseInv
    <3>2. KnownInv'
      BY <1>3, <2>2, <2>3, KnownStays DEF AInv, BaseInv
    <3> QED BY <1>5, <3>1, <3>2 DEF BaseInv
  <2>5. CASE overlap
    BY <1>2, <2>4, <2>5 DEF AInv
  <2>6. CASE ~overlap
    <3>1. AllocInv /\ TalkInv /\ ConnInv /\ PendInv /\ KnownInv
      BY <2>6 DEF AInv, WayInv, BaseInv
    <3>2. PICK k : k = "sent"
      OBVIOUS
    <3>3. Token(k, b, n, g)
      <4>1. Leads(n, b.tag, g)
        BY <1>4, <1>7, <2>1 DEF Leads
      <4> QED BY <1>3, <3>2, <4>1 DEF Token, Carries
    <3>4. a \in Msg /\ a.op = "address" /\ a.node = b.src
      BY <1>3, <2>1 DEF IInv, TypeInv, BodyType, OInv, EndsInv, AddressEnds
    <3>5. /\ k = "sent" /\ b.kind = "address"
          /\ \A y \in Nodes : main'[y].at = "exec" => main'[y] = main[y] /\ (k = "exec" => y # b)
          /\ \A y \in body' : y \in body /\ (k = "sent" => y # b)
      BY <1>3, <2>2, <3>2
    <3>6. WayInv'
      BY <1>2, <2>2, <2>3, <3>1, <3>3, <3>4, <3>5, AddressDelivered
    <3> QED BY <2>4, <3>6 DEF AInv
  <2> QED BY <2>5, <2>6
<1>8. CASE c.tag \notin DOMAIN allocation_return[n]
  <2>1. main' = [main EXCEPT ![n].at = "dead"] /\ UNCHANGED inbox
    BY <1>3, <1>8
  <2>2. LeadsOn
    BY <1>2, <2>1, LeadsDead
  <2>3. \A k \in Nodes : main'[k].at = "exec" => main'[k] = main[k]
    <3>1. main \in [Nodes -> MainType]
      BY DEF IInv, TypeInv
    <3> QED BY <2>1, <3>1 DEF MainType
  <2>4. BaseInv'
    <3>1. IdsInv'
      BY <1>2, <2>3, IdsStay DEF AInv, BaseInv
    <3>2. KnownInv'
      BY <1>3, <2>2, <2>3, KnownStays DEF AInv, BaseInv
    <3> QED BY <1>5, <3>1, <3>2 DEF BaseInv
  <2>5. CASE overlap
    BY <1>2, <2>4, <2>5 DEF AInv
  <2>6. CASE ~overlap
    <3>1. AllocInv /\ TalkInv /\ ConnInv /\ PendInv /\ KnownInv
      BY <2>6 DEF AInv, WayInv, BaseInv
    <3>2. AllocInv'
      BY <1>2, <1>3, <1>6, <2>1, <2>2, <2>3, <3>1, AllocKept
    <3>3. TalkInv'
      BY <1>2, <1>6, <2>1, <3>1, TalksSame
    <3>4. BareOn
      BY <1>2 DEF BareOn, Bare
    <3>5. ConnInv' /\ PendInv'
      BY <1>2, <1>3, <1>6, <2>1, <3>1, <3>4, RequestsKept
    <3> QED BY <2>4, <3>2, <3>3, <3>5 DEF AInv, WayInv
  <2> QED BY <2>5, <2>6
<1> QED BY <1>7, <1>8

-----------------------------------------------------------------------------
(* Steps of requests and answers. *)

\* A connection on which an answer is owed stays empty.
LEMMA ServedEmpty ==
    ASSUME IInv, OInv, OInv', IInv', ConnInv, OwnersGrow, deployment' = deployment, BareOn, NEW r \in serving, r.m.sync
    PROVE  ipc'[r.node][r.fd] = <<>>
<1>1. r.fd \in DOMAIN outgoingconnection[r.node] /\ ipc[r.node][r.fd] = <<>>
  BY DEF ConnInv
<1>2. r.node \in Nodes /\ Inner(r.node, r.fd)
  BY DEF OInv, EndsInv, ConnEnds
<1>3. r.fd \in DOMAIN ipc'[r.node] /\ owner'[r.node][r.fd] = None /\ r.fd # 1
  BY <1>2, InnerOn
<1>4. r.fd \in DOMAIN ipc[r.node]
  BY <1>2, Sockets DEF OInv, Inner
<1> QED BY <1>1, <1>2, <1>3, <1>4 DEF BareOn, Bare

\* The clients that wait do as long as nothing changes where they are.
LEMMA HeldSame ==
    ASSUME IInv, OInv, UNCHANGED <<deployment, client, inbox, incomingtag>>,
           \A k \in Nodes : \A f \in DOMAIN owner[k] : owner[k][f] \in Clients \ Grouping => ipc'[k][f] = ipc[k][f],
           NEW h, NEW t, NEW w, NEW k, Held(h, t, w, k)
    PROVE  Held(h, t, w, k)'
<1>1. PICK f : f = client[w].fd
  OBVIOUS
<1>2. h \in Nodes /\ f \in DOMAIN owner[h] /\ owner[h][f] = w
  BY <1>1, HeldEnd
<1>3. w \in Clients \ Grouping
  BY DEF Held
<1>4. ipc'[h][f] = ipc[h][f]
  BY <1>2, <1>3
<1> QED BY <1>1, <1>4, HeldOn

LEMMA RequestFromMpiA ==
    ASSUME IInv, OInv, IInv', OInv', AInv, NEW n \in Nodes, NEW fd, RequestFromMpi(n, fd)
    PROVE  AInv'
<1>1. PICK b, out : \E new \in BOOLEAN : Hands(n, fd, b, new, out) /\ (Dies(n) \/ Passes(n, fd, b, new, out))
  BY RequestShape DEF OInv
<1>2. PICK new \in BOOLEAN : Hands(n, fd, b, new, out) /\ (Dies(n) \/ Passes(n, fd, b, new, out))
  BY <1>1
<1>3. /\ Takes(n, fd, {"request"}) /\ b \in body /\ b.kind = "request" /\ body' = body \ {b}
      /\ UNCHANGED <<deployment, cmd, client, inbox, objects, incomingconnection, incomingtag, allocation_return>>
      /\ UNCHANGED <<next_tag, next_object_id, allocation_id>>
  BY <1>2 DEF Hands, counters
<1>4. PICK ops : ops = {"request"} /\ Takes(n, fd, ops)
  BY <1>3
<1>5. owner[n][fd] = None
  BY <1>4, WakeInner
<1>6. LeadsOn
  <2>1. CASE Dies(n)
    BY <1>3, <2>1, LeadsDead DEF Dies
  <2>2. CASE Passes(n, fd, b, new, out)
    <3>1. main' = main
      BY <2>2 DEF Passes
    <3> QED BY <1>3, <3>1, LeadsStay
  <2> QED BY <1>2, <2>1, <2>2
<1>7. \A k \in Nodes : main'[k].at = "exec" => main'[k] = main[k]
  <2>1. main \in [Nodes -> MainType]
    BY DEF IInv, TypeInv
  <2>2. CASE Dies(n)
    BY <2>1, <2>2 DEF Dies, MainType
  <2>3. CASE Passes(n, fd, b, new, out)
    BY <2>3 DEF Passes
  <2> QED BY <1>2, <2>2, <2>3
<1>8. BaseInv'
  BY <1>3, <1>6, <1>7, BaseStays DEF AInv
<1>9. overlap => overlap'
  BY <1>2 DEF Dies, Passes
<1>10. CASE overlap'
  BY <1>8, <1>10 DEF AInv
<1>11. CASE ~overlap' /\ Dies(n)
  <2>1. AllocInv /\ TalkInv /\ ConnInv /\ PendInv /\ KnownInv
    BY <1>9, <1>11 DEF AInv, WayInv, BaseInv
  <2>2. UNCHANGED <<ipc, owner, serving, outgoingconnection>>
    BY <1>11 DEF Dies, local
  <2>3. OwnersGrow
    BY <2>2, OwnersSame
  <2>4. AllocInv'
    BY <1>3, <1>6, <1>7, <2>1, <2>2, <2>3, AllocKept
  <2>5. TalkInv'
    BY <1>3, <2>1, <2>2, <2>3, TalksSame
  <2>6. BareOn
    BY <2>2 DEF BareOn, Bare
  <2>7. ConnInv' /\ PendInv'
    BY <1>3, <2>1, <2>2, <2>3, <2>6, RequestsKept
  <2> QED BY <1>8, <2>4, <2>5, <2>7 DEF AInv, WayInv
<1>12. CASE ~overlap' /\ Passes(n, fd, b, new, out)
  <2>1. AllocInv /\ TalkInv /\ ConnInv /\ PendInv /\ KnownInv
    BY <1>9, <1>12 DEF AInv, WayInv, BaseInv
  <2>2. PICK q, e : q = [node |-> n, id |-> b.id, fd |-> out, m |-> b.m] /\ e = [tag |-> b.tag, src |-> b.src]
    OBVIOUS
  <2>3. /\ serving' = serving \cup {q} /\ ~\E r \in serving : r.node = n /\ r.fd = out /\ r.m.sync
        /\ ~new => ipc[n][out] = <<>>
        /\ \A k \in Nodes : \A f \in DOMAIN ipc'[k] : f \in DOMAIN ipc[k] \/ ipc'[k][f] = <<>>
    <3>1. b.id # 0
      BY <1>3, <2>1 DEF ConnInv
    <3> QED BY <1>12, <2>2, <3>1 DEF Passes
  <2>4. /\ \A k \in Nodes : \A f \in DOMAIN ipc[k] : f \in DOMAIN ipc'[k] /\ owner'[k][f] = owner[k][f]
        /\ ipc'[n][fd] = Tail(ipc[n][fd])
        /\ \A k \in Nodes : \A f \in DOMAIN ipc[k] : k # n \/ f # fd => ipc'[k][f] = ipc[k][f]
        /\ \A k \in Nodes : \A f \in DOMAIN ipc'[k] : f \in DOMAIN ipc[k] \/ owner'[k][f] = None
    BY <1>12 DEF Passes, Opening
  <2>5. OwnersGrow /\ \A k \in Nodes : DOMAIN owner'[k] = DOMAIN ipc'[k] /\ DOMAIN owner[k] = DOMAIN ipc[k]
    <3>1. OwnersGrow /\ \A k \in Nodes : DOMAIN owner'[k] = DOMAIN ipc'[k]
      BY <1>12, OpeningOwners DEF Passes
    <3> QED BY <3>1, Sockets DEF OInv
  <2>6. Inner(n, out)' /\ (~new => Inner(n, out))
    BY <1>2, <1>12, PassesTo
  <2>7. /\ outgoingconnection'[n] = Put(outgoingconnection[n], out, e)
        /\ \A k \in Nodes : k # n => outgoingconnection'[k] = outgoingconnection[k]
    <3>1. outgoingconnection' = [outgoingconnection EXCEPT ![n] = Put(@, out, e)]
      BY <1>12, <2>2 DEF Passes
    <3>2. outgoingconnection = [k \in Nodes |-> outgoingconnection[k]]
      BY DEF IInv, MapInv
    <3> QED BY <3>1, <3>2
  <2>8. /\ out \in DOMAIN outgoingconnection'[n] /\ outgoingconnection'[n][out] = e
        /\ \A k \in Nodes : DOMAIN outgoingconnection[k] \subseteq DOMAIN outgoingconnection'[k]
        /\ \A k \in Nodes : \A f : k # n \/ f # out =>
             /\ f \in DOMAIN outgoingconnection'[k] => f \in DOMAIN outgoingconnection[k]
             /\ f \in DOMAIN outgoingconnection[k] => outgoingconnection'[k][f] = outgoingconnection[k][f]
    <3>1. PICK p : p = outgoingconnection[n]
      OBVIOUS
    <3>2. /\ DOMAIN Put(p, out, e) = DOMAIN p \cup {out} /\ Put(p, out, e)[out] = e
          /\ \A f \in DOMAIN p : f # out => Put(p, out, e)[f] = p[f]
      BY DEF Put
    <3> QED BY <2>7, <3>1, <3>2
  <2>9. ipc'[n][out] = <<>>
    <3>1. CASE new
      <4>1. out \in DOMAIN ipc'[n] \ DOMAIN ipc[n]
        BY <1>12, <3>1 DEF Passes
      <4> QED BY <2>3, <4>1
    <3>2. CASE ~new
      <4>1. ipc[n][out] = <<>> /\ out \in DOMAIN ipc[n] /\ ipc[n][fd] # <<>>
        BY <1>3, <2>3, <2>5, <2>6, <3>2 DEF Inner, Takes
      <4>2. out # fd
        BY <4>1
      <4> QED BY <2>4, <4>1, <4>2
    <3> QED BY <3>1, <3>2
  <2>10. BareOn
    <3>1. ops \cap {"call", "answer"} = {}
      BY <1>4
    <3>2. \A m \in ToSet(ipc'[n][fd]) : m.op \notin {"call", "answer"}
      BY <1>4, <1>5, <2>1, <2>4, <3>1, WakeTaken
    <3>3. ASSUME NEW k \in Nodes, NEW f \in DOMAIN ipc'[k] PROVE Bare(k, f)
      <4>1. CASE f \notin DOMAIN ipc[k]
        <5>1. \A m : m \notin ToSet(<<>>)
          BY DEF ToSet
        <5>2. ipc'[k][f] = <<>>
          BY <2>3, <4>1
        <5> QED BY <4>1, <5>1, <5>2 DEF Bare
      <4>2. CASE f \in DOMAIN ipc[k] /\ (k # n \/ f # fd)
        BY <2>4, <4>2 DEF Bare
      <4>3. CASE k = n /\ f = fd
        BY <1>3, <3>2, <4>3 DEF Bare, Takes
      <4> QED BY <4>1, <4>2, <4>3
    <3> QED BY <3>3 DEF BareOn
  <2>11. \A k \in Nodes : \A f \in DOMAIN owner[k] : owner[k][f] \in Clients \ Grouping => ipc'[k][f] = ipc[k][f]
    BY <1>5, <2>4, <2>5, Sockets DEF OInv
  <2>12. AllocInv'
    <3>1. ASSUME NEW k \in Nodes, NEW f \in DOMAIN ipc'[k], NEW m \in ToSet(ipc'[k][f])
          PROVE  f \in DOMAIN ipc[k] /\ m \in ToSet(ipc[k][f])
      <4>1. \A x : x \notin ToSet(<<>>)
        BY DEF ToSet
      <4>2. f \in DOMAIN ipc[k]
        BY <2>3, <4>1
      <4>3. CASE k # n \/ f # fd
        BY <2>4, <4>2, <4>3
      <4>4. CASE k = n /\ f = fd
        <5>1. PICK s : s = ipc[n][fd]
          OBVIOUS
        <5>2. s \in Seq(Msg) /\ s # <<>>
          BY <1>3, <5>1 DEF Takes, IInv, TypeInv, SockType
        <5>3. ToSet(Tail(s)) \subseteq ToSet(s)
          BY <5>2, TailSet
        <5> QED BY <2>4, <4>2, <4>4, <5>1, <5>3
      <4> QED BY <4>3, <4>4
    <3> QED BY <1>3, <1>6, <1>7, <2>1, <2>5, <3>1, AllocKept
  <2>13. TalkInv'
    BY <1>3, <2>1, <2>4, <2>5, <2>11, TalksSame
  <2>14. ConnInv'
    <3>1. ASSUME NEW r \in serving', r.m.sync
          PROVE  /\ r.fd \in DOMAIN outgoingconnection'[r.node] /\ ipc'[r.node][r.fd] = <<>>
                 /\ \A u \in serving' : u.m.sync /\ u.node = r.node /\ u.fd = r.fd => u = r
      <4>1. q.node = n /\ q.fd = out
        BY <2>2
      <4>2. CASE r \in serving
        <5>1. r.node \in Nodes /\ r.fd \in DOMAIN outgoingconnection[r.node]
          BY <2>1, <3>1, <4>2 DEF ConnInv, OInv, EndsInv, ConnEnds
        <5>2. ipc'[r.node][r.fd] = <<>>
          BY <1>3, <2>1, <2>5, <2>10, <3>1, <4>2, ServedEmpty
        <5>3. \A u \in serving' : u.m.sync /\ u.node = r.node /\ u.fd = r.fd => u = r
          BY <2>1, <2>3, <3>1, <4>1, <4>2 DEF ConnInv
        <5> QED BY <2>8, <5>1, <5>2, <5>3
      <4>3. CASE r = q
        BY <2>3, <2>8, <2>9, <4>1, <4>3
      <4> QED BY <2>3, <4>2, <4>3
    <3>2. ASSUME NEW k \in Nodes, NEW f \in DOMAIN ipc'[k], owner'[k][f] = None, NEW m \in ToSet(ipc'[k][f]), m.op \in {"call", "answer"}
          PROVE  f \in DOMAIN outgoingconnection'[k] /\ Len(ipc'[k][f]) = 1
      <4>1. f \in DOMAIN ipc[k] /\ ipc'[k][f] = ipc[k][f]
        BY <2>10, <3>2 DEF BareOn, Bare
      <4>2. owner[k][f] = None
        BY <2>4, <3>2, <4>1
      <4>3. f \in DOMAIN outgoingconnection[k] /\ Len(ipc[k][f]) = 1
        BY <2>1, <3>2, <4>1, <4>2 DEF ConnInv
      <4> QED BY <2>8, <4>1, <4>3
    <3>3. ASSUME NEW a \in body' PROVE (a.kind = "request" => a.id # 0) /\ (a.kind = "response" => a.m.op # "address")
      BY <1>3, <2>1 DEF ConnInv
    <3> QED BY <3>1, <3>2, <3>3 DEF ConnInv
  <2>15. ASSUME NEW h, NEW t, NEW w, NEW k, Pends(h, t, w, k)' PROVE Pends(h, t, w, k)
    <3>1. CASE \E a \in body' : Sends(a, h, t) /\ Is(a.m, w, k)
      BY <1>3, <3>1 DEF Pends
    <3>2. CASE \E r \in serving' : r.m.sync /\ Entry(r.node, r.fd, h, t)' /\ Is(r.m, w, k)
      <4>1. PICK r \in serving' : r.m.sync /\ Entry(r.node, r.fd, h, t)' /\ Is(r.m, w, k)
        BY <3>2
      <4>2. CASE r \in serving
        <5>1. (r.node # n \/ r.fd # out) /\ r.node \in Nodes
          BY <2>3, <4>1, <4>2 DEF OInv, EndsInv, ConnEnds
        <5>2. Entry(r.node, r.fd, h, t)
          BY <2>8, <4>1, <5>1 DEF Entry
        <5> QED BY <4>1, <4>2, <5>2 DEF Pends
      <4>3. CASE r = q
        <5>1. h = b.src /\ t = b.tag /\ r.m = b.m
          BY <2>2, <2>8, <4>1, <4>3 DEF Entry
        <5>2. Sends(b, h, t)
          BY <1>3, <4>1, <5>1 DEF Sends
        <5> QED BY <1>3, <4>1, <5>1, <5>2 DEF Pends
      <4> QED BY <2>3, <4>2, <4>3
    <3>3. CASE \E i \in Nodes : \E f : Entry(i, f, h, t)' /\ \E m \in ToSet(ipc'[i][f]) : m.op \in {"call", "answer"} /\ Is(m, w, k)
      <4>1. PICK i \in Nodes : \E f : Entry(i, f, h, t)' /\ \E m \in ToSet(ipc'[i][f]) : m.op \in {"call", "answer"} /\ Is(m, w, k)
        BY <3>3
      <4>2. PICK f : Entry(i, f, h, t)' /\ \E m \in ToSet(ipc'[i][f]) : m.op \in {"call", "answer"} /\ Is(m, w, k)
        BY <4>1
      <4>3. \A x : x \notin ToSet(<<>>)
        BY DEF ToSet
      <4>4. i # n \/ f # out
        BY <2>9, <4>2, <4>3
      <4>5. Entry(i, f, h, t)
        BY <2>8, <4>2, <4>4 DEF Entry
      <4>6. Inner(i, f)
        BY <4>5 DEF Entry, OInv, EndsInv, ConnEnds
      <4>7. f \in DOMAIN ipc'[i] /\ owner'[i][f] = None
        BY <1>3, <2>5, <4>6, InnerOn
      <4>8. ipc'[i][f] = ipc[i][f]
        BY <2>10, <4>2, <4>7 DEF BareOn, Bare
      <4> QED BY <4>2, <4>5, <4>8 DEF Pends
    <3>4. \/ \E a \in body' : Sends(a, h, t) /\ Is(a.m, w, k)
          \/ \E r \in serving' : r.m.sync /\ Entry(r.node, r.fd, h, t)' /\ Is(r.m, w, k)
          \/ \E i \in Nodes : \E f : Entry(i, f, h, t)' /\ \E m \in ToSet(ipc'[i][f]) : m.op \in {"call", "answer"} /\ Is(m, w, k)
      BY <2>15, Zenon DEF Pends, Sends, Is
    <3> QED BY <3>1, <3>2, <3>3, <3>4
  <2>16. PendInv'
    <3>1. \A h, t, w, k : Held(h, t, w, k) => Held(h, t, w, k)'
      BY <1>3, <2>11, HeldSame
    <3> QED BY <1>3, <2>1, <2>15, <3>1, PendsStay
  <2> QED BY <1>8, <2>12, <2>13, <2>14, <2>16 DEF AInv, WayInv
<1> QED BY <1>2, <1>10, <1>11, <1>12

\* The main thread sends a request or an answer.
LEMMA SendsOn ==
    ASSUME IInv, IdsInv, KnownInv, CommandInv', NEW n \in Nodes, NEW fd, NEW ops, Takes(n, fd, ops),
           main'[n].at = "sent", \A k \in Nodes : k # n => main'[k] = main[k],
           \A a \in body' : a \in body \/ a.kind \in {"request", "response"},
           UNCHANGED <<allocation_return, allocation_id, objects, next_object_id>>
    PROVE  /\ LeadsOn /\ BaseInv' /\ \A k \in Nodes : main'[k].at = "exec" => main'[k] = main[k]
           /\ \A a \in body' : a.kind \in {"alloc", "address"} => a \in body
<1>1. main[n].at = "poll"
  BY DEF Takes
<1>2. LeadsOn
  BY <1>1, LeadsTurn
<1>3. \A k \in Nodes : main'[k].at = "exec" => main'[k] = main[k]
  BY <1>1
<1>4. \A a \in body' : a.kind \in {"alloc", "address"} => a \in body
  OBVIOUS
<1>5. IdsInv'
  BY <1>3, IdsStay
<1>6. KnownInv'
  BY <1>2, <1>3, <1>4, KnownStays
<1> QED BY <1>2, <1>3, <1>4, <1>5, <1>6 DEF BaseInv

LEMMA RedirectResponseA ==
    ASSUME IInv, OInv, IInv', OInv', AInv, NEW n \in Nodes, NEW fd, RedirectResponse(n, fd)
    PROVE  AInv'
<1>1. PICK m, to : m = Head(ipc[n][fd]) /\ to = outgoingconnection[n][fd]
  OBVIOUS
<1>2. PICK b, ops : b = Body("response", n, to.src, to.tag, 0, m) /\ ops = {"call", "answer"}
  OBVIOUS
<1>3. /\ Takes(n, fd, ops) /\ ipc' = Taken(n, fd) /\ main' = [main EXCEPT ![n].at = "sent"]
      /\ fd \in DOMAIN outgoingconnection[n] /\ outgoingconnection' = [outgoingconnection EXCEPT ![n] = Erase(@, fd)]
      /\ body' = body \cup {b}
      /\ UNCHANGED <<deployment, overlap, inbox, serving, owner, client, objects>>
      /\ UNCHANGED <<incomingconnection, incomingtag, allocation_return, next_tag, allocation_id, next_object_id>>
  BY <1>1, <1>2 DEF RedirectResponse, counters
<1>4. b.kind = "response" /\ b.dst = to.src /\ b.tag = to.tag /\ b.m = m
  BY <1>2 DEF Body
<1>5. CommandInv' /\ CommandInv /\ IdsInv /\ KnownInv
  BY RedirectResponseCommand DEF AInv, BaseInv
<1>6. /\ LeadsOn /\ BaseInv' /\ (\A k \in Nodes : main'[k].at = "exec" => main'[k] = main[k])
      /\ \A a \in body' : a.kind \in {"alloc", "address"} => a \in body
  <2>1. main'[n].at = "sent" /\ \A k \in Nodes : k # n => main'[k] = main[k]
    BY <1>3 DEF IInv, TypeInv, MainType
  <2>2. \A a \in body' : a \in body \/ a.kind \in {"request", "response"}
    BY <1>3, <1>4
  <2> QED BY <1>3, <1>5, <2>1, <2>2, SendsOn
<1>7. CASE overlap
  BY <1>3, <1>6, <1>7 DEF AInv
<1>8. CASE ~overlap
  <2>1. AllocInv /\ TalkInv /\ ConnInv /\ PendInv /\ KnownInv
    BY <1>8 DEF AInv, WayInv, BaseInv
  <2>2. OwnersGrow
    BY <1>3, OwnersSame
  <2>3. owner[n][fd] = None
    BY <1>3 DEF OInv, EndsInv, ConnEnds, Inner
  <2>4. fd \in DOMAIN ipc[n] /\ m \in ToSet(ipc[n][fd]) /\ m.op \in {"call", "answer"}
    BY <1>1, <1>2, <1>3, TakenHead
  <2>5. /\ ipc[n][fd] \in Seq(Msg) /\ (\A k \in Nodes : DOMAIN ipc'[k] = DOMAIN ipc[k]) /\ ipc'[n][fd] = Tail(ipc[n][fd])
        /\ \A k \in Nodes : \A f \in DOMAIN ipc[k] : k # n \/ f # fd => ipc'[k][f] = ipc[k][f]
    BY <1>3, TakeShape
  <2>6. ipc'[n][fd] = <<>> /\ ipc[n][fd] # <<>>
    <3>1. Len(ipc[n][fd]) = 1 /\ ipc[n][fd] # <<>>
      BY <1>3, <2>1, <2>3, <2>4 DEF ConnInv, Takes
    <3>2. PICK s : s = ipc[n][fd]
      OBVIOUS
    <3>3. s \in Seq(Msg) /\ s # <<>> /\ Len(s) = 1
      <4>1. ipc[n][fd] \in Seq(Msg)
        BY <2>5
      <4> QED BY <3>1, <3>2, <4>1
    <3>4. Len(s) <= 1
      BY <3>3
    <3>5. Tail(s) = <<>>
      BY <3>3, <3>4, TailSync
    <3> QED BY <2>5, <3>1, <3>2, <3>5
  <2>7. /\ fd \notin DOMAIN outgoingconnection'[n]
        /\ \A k \in Nodes : \A f : k # n \/ f # fd =>
             /\ f \in DOMAIN outgoingconnection'[k] <=> f \in DOMAIN outgoingconnection[k]
             /\ f \in DOMAIN outgoingconnection[k] => outgoingconnection'[k][f] = outgoingconnection[k][f]
    <3>1. outgoingconnection = [k \in Nodes |-> outgoingconnection[k]]
      BY DEF IInv, MapInv
    <3>2. \A k \in Nodes : outgoingconnection'[k] = IF k = n THEN Erase(outgoingconnection[n], fd) ELSE outgoingconnection[k]
      BY <1>3, <3>1
    <3> QED BY <3>2 DEF Erase
  <2>8. \A x : x \notin ToSet(<<>>)
    BY DEF ToSet
  <2>9. \A k \in Nodes : \A f \in DOMAIN owner[k] : owner[k][f] \in Clients \ Grouping => ipc'[k][f] = ipc[k][f]
    BY <2>3, <2>5, Sockets DEF OInv
  <2>10. AllocInv'
    <3>1. \A k \in Nodes : \A f \in DOMAIN ipc'[k] : \A x \in ToSet(ipc'[k][f]) : f \in DOMAIN ipc[k] /\ x \in ToSet(ipc[k][f])
      BY <1>3, TakenSpeech
    <3> QED BY <1>3, <1>6, <2>1, <2>2, <3>1, AllocKept
  <2>11. TalkInv'
    BY <1>3, <2>1, <2>2, <2>9, TalksSame
  <2>12. ConnInv'
    <3>1. ASSUME NEW r \in serving', r.m.sync
          PROVE  /\ r.fd \in DOMAIN outgoingconnection'[r.node] /\ ipc'[r.node][r.fd] = <<>>
                 /\ \A u \in serving' : u.m.sync /\ u.node = r.node /\ u.fd = r.fd => u = r
      <4>1. /\ r.fd \in DOMAIN outgoingconnection[r.node] /\ ipc[r.node][r.fd] = <<>> /\ r \in serving
            /\ \A u \in serving' : u.m.sync /\ u.node = r.node /\ u.fd = r.fd => u = r
        BY <1>3, <2>1, <3>1 DEF ConnInv
      <4>2. r.node \in Nodes /\ r.fd \in DOMAIN ipc[r.node]
        BY <4>1, Sockets DEF OInv, EndsInv, ConnEnds, Inner
      <4>3. r.node # n \/ r.fd # fd
        BY <2>6, <4>1
      <4> QED BY <2>5, <2>7, <4>1, <4>2, <4>3
    <3>2. ASSUME NEW k \in Nodes, NEW f \in DOMAIN ipc'[k], owner'[k][f] = None, NEW x \in ToSet(ipc'[k][f]), x.op \in {"call", "answer"}
          PROVE  f \in DOMAIN outgoingconnection'[k] /\ Len(ipc'[k][f]) = 1
      <4>1. k # n \/ f # fd
        BY <2>6, <2>8, <3>2
      <4>2. f \in DOMAIN ipc[k] /\ ipc'[k][f] = ipc[k][f] /\ owner[k][f] = None
        BY <1>3, <2>5, <3>2, <4>1
      <4>3. f \in DOMAIN outgoingconnection[k] /\ Len(ipc[k][f]) = 1
        BY <2>1, <3>2, <4>2 DEF ConnInv
      <4> QED BY <2>7, <4>1, <4>2, <4>3
    <3>3. ASSUME NEW a \in body' PROVE (a.kind = "request" => a.id # 0) /\ (a.kind = "response" => a.m.op # "address")
      BY <1>3, <1>4, <2>1, <2>4 DEF ConnInv
    <3> QED BY <3>1, <3>2, <3>3 DEF ConnInv
  <2>13. ASSUME NEW h, NEW t, NEW w, NEW k, Pends(h, t, w, k)' PROVE Pends(h, t, w, k)
    <3>1. CASE \E a \in body' : Sends(a, h, t) /\ Is(a.m, w, k)
      <4>1. PICK a \in body' : Sends(a, h, t) /\ Is(a.m, w, k)
        BY <3>1
      <4>2. CASE a \in body
        BY <4>1, <4>2 DEF Pends
      <4>3. CASE a = b
        <5>1. Entry(n, fd, h, t)
          BY <1>1, <1>3, <1>4, <4>1, <4>3 DEF Sends, Entry
        <5> QED BY <1>4, <2>4, <4>1, <4>3, <5>1 DEF Pends
      <4> QED BY <1>3, <4>2, <4>3
    <3>2. CASE \E r \in serving' : r.m.sync /\ Entry(r.node, r.fd, h, t)' /\ Is(r.m, w, k)
      <4>1. PICK r \in serving' : r.m.sync /\ Entry(r.node, r.fd, h, t)' /\ Is(r.m, w, k)
        BY <3>2
      <4>2. r \in serving /\ r.node \in Nodes
        BY <1>3 DEF OInv, EndsInv, ConnEnds
      <4>3. Entry(r.node, r.fd, h, t)
        BY <2>7, <4>1, <4>2 DEF Entry
      <4> QED BY <4>1, <4>2, <4>3 DEF Pends
    <3>3. CASE \E i \in Nodes : \E f : Entry(i, f, h, t)' /\ \E x \in ToSet(ipc'[i][f]) : x.op \in {"call", "answer"} /\ Is(x, w, k)
      <4>1. PICK i \in Nodes : \E f : Entry(i, f, h, t)' /\ \E x \in ToSet(ipc'[i][f]) : x.op \in {"call", "answer"} /\ Is(x, w, k)
        BY <3>3
      <4>2. PICK f : Entry(i, f, h, t)' /\ \E x \in ToSet(ipc'[i][f]) : x.op \in {"call", "answer"} /\ Is(x, w, k)
        BY <4>1
      <4>3. i # n \/ f # fd
        BY <2>6, <2>8, <4>2
      <4>4. Entry(i, f, h, t)
        BY <2>7, <4>2, <4>3 DEF Entry
      <4>5. f \in DOMAIN ipc[i]
        BY <4>4, Sockets DEF Entry, OInv, EndsInv, ConnEnds, Inner
      <4>6. ipc'[i][f] = ipc[i][f]
        BY <2>5, <4>3, <4>5
      <4> QED BY <4>2, <4>4, <4>6 DEF Pends
    <3>4. \/ \E a \in body' : Sends(a, h, t) /\ Is(a.m, w, k)
          \/ \E r \in serving' : r.m.sync /\ Entry(r.node, r.fd, h, t)' /\ Is(r.m, w, k)
          \/ \E i \in Nodes : \E f : Entry(i, f, h, t)' /\ \E x \in ToSet(ipc'[i][f]) : x.op \in {"call", "answer"} /\ Is(x, w, k)
      BY <2>13, Zenon DEF Pends, Sends, Is
    <3> QED BY <3>1, <3>2, <3>3, <3>4
  <2>14. PendInv'
    <3>1. \A h, t, w, k : Held(h, t, w, k) => Held(h, t, w, k)'
      BY <1>3, <2>9, HeldSame
    <3> QED BY <1>3, <2>1, <2>13, <3>1, PendsStay
  <2> QED BY <1>6, <2>10, <2>11, <2>12, <2>14 DEF AInv, WayInv
<1> QED BY <1>7, <1>8

LEMMA RedirectRequestA ==
    ASSUME IInv, OInv, IInv', OInv', AInv, NEW n \in Nodes, NEW fd, RedirectRequest(n, fd)
    PROVE  AInv'
<1>1. PICK m, to, g : /\ m = Head(ipc[n][fd]) /\ g = next_tag[n]
                      /\ to = IF fd \in DOMAIN incomingconnection[n] THEN incomingconnection[n][fd] ELSE [node |-> 0, id |-> 0]
  OBVIOUS
<1>2. PICK b, ops : b = Body("request", n, to.node, g, to.id, m) /\ ops = {"call", "answer"}
  OBVIOUS
<1>3. /\ Takes(n, fd, ops) /\ ipc' = Taken(n, fd) /\ main' = [main EXCEPT ![n].at = "sent"]
      /\ fd \notin DOMAIN outgoingconnection[n] /\ fd \notin object_group[n]
      /\ incomingtag' = [incomingtag EXCEPT ![n] = Put(@, g, fd)]
      /\ next_tag' = [next_tag EXCEPT ![n] = @ + 1]
      /\ body' = body \cup {b}
      /\ UNCHANGED <<deployment, overlap, inbox, serving, owner, client, objects>>
      /\ UNCHANGED <<incomingconnection, outgoingconnection, allocation_return, allocation_id, next_object_id>>
  BY <1>1, <1>2 DEF RedirectRequest
<1>4. b.kind = "request" /\ b.src = n /\ b.tag = g /\ b.id = to.id /\ b.m = m
  BY <1>2 DEF Body
<1>5. CommandInv' /\ CommandInv /\ IdsInv /\ KnownInv
  BY RedirectRequestCommand DEF AInv, BaseInv
<1>6. /\ LeadsOn /\ BaseInv' /\ (\A k \in Nodes : main'[k].at = "exec" => main'[k] = main[k])
      /\ \A a \in body' : a.kind \in {"alloc", "address"} => a \in body
  <2>1. main'[n].at = "sent" /\ \A k \in Nodes : k # n => main'[k] = main[k]
    BY <1>3 DEF IInv, TypeInv, MainType
  <2>2. \A a \in body' : a \in body \/ a.kind \in {"request", "response"}
    BY <1>3, <1>4
  <2> QED BY <1>3, <1>5, <2>1, <2>2, SendsOn
<1>7. CASE overlap
  BY <1>3, <1>6, <1>7 DEF AInv
<1>8. CASE ~overlap
  <2>1. AllocInv /\ TalkInv /\ ConnInv /\ PendInv /\ KnownInv
    BY <1>8 DEF AInv, WayInv, BaseInv
  <2>2. OwnersGrow
    BY <1>3, OwnersSame
  <2>3. PICK c : c = owner[n][fd]
    OBVIOUS
  <2>4. fd \in DOMAIN ipc[n] /\ m \in ToSet(ipc[n][fd]) /\ m.op \in {"call", "answer"}
    BY <1>1, <1>2, <1>3, TakenHead
  <2>5. c \in Clients \ Grouping /\ c # None /\ m.op = "call" /\ m.who = c
    <3>1. Takes(n, fd, {"call", "answer"})
      BY <1>2, <1>3
    <3>2. fd \in DOMAIN owner[n] /\ c \notin Grouping
      BY <1>3, <2>3, <3>1, Requests
    <3>3. c # None
      BY <1>3, <2>1, <2>3, <2>4 DEF ConnInv
    <3>4. c \in Clients \cup {None}
      BY <2>3, <3>2, Sockets DEF OInv
    <3>5. m.op \in Voice(c) /\ m.who = c
      BY <2>3, <2>4, <3>3 DEF OInv, SpeechInv
    <3> QED BY <2>4, <3>2, <3>3, <3>4, <3>5 DEF Voice
  <2>6. Speaker(c, n, fd)
    BY <1>3, <2>1, <2>3, <2>5, Speaks
  <2>7. /\ client[c].id # 0 /\ fd \in DOMAIN incomingconnection[n]
        /\ Talks(c, n, client[c], Tail(ipc[n][fd]), inbox[c], fd \in DOMAIN incomingconnection[n])
        /\ SyncCall(m) => client[c].at = "wait" /\ m.n = client[c].n /\ inbox[c] = <<>> /\ NoSync(Tail(ipc[n][fd]))
    <3>1. PICK s, j, v, q : /\ s = ipc[n][fd] /\ j = (fd \in DOMAIN incomingconnection[n]) /\ v = client[c] /\ q = inbox[c]
      OBVIOUS
    <3>2. s \in Seq(Msg) /\ v \in ClientType /\ Talks(c, n, v, s, q, j) /\ s # <<>> /\ Head(s).op = "call"
      BY <1>1, <2>5, <2>6, <3>1 DEF Speaker
    <3>3. v.id # 0 /\ j /\ Talks(c, n, v, Tail(s), q, j)
      BY <3>2, CallTaken
    <3>4. SyncCall(Head(s)) => v.at = "wait" /\ Head(s).n = v.n /\ q = <<>> /\ NoSync(Tail(s))
      BY <3>2, CallTaken
    <3> QED BY <1>1, <3>1, <3>3, <3>4
  <2>8. b.id # 0
    <3>1. to \in Targets(n, fd) /\ to = incomingconnection[n][fd]
      BY <1>1, <2>7 DEF Targets
    <3>2. c \in Clients /\ client[c].at # "idle" /\ n = Home[c] /\ fd = client[c].fd
      BY <2>6 DEF Speaker
    <3>3. Match(client[c], to)
      BY <3>1, <3>2 DEF IInv, RouteInv, ClientRoute
    <3> QED BY <1>4, <2>7, <3>3 DEF Match
  <2>9. BareOn
    BY <1>3, <2>3, <2>5, TakenBare
  <2>10. AllocInv'
    <3>1. \A k \in Nodes : \A f \in DOMAIN ipc'[k] : \A x \in ToSet(ipc'[k][f]) : f \in DOMAIN ipc[k] /\ x \in ToSet(ipc[k][f])
      BY <1>3, TakenSpeech
    <3> QED BY <1>3, <1>6, <2>1, <2>2, <3>1, AllocKept
  <2>11. TalkInv'
    <3>1. Talks(c, n, client[c], Tail(ipc[n][fd]), inbox[c], fd \in DOMAIN incomingconnection'[n])
      BY <1>3, <2>7
    <3>2. \A k \in Nodes : DOMAIN incomingconnection[k] \subseteq DOMAIN incomingconnection'[k]
      BY <1>3
    <3> QED BY <1>3, <2>1, <2>6, <3>1, <3>2, TalkTaken
  <2>12. ConnInv'
    <3>1. \A a \in body' : \/ a \in body
                           \/ (a.kind = "request" => a.id # 0) /\ (a.kind = "response" => a.m.op # "address")
      BY <1>3, <1>4, <2>8
    <3> QED BY <1>3, <2>1, <2>2, <2>9, <3>1, ConnOn
  <2>13. /\ g \in Nat /\ g \notin DOMAIN incomingtag[n] /\ g < next_tag'[n] /\ next_tag[n] = g
         /\ \A k \in Nodes : next_tag[k] <= next_tag'[k]
    <3>1. \A k \in Nodes : next_tag[k] \in Nat /\ next_tag'[k] = IF k = n THEN next_tag[n] + 1 ELSE next_tag[k]
      BY <1>3 DEF IInv, TypeInv
    <3>2. \A u \in DOMAIN incomingtag[n] : u \in FirstTag .. next_tag[n] - 1
      BY DEF OInv, EndsInv, TagEnds
    <3>3. FirstTag \in Nat
      BY InterconnectorAssumption
    <3> QED BY <1>1, <3>1, <3>2, <3>3
  <2>14. /\ DOMAIN incomingtag'[n] = DOMAIN incomingtag[n] \cup {g} /\ incomingtag'[n][g] = fd
         /\ \A u \in DOMAIN incomingtag[n] : incomingtag'[n][u] = incomingtag[n][u]
         /\ \A k \in Nodes : k # n => incomingtag'[k] = incomingtag[k]
    <3>1. incomingtag = [k \in Nodes |-> incomingtag[k]]
      BY DEF OInv, EndsInv, TagEnds
    <3>2. PICK p : p = incomingtag[n]
      OBVIOUS
    <3>3. incomingtag'[n] = Put(p, g, fd) /\ \A k \in Nodes : k # n => incomingtag'[k] = incomingtag[k]
      BY <1>3, <3>1, <3>2
    <3>4. DOMAIN Put(p, g, fd) = DOMAIN p \cup {g} /\ Put(p, g, fd)[g] = fd /\ \A u \in DOMAIN p : u # g => Put(p, g, fd)[u] = p[u]
      BY DEF Put
    <3> QED BY <2>13, <3>2, <3>3, <3>4
  <2>15. PICK l : l = m.n
    OBVIOUS
  <2>16. ASSUME NEW h, NEW t, NEW w, NEW k, Pends(h, t, w, k)'
         PROVE  Pends(h, t, w, k) \/ (h = n /\ t = g /\ w = c /\ k = l /\ m.sync)
    <3>1. Pends(h, t, w, k) \/ \E a \in body' : a \notin body /\ Sends(a, h, t) /\ Is(a.m, w, k)
      BY <1>3, <2>2, <2>9, <2>16, PendsNew
    <3>2. Pends(h, t, w, k) \/ (Sends(b, h, t) /\ Is(b.m, w, k))
      BY <1>3, <3>1
    <3> QED BY <1>4, <2>5, <2>15, <3>2 DEF Sends, Is
  <2>17. ASSUME NEW h, NEW t, NEW w, NEW k, Pends(h, t, w, k), t \in DOMAIN incomingtag'[h]
         PROVE  t \in DOMAIN incomingtag[h] /\ Held(h, t, w, k) /\ Held(h, t, w, k)'
    <3>1. h \in Nodes /\ t \in Nat /\ t < next_tag[h] /\ (t \in DOMAIN incomingtag[h] => Held(h, t, w, k))
      BY <2>1, <2>17 DEF PendInv
    <3>2. h # n \/ t # g
      BY <2>13, <3>1
    <3>3. t \in DOMAIN incomingtag[h] /\ incomingtag'[h][t] = incomingtag[h][t]
      BY <2>14, <2>17, <3>1, <3>2
    <3>4. Held(h, t, w, k)
      BY <3>1, <3>3
    <3>5. w \in Clients /\ client[w].at # "idle" /\ h = Home[w]
      BY <3>4 DEF Held
    <3>6. NoSync(ipc[h][client[w].fd]) => NoSync(ipc'[h][client[w].fd])
      BY <1>3, <3>5, TakenQuiet
    <3>7. Held(h, t, w, k)'
      BY <1>3, <3>3, <3>4, <3>6, HeldOn
    <3> QED BY <3>3, <3>4, <3>7
  <2>18. CASE ~m.sync
    <3>1. Pends(n, g, c, l) \/ ~Pends(n, g, c, l)'
      BY <2>16, <2>18
    <3>2. PendInv'
      BY <2>1, <2>13, <2>16, <2>17, <3>1, PendsMove
    <3> QED BY <1>6, <2>10, <2>11, <2>12, <3>2 DEF AInv, WayInv
  <2>19. CASE m.sync
    <3>1. SyncCall(m)
      BY <2>5, <2>19 DEF SyncCall
    <3>2. Held(n, g, c, l)'
      <4>1. /\ c \in Clients \ Grouping /\ n = Home[c] /\ fd = client[c].fd
        BY <2>6 DEF Speaker
      <4>2. ipc'[n][fd] = Tail(ipc[n][fd])
        BY <1>3, TakeShape
      <4>3. client[c].at = "wait" /\ l = client[c].n /\ inbox[c] = <<>> /\ NoSync(ipc'[n][fd])
        BY <2>7, <2>15, <3>1, <4>2
      <4>4. Clients' = Clients /\ Home' = Home /\ Grouping' = Grouping
        BY <1>3, Deployment
      <4> QED BY <1>3, <2>14, <4>1, <4>3, <4>4 DEF Held, NoSync
    <3>3. ASSUME NEW u, NEW i, Pends(n, u, c, i), u \in DOMAIN incomingtag'[n] PROVE FALSE
      <4>1. Held(n, u, c, i)
        BY <2>17, <3>3
      <4>2. NoSync(ipc[n][fd])
        BY <2>6, <4>1 DEF Held, Speaker
      <4> QED BY <2>4, <3>1, <4>2 DEF NoSync
    <3>4. /\ n \in Nodes /\ g \in Nat /\ g < next_tag'[n] /\ Held(n, g, c, l)'
          /\ \A u, i : Pends(n, u, c, i) => u \notin DOMAIN incomingtag'[n]
      BY <2>13, <3>2, <3>3
    <3>5. PendInv'
      BY <2>1, <2>13, <2>16, <2>17, <3>4, PendsMove
    <3> QED BY <1>6, <2>10, <2>11, <2>12, <3>5 DEF AInv, WayInv
  <2>20. m.sync \/ ~m.sync
    OBVIOUS
  <2> QED BY <2>18, <2>19, <2>20
<1> QED BY <1>7, <1>8

LEMMA ReceiveResponseA ==
    ASSUME IInv, OInv, IInv', OInv', AInv, NEW n \in Nodes, NEW s \in Nodes, ReceiveResponse(n, s)
    PROVE  AInv'
<1>1. PICK t : t = Head(cmd[s][n]).tag
  OBVIOUS
<1>2. PICK f : f = IF t \in DOMAIN incomingtag[n] THEN incomingtag[n][t] ELSE 0
  OBVIOUS
<1>3. PICK b \in body : b.kind \in {"request", "response"} /\ b.src = s /\ body' = body \ {b} /\ Deliver(n, f, b.m)
  BY <1>1, <1>2 DEF ReceiveResponse
<1>4. /\ incomingtag' = [incomingtag EXCEPT ![n] = Erase(@, t)] /\ cmd[s][n] # <<>> /\ Head(cmd[s][n]).what = "response"
      /\ UNCHANGED <<deployment, overlap, serving, ipc, owner, client, main, objects>>
      /\ UNCHANGED <<incomingconnection, outgoingconnection, allocation_return, allocation_id, next_tag, next_object_id>>
  BY <1>1 DEF ReceiveResponse, local, counters
<1>5. CommandInv' /\ CommandInv /\ IdsInv /\ KnownInv
  BY ReceiveAnswerCommand DEF AInv, BaseInv
<1>6. b.kind = "response" /\ b.dst = n /\ b.tag = t
  <2>1. Owed(Head(cmd[s][n]))
    BY <1>4 DEF Owed
  <2>2. b.dst = n /\ Belongs(Head(cmd[s][n]), b)
    BY <1>3, <1>4, <1>5, <2>1, Announced
  <2> QED BY <1>1, <1>4, <2>2 DEF Belongs
<1>7. LeadsOn
  BY <1>4, LeadsStay
<1>8. BaseInv'
  <2>1. IdsInv'
    BY <1>4, <1>5, IdsStay
  <2>2. KnownInv'
    BY <1>3, <1>4, <1>5, <1>7, KnownStays
  <2> QED BY <1>5, <2>1, <2>2 DEF BaseInv
<1>9. CASE overlap
  BY <1>4, <1>8, <1>9 DEF AInv
<1>10. CASE ~overlap
  <2>1. AllocInv /\ TalkInv /\ ConnInv /\ PendInv /\ KnownInv
    BY <1>10 DEF AInv, WayInv, BaseInv
  <2>2. OwnersGrow
    BY <1>4, OwnersSame
  <2>3. PICK m, l : m = b.m /\ l = m.n
    OBVIOUS
  <2>4. m \in Msg /\ m.op # "address" /\ Deliver(n, f, m)
    <3>1. m \in Msg
      BY <1>3, <2>3 DEF IInv, TypeInv, BodyType
    <3>2. m.op # "address"
      BY <1>3, <1>6, <2>1, <2>3 DEF ConnInv
    <3> QED BY <1>3, <2>3, <3>1, <3>2
  <2>5. /\ \A c \in Clients : inbox'[c] = IF f \in DOMAIN owner[n] /\ owner[n][f] = c THEN Append(inbox[c], m) ELSE inbox[c]
        /\ \A c \in Clients : inbox[c] \in Seq(Msg)
    <3>1. inbox \in [Clients -> Seq(Msg)]
      BY DEF OInv, KindInv
    <3> QED BY <1>4, <2>4, <3>1, Delivered
  <2>6. PICK w : /\ \A c \in Clients : c # w => inbox'[c] = inbox[c]
                 /\ \/ w = None /\ t \notin DOMAIN incomingtag[n]
                    \/ /\ t \in DOMAIN incomingtag[n] /\ Pends(n, t, w, l) /\ Held(n, t, w, l) /\ m.who = w
                       /\ inbox'[w] = <<m>>
    <3>1. CASE t \notin DOMAIN incomingtag[n]
      <4>1. f = 0 /\ f \notin DOMAIN owner[n]
        BY <1>2, <3>1, Sockets DEF OInv
      <4>2. \A c \in Clients : inbox'[c] = inbox[c]
        BY <2>5, <4>1
      <4> QED BY <3>1, <4>2
    <3>2. CASE t \in DOMAIN incomingtag[n]
      <4>1. PICK x : x = m.who
        OBVIOUS
      <4>2. Pends(n, t, x, l)
        <5>1. Sends(b, n, t) /\ Is(b.m, x, l)
          BY <1>6, <2>3, <4>1 DEF Sends, Is
        <5> QED BY <1>3, <5>1 DEF Pends
      <4>3. Held(n, t, x, l)
        BY <2>1, <3>2, <4>2 DEF PendInv
      <4>4. f = client[x].fd /\ inbox[x] = <<>> /\ x \in Clients
        BY <1>2, <3>2, <4>3 DEF Held
      <4>5. f \in DOMAIN owner[n] /\ owner[n][f] = x
        BY <4>3, <4>4, HeldEnd
      <4>6. inbox'[x] = <<m>> /\ \A c \in Clients : c # x => inbox'[c] = inbox[c]
        <5>1. inbox'[x] = Append(inbox[x], m) /\ \A c \in Clients : c # x => inbox'[c] = inbox[c]
          BY <2>5, <4>4, <4>5
        <5>2. Append(<<>>, m) = <<m>>
          OBVIOUS
        <5> QED BY <4>4, <5>1, <5>2
      <4> QED BY <3>2, <4>1, <4>2, <4>3, <4>6
    <3> QED BY <3>1, <3>2
  <2>7. None \notin Clients
    BY Sockets DEF OInv
  <2>8. AllocInv'
    <3>1. ASSUME NEW c \in Clients \ Grouping, client[c].at = "alloc"
          PROVE  inbox'[c] = inbox[c]
      BY <2>6, <2>7, <3>1 DEF Held
    <3> QED BY <1>3, <1>4, <1>7, <2>1, <2>2, <3>1, AllocKept
  <2>9. TalkInv'
    <3>1. ASSUME w \in Clients \ Grouping
          PROVE  Talks(w, Home[w], client[w], ipc[Home[w]][client[w].fd], inbox'[w], client[w].fd \in DOMAIN incomingconnection[Home[w]])
      <4>1. Held(n, t, w, l) /\ m.who = w /\ inbox'[w] = <<m>>
        BY <2>6, <2>7, <3>1
      <4>2. PICK h, v, q, j : /\ h = Home[w] /\ v = client[w] /\ q = ipc[h][v.fd] /\ j = (v.fd \in DOMAIN incomingconnection[h])
        OBVIOUS
      <4>3. v.at = "wait" /\ v.n = l /\ inbox[w] = <<>> /\ NoSync(q)
        BY <4>1, <4>2 DEF Held
      <4>4. Talks(w, h, v, q, inbox[w], j)
        BY <2>1, <3>1, <4>2, <4>3 DEF TalkInv
      <4>5. Talks(w, h, v, q, <<>>, j)
        BY <4>3, <4>4
      <4>6. Talks(w, h, v, q, <<m>>, j)
        BY <2>3, <2>4, <4>1, <4>3, <4>5, AnswerComes
      <4> QED BY <4>1, <4>2, <4>6
    <3>2. \A c \in Clients \ Grouping : client'[c] = client[c] /\ (c # w => inbox'[c] = inbox[c])
      BY <1>4, <2>6
    <3>3. \A k \in Nodes : \A i \in DOMAIN owner'[k] : i \in DOMAIN owner[k] \/ owner'[k][i] \in Grouping \cup {None}
      BY <1>4
    <3>4. \A k \in Nodes : \A i \in DOMAIN owner[k] : owner[k][i] \in Clients \ Grouping => ipc'[k][i] = ipc[k][i]
      BY <1>4
    <3> QED BY <1>4, <2>1, <2>2, <3>1, <3>2, <3>3, <3>4, TalksKept
  <2>10. BareOn
    BY <1>4 DEF BareOn, Bare
  <2>11. ConnInv'
    BY <1>3, <1>4, <2>1, <2>2, <2>10, ConnOn
  <2>12. \A h, u, x, k : Pends(h, u, x, k)' => Pends(h, u, x, k)
    BY <1>3, <1>4, <2>2, <2>10, PendsBack
  <2>13. \A k \in Nodes : \A u \in DOMAIN incomingtag'[k] :
           u \in DOMAIN incomingtag[k] /\ incomingtag'[k][u] = incomingtag[k][u] /\ (k # n \/ u # t)
    <3>1. incomingtag = [k \in Nodes |-> incomingtag[k]]
      BY DEF OInv, EndsInv, TagEnds
    <3>2. \A k \in Nodes : incomingtag'[k] = IF k = n THEN Erase(incomingtag[n], t) ELSE incomingtag[k]
      BY <1>4, <3>1
    <3> QED BY <3>2 DEF Erase
  <2>14. ASSUME NEW h, NEW u, NEW x, NEW k, Pends(h, u, x, k), u \in DOMAIN incomingtag'[h]
         PROVE  u \in DOMAIN incomingtag[h] /\ Held(h, u, x, k)'
    <3>1. h \in Nodes /\ (u \in DOMAIN incomingtag[h] => Held(h, u, x, k))
      BY <2>1, <2>14 DEF PendInv
    <3>2. u \in DOMAIN incomingtag[h] /\ incomingtag'[h][u] = incomingtag[h][u] /\ (h # n \/ u # t)
      BY <2>13, <2>14, <3>1
    <3>3. Held(h, u, x, k)
      BY <3>1, <3>2
    <3>4. x \in Clients /\ h = Home[x]
      BY <3>3 DEF Held
    <3>5. x # w
      <4>1. SUFFICES ASSUME x = w PROVE FALSE
        OBVIOUS
      <4>2. t \in DOMAIN incomingtag[n] /\ Pends(n, t, w, l) /\ Held(n, t, w, l)
        BY <2>6, <2>7, <3>4, <4>1
      <4>3. h = n
        BY <3>4, <4>1, <4>2 DEF Held
      <4>4. u = t
        BY <2>1, <2>14, <3>2, <4>1, <4>2, <4>3 DEF PendInv
      <4> QED BY <3>2, <4>3, <4>4
    <3>6. inbox'[x] = inbox[x]
      BY <2>6, <3>4, <3>5
    <3>7. Held(h, u, x, k)'
      BY <1>4, <3>2, <3>3, <3>6, HeldOn
    <3> QED BY <3>2, <3>7
  <2>15. PendInv'
    <3>1. Pends(n, t, w, l) \/ ~Pends(n, t, w, l)'
      BY <2>12
    <3>2. \A k \in Nodes : next_tag[k] <= next_tag'[k]
      BY <1>4 DEF IInv, TypeInv
    <3> QED BY <2>1, <2>12, <2>14, <3>1, <3>2, PendsMove
  <2> QED BY <1>8, <2>8, <2>9, <2>11, <2>15 DEF AInv, WayInv
<1> QED BY <1>9, <1>10

LEMMA ObjectServesA ==
    ASSUME IInv, OInv, IInv', OInv', AInv, ObjectServes
    PROVE  AInv'
<1>1. PICK r \in serving :
        /\ serving' = serving \ {r}
        /\ ipc' = IF r.m.sync
                  THEN [ipc EXCEPT ![r.node][r.fd] = Append(@, [r.m EXCEPT !.op = "answer"])] ELSE ipc
        /\ UNCHANGED <<deployment, main, cmd, body, owner, client, inbox, objects, overlap>>
        /\ UNCHANGED <<incomingconnection, incomingtag, outgoingconnection, allocation_return>>
        /\ UNCHANGED <<next_tag, next_object_id, allocation_id>>
  BY DEF ObjectServes, mpi, maps, counters
<1>2. r.node \in Nodes /\ r.fd \in DOMAIN ipc[r.node] /\ r.m \in Msg /\ owner[r.node][r.fd] = None
  BY DEF IInv, RouteInv, ObjectRoute, OInv, EndsInv, ConnEnds, Inner
<1>3. PICK k, f, a : k = r.node /\ f = r.fd /\ a = [r.m EXCEPT !.op = "answer"]
  OBVIOUS
<1>4. /\ a \in Msg /\ a.op = "answer" /\ a.who = r.m.who /\ a.n = r.m.n
      /\ k \in Nodes /\ f \in DOMAIN ipc[k] /\ owner[k][f] = None
  BY <1>2, <1>3 DEF Msg, Ops
<1>5. LeadsOn
  BY <1>1, LeadsStay
<1>6. BaseInv'
  BY <1>1, <1>5, BaseStays DEF AInv
<1>7. CASE overlap
  BY <1>1, <1>6, <1>7 DEF AInv
<1>8. CASE ~overlap
  <2>1. AllocInv /\ TalkInv /\ ConnInv /\ PendInv /\ KnownInv
    BY <1>8 DEF AInv, WayInv, BaseInv
  <2>2. OwnersGrow
    BY <1>1, OwnersSame
  <2>3. /\ \A i \in Nodes : DOMAIN ipc'[i] = DOMAIN ipc[i]
        /\ \A i \in Nodes : \A g \in DOMAIN ipc[i] :
             \/ ipc'[i][g] = ipc[i][g]
             \/ r.m.sync /\ i = k /\ g = f /\ ipc'[i][g] = <<a>>
    <3>1. CASE ~r.m.sync
      BY <1>1, <3>1
    <3>2. CASE r.m.sync
      <4>1. ipc' = Replace(ipc, k, f, Append(ipc[k][f], a))
        BY <1>1, <1>3, <3>2 DEF Replace
      <4>2. \A i \in Nodes : DOMAIN ipc'[i] = DOMAIN ipc[i]
        BY <1>4, <4>1, PushShape
      <4>3. ipc'[k][f] = Append(ipc[k][f], a)
        BY <1>4, <4>1, PushShape
      <4>4. \A i \in Nodes : \A g \in DOMAIN ipc[i] : i # k \/ g # f => ipc'[i][g] = ipc[i][g]
        BY <1>4, <4>1, PushShape
      <4>5. ipc[k][f] = <<>>
        BY <1>3, <2>1, <3>2 DEF ConnInv
      <4>6. Append(<<>>, a) = <<a>>
        OBVIOUS
      <4>7. ipc'[k][f] = <<a>>
        BY <4>3, <4>5, <4>6
      <4> QED BY <3>2, <4>2, <4>4, <4>7
    <3> QED BY <3>1, <3>2
  <2>4. ToSet(<<a>>) = {a} /\ Len(<<a>>) = 1
    BY DEF ToSet
  <2>5. \A i \in Nodes : \A g \in DOMAIN owner[i] : owner[i][g] \in Clients \ Grouping => ipc'[i][g] = ipc[i][g]
    BY <1>4, <2>3, Sockets DEF OInv
  <2>6. AllocInv'
    <3>1. \A i \in Nodes : \A g \in DOMAIN ipc'[i] : \A m \in ToSet(ipc'[i][g]) :
             m.op = "alloc" => g \in DOMAIN ipc[i] /\ m \in ToSet(ipc[i][g])
      BY <1>4, <2>3, <2>4
    <3> QED BY <1>1, <1>5, <2>1, <2>2, <3>1, AllocKept
  <2>7. TalkInv'
    BY <1>1, <2>1, <2>2, <2>5, TalksSame
  <2>8. ConnInv'
    <3>1. ASSUME NEW q \in serving', q.m.sync
          PROVE  /\ q.fd \in DOMAIN outgoingconnection'[q.node] /\ ipc'[q.node][q.fd] = <<>>
                 /\ \A u \in serving' : u.m.sync /\ u.node = q.node /\ u.fd = q.fd => u = q
      <4>1. /\ q.fd \in DOMAIN outgoingconnection[q.node] /\ ipc[q.node][q.fd] = <<>> /\ q \in serving /\ q # r
            /\ \A u \in serving : u.m.sync /\ u.node = q.node /\ u.fd = q.fd => u = q
        BY <1>1, <2>1, <3>1 DEF ConnInv
      <4>2. q.node \in Nodes /\ q.fd \in DOMAIN ipc[q.node]
        BY <4>1, Sockets DEF OInv, EndsInv, ConnEnds, Inner
      <4>3. ~(r.m.sync /\ q.node = k /\ q.fd = f)
        BY <1>1, <1>3, <4>1
      <4> QED BY <1>1, <2>3, <4>1, <4>2, <4>3
    <3>2. ASSUME NEW i \in Nodes, NEW g \in DOMAIN ipc'[i], owner'[i][g] = None, NEW x \in ToSet(ipc'[i][g]), x.op \in {"call", "answer"}
          PROVE  g \in DOMAIN outgoingconnection'[i] /\ Len(ipc'[i][g]) = 1
      <4>1. CASE ipc'[i][g] = ipc[i][g]
        BY <1>1, <2>1, <2>3, <3>2, <4>1 DEF ConnInv
      <4>2. CASE r.m.sync /\ i = k /\ g = f /\ ipc'[i][g] = <<a>>
        BY <1>1, <1>3, <2>1, <2>4, <4>2 DEF ConnInv
      <4> QED BY <2>3, <4>1, <4>2
    <3>3. ASSUME NEW b \in body' PROVE (b.kind = "request" => b.id # 0) /\ (b.kind = "response" => b.m.op # "address")
      BY <1>1, <2>1 DEF ConnInv
    <3> QED BY <3>1, <3>2, <3>3 DEF ConnInv
  <2>9. ASSUME NEW h, NEW t, NEW w, NEW l, Pends(h, t, w, l)' PROVE Pends(h, t, w, l)
    <3>1. CASE \E b \in body' : Sends(b, h, t) /\ Is(b.m, w, l)
      BY <1>1, <3>1 DEF Pends
    <3>2. CASE \E q \in serving' : q.m.sync /\ Entry(q.node, q.fd, h, t)' /\ Is(q.m, w, l)
      <4>1. PICK q \in serving' : q.m.sync /\ Entry(q.node, q.fd, h, t)' /\ Is(q.m, w, l)
        BY <3>2
      <4>2. q \in serving /\ Entry(q.node, q.fd, h, t)
        BY <1>1, <4>1 DEF Entry
      <4> QED BY <4>1, <4>2 DEF Pends
    <3>3. CASE \E i \in Nodes : \E g : Entry(i, g, h, t)' /\ \E x \in ToSet(ipc'[i][g]) : x.op \in {"call", "answer"} /\ Is(x, w, l)
      <4>1. PICK i \in Nodes : \E g : Entry(i, g, h, t)' /\ \E x \in ToSet(ipc'[i][g]) : x.op \in {"call", "answer"} /\ Is(x, w, l)
        BY <3>3
      <4>2. PICK g : Entry(i, g, h, t)' /\ \E x \in ToSet(ipc'[i][g]) : x.op \in {"call", "answer"} /\ Is(x, w, l)
        BY <4>1
      <4>3. Entry(i, g, h, t)
        BY <1>1, <4>2 DEF Entry
      <4>4. g \in DOMAIN ipc[i]
        BY <4>3, Sockets DEF Entry, OInv, EndsInv, ConnEnds, Inner
      <4>5. CASE ipc'[i][g] = ipc[i][g]
        BY <4>2, <4>3, <4>5 DEF Pends
      <4>6. CASE r.m.sync /\ i = k /\ g = f /\ ipc'[i][g] = <<a>>
        <5>1. Is(a, w, l)
          BY <2>4, <4>2, <4>6
        <5>2. Is(r.m, w, l) /\ Entry(r.node, r.fd, h, t)
          BY <1>3, <1>4, <4>3, <4>6, <5>1 DEF Is
        <5> QED BY <1>1, <4>6, <5>2 DEF Pends
      <4> QED BY <2>3, <4>4, <4>5, <4>6
    <3>4. \/ \E b \in body' : Sends(b, h, t) /\ Is(b.m, w, l)
          \/ \E q \in serving' : q.m.sync /\ Entry(q.node, q.fd, h, t)' /\ Is(q.m, w, l)
          \/ \E i \in Nodes : \E g : Entry(i, g, h, t)' /\ \E x \in ToSet(ipc'[i][g]) : x.op \in {"call", "answer"} /\ Is(x, w, l)
      BY <2>9, Zenon DEF Pends, Sends, Is
    <3> QED BY <3>1, <3>2, <3>3, <3>4
  <2>10. PendInv'
    <3>1. \A h, t, w, l : Held(h, t, w, l) => Held(h, t, w, l)'
      BY <1>1, <2>5, HeldSame
    <3> QED BY <1>1, <2>1, <2>9, <3>1, PendsStay
  <2> QED BY <1>6, <2>6, <2>7, <2>8, <2>10 DEF AInv, WayInv
<1> QED BY <1>7, <1>8

-----------------------------------------------------------------------------
(* Steps of the programs. *)

\* Only client c acts, and only what it says and hears changes.
Acts(c) ==
    /\ UNCHANGED <<deployment, main, cmd, body, objects, serving, overlap>> /\ OwnersGrow
    /\ UNCHANGED <<incomingconnection, incomingtag, outgoingconnection, allocation_return>>
    /\ UNCHANGED <<next_tag, next_object_id, allocation_id>>
    /\ \A d \in Clients : d # c => client'[d] = client[d] /\ inbox'[d] = inbox[d]
    /\ \A n \in Nodes : \A f \in DOMAIN ipc'[n] : owner'[n][f] = c \/ (f \in DOMAIN ipc[n] /\ ipc'[n][f] = ipc[n][f])

\* What the others do stays.
LEMMA ActsSame ==
    ASSUME IInv, OInv, IInv', OInv', NEW c \in Clients, Acts(c), NEW d \in Clients, d # c, client[d].at # "idle"
    PROVE  Same(d)
<1>1. PICK h, f : h = Home[d] /\ f = client[d].fd
  OBVIOUS
<1>2. h \in Nodes
  BY <1>1, Deployed DEF IInv
<1>3. f \in DOMAIN owner[h] /\ owner[h][f] = d
  BY <1>1 DEF OInv, OwnerInv
<1>4. f \in DOMAIN owner'[h] /\ owner'[h][f] = d
  BY <1>2, <1>3 DEF Acts, OwnersGrow
<1>5. ipc'[h][f] = ipc[h][f]
  <2>1. ipc'[h] \in Seq(Seq(Msg)) /\ Len(owner'[h]) = Len(ipc'[h]) /\ owner'[h] \in Seq(Clients' \cup {None})
    BY <1>2 DEF IInv, TypeInv, SockType, OInv, OwnerInv
  <2>2. f \in DOMAIN ipc'[h]
    BY <1>4, <2>1
  <2> QED BY <1>2, <1>4, <2>2 DEF Acts
<1> QED BY <1>1, <1>5 DEF Acts, Same

LEMMA ActsKeep ==
    ASSUME IInv, OInv, IInv', OInv', AInv, NEW c \in Clients \ Grouping, Acts(c), client[c].at # "wait" \/ inbox[c] # <<>>
    PROVE  BaseInv' /\ LeadsOn /\ (overlap \/ (ConnInv' /\ PendInv'))
<1>1. LeadsOn
  BY LeadsStay DEF Acts
<1>2. BaseInv'
  BY <1>1, BaseStays DEF AInv, Acts
<1>3. ASSUME ~overlap PROVE ConnInv' /\ PendInv'
  <2>1. ConnInv /\ PendInv
    BY <1>3 DEF AInv, WayInv
  <2>2. BareOn
    <3>1. c # None
      BY Sockets DEF OInv
    <3> QED BY <3>1 DEF Acts, BareOn, Bare
  <2>3. ASSUME NEW w \in Clients \ Grouping, client[w].at = "wait", inbox[w] = <<>>, NoSync(ipc[Home[w]][client[w].fd])
        PROVE  client'[w] = client[w] /\ inbox'[w] = inbox[w] /\ NoSync(ipc'[Home[w]][client[w].fd])
    <3>1. w # c
      BY <2>3
    <3>2. Same(w)
      BY <2>3, <3>1, ActsSame
    <3> QED BY <2>3, <3>2 DEF Same
  <2> QED BY <2>1, <2>2, <2>3, RequestsKept DEF Acts
<1> QED BY <1>1, <1>2, <1>3

\* Client c has a new socket, with messages s.
Dials(c, h, new, s) ==
    /\ h \in Nodes /\ new \notin DOMAIN ipc[h]
    /\ new \in DOMAIN ipc'[h] /\ ipc'[h][new] = s /\ owner'[h][new] = c
    /\ \A k \in Nodes : \A f \in DOMAIN ipc[k] :
         f \in DOMAIN ipc'[k] /\ ipc'[k][f] = ipc[k][f] /\ owner'[k][f] = owner[k][f]
    /\ \A k \in Nodes : \A f \in DOMAIN ipc'[k] : f \in DOMAIN ipc[k] \/ (k = h /\ f = new)
    /\ \A k \in Nodes : DOMAIN owner'[k] = DOMAIN ipc'[k] /\ DOMAIN owner[k] = DOMAIN ipc[k]

LEMMA OpensActs ==
    ASSUME IInv, OInv, NEW c \in Clients, NEW s \in Seq(Msg), Opens(c, s), Untouched, NEW h, h = Home[c],
           NEW new, new = Len(ipc[h]) + 1, \A d \in Clients : d # c => client'[d] = client[d]
    PROVE  Dials(c, h, new, s) /\ Acts(c) /\ inbox' = inbox
<1>1. h \in Nodes /\ new \in Nat /\ new \notin DOMAIN ipc[h]
  BY OpensShape
<1>2. new \in DOMAIN ipc'[h] /\ ipc'[h][new] = s /\ owner'[h][new] = c
  BY OpensShape
<1>3. \A k \in Nodes : \A f \in DOMAIN ipc[k] : f \in DOMAIN ipc'[k] /\ ipc'[k][f] = ipc[k][f] /\ owner'[k][f] = owner[k][f]
  BY OpensShape
<1>4. \A k \in Nodes : \A f \in DOMAIN ipc'[k] : f \in DOMAIN ipc[k] \/ (k = h /\ f = new)
  BY OpensShape
<1>5. \A k \in Nodes : DOMAIN owner'[k] = DOMAIN ipc'[k]
  BY OpensShape
<1>6. \A k \in Nodes : DOMAIN owner[k] = DOMAIN ipc[k]
  BY Sockets DEF OInv
<1>7. OwnersGrow
  BY <1>3, <1>5, <1>6 DEF OwnersGrow
<1>8. /\ UNCHANGED <<deployment, main, cmd, body, objects, serving, overlap, inbox>>
      /\ UNCHANGED <<incomingconnection, incomingtag, outgoingconnection, allocation_return>>
      /\ UNCHANGED <<next_tag, next_object_id, allocation_id>>
  BY DEF Untouched, mpi, maps, counters
<1>9. \A n \in Nodes : \A f \in DOMAIN ipc'[n] : owner'[n][f] = c \/ (f \in DOMAIN ipc[n] /\ ipc'[n][f] = ipc[n][f])
  BY <1>2, <1>3, <1>4
<1>10. Acts(c)
  BY <1>7, <1>8, <1>9 DEF Acts
<1> QED BY <1>1, <1>2, <1>3, <1>4, <1>5, <1>6, <1>8, <1>10 DEF Dials

LEMMA AllocateA ==
    ASSUME IInv, OInv, IInv', OInv', AInv, NEW c \in Clients \ Grouping, Allocate(c)
    PROVE  AInv'
<1>1. client[c] \in ClientType /\ c \in Everyone /\ Home[c] \in Nodes /\ deployment[c].node \in Nat
  BY Deployed DEF IInv
<1>2. PICK h, new : h = Home[c] /\ new = Len(ipc[h]) + 1
  OBVIOUS
<1>3. PICK m, v : /\ m = Message("alloc", c, 0, TRUE, deployment[c].node, 0)
                  /\ v = [client[c] EXCEPT !.at = "alloc", !.node = deployment[c].node, !.fd = new]
  OBVIOUS
<1>4. client[c].at = "idle" /\ Opens(c, <<m>>) /\ client' = [client EXCEPT ![c] = v] /\ Untouched
  BY <1>2, <1>3 DEF Allocate
<1>5. m \in Msg /\ m.op = "alloc" /\ m.node = v.node /\ v.at = "alloc" /\ v.fd = new
  BY <1>1, <1>3 DEF Msg, Message, Ops, ClientType
<1>6. PICK s : s = <<m>>
  OBVIOUS
<1>7. s \in Seq(Msg) /\ Opens(c, s) /\ ToSet(s) = {m}
  <2>1. <<m>> \in Seq(Msg) /\ ToSet(<<m>>) = {m}
    BY <1>5 DEF ToSet
  <2> QED BY <1>4, <1>6, <2>1
<1>8. client'[c] = v /\ \A d \in Clients : d # c => client'[d] = client[d]
  BY <1>4 DEF IInv, TypeInv
<1>9. Dials(c, h, new, s) /\ Acts(c) /\ inbox' = inbox
  BY <1>2, <1>4, <1>7, <1>8, OpensActs
<1>10. OwnersGrow /\ UNCHANGED <<deployment, main, body, overlap, incomingconnection>>
  BY <1>9 DEF Acts
<1>11. BaseInv' /\ LeadsOn /\ (overlap \/ (ConnInv' /\ PendInv'))
  BY <1>4, <1>9, ActsKeep
<1>12. CASE overlap
  BY <1>10, <1>11, <1>12 DEF AInv
<1>13. CASE ~overlap
  <2>1. AllocInv /\ TalkInv /\ KnownInv
    BY <1>13 DEF AInv, WayInv, BaseInv
  <2>2. inbox[c] = <<>> /\ inbox'[c] = <<>>
    BY <1>4, <1>9 DEF OInv, QuietInv
  <2>3. \A k \in Nodes : \A f \in DOMAIN owner[k] : owner[k][f] # c
    <3>1. c # None
      BY Sockets DEF OInv
    <3> QED BY <1>4, <3>1 DEF OInv, OwnerInv
  <2>4. TalkInv'
    <3>1. ASSUME NEW d \in Clients \ Grouping, client'[d].at # "idle" PROVE Same(d) \/ TalksNext(d)
      <4>1. CASE d # c
        BY <1>8, <1>9, <3>1, <4>1, ActsSame
      <4>2. CASE d = c
        <5>1. PICK j : j = (client'[c].fd \in DOMAIN incomingconnection'[Home[c]])
          OBVIOUS
        <5>2. Talks(c, h, v, <<m>>, <<>>, j)
          BY <1>5, AsksOne
        <5>3. client'[c].fd = new /\ ipc'[Home[c]][client'[c].fd] = <<m>>
          BY <1>2, <1>5, <1>6, <1>8, <1>9 DEF Dials
        <5>4. TalksNext(c)
          BY <1>2, <1>8, <2>2, <5>1, <5>2, <5>3 DEF TalksNext
        <5> QED BY <4>2, <5>4
      <4> QED BY <4>1, <4>2
    <3>2. ASSUME NEW k \in Nodes, NEW f \in DOMAIN owner'[k], owner'[k][f] \in Clients \ Grouping, f # client'[owner'[k][f]].fd
          PROVE  ipc'[k][f] = <<>>
      <4>1. f \in DOMAIN ipc[k]
        BY <1>5, <1>8, <1>9, <3>2 DEF Dials
      <4>2. owner'[k][f] = owner[k][f] /\ ipc'[k][f] = ipc[k][f] /\ owner[k][f] # c /\ f \in DOMAIN owner[k]
        BY <1>9, <2>3, <4>1 DEF Dials
      <4>3. client'[owner[k][f]] = client[owner[k][f]]
        BY <1>8, <3>2, <4>2
      <4> QED BY <2>1, <3>2, <4>2, <4>3 DEF TalkInv
    <3> QED BY <1>10, <2>1, <3>1, <3>2, TalksOn
  <2>5. AllocInv'
    <3>1. PICK l : l = "said"
      OBVIOUS
    <3>2. Fit(l, m, h, new)'
      <4>1. Clients' = Clients /\ Grouping' = Grouping
        BY <1>10, Deployment
      <4>2. Asker(h, new)' /\ owner'[h][new] = c
        BY <1>9, <4>1 DEF Asker, Dials
      <4> QED BY <1>5, <1>8, <2>2, <3>1, <4>2 DEF Fit
    <3>3. ASSUME NEW k \in Nodes, NEW f, NEW kind, NEW y, Token(kind, y, k, f)'
          PROVE  \/ Token(kind, y, k, f) /\ Stays(k, f) /\ ~(k = h /\ f = new)
                 \/ k = h /\ f = new /\ kind = l /\ y = m /\ Fit(kind, y, k, f)'
      <4>1. CASE kind = "said" /\ k = h /\ f = new
        <5>1. y = m
          BY <1>7, <1>9, <3>3, <4>1 DEF Token, Dials
        <5> QED BY <3>1, <3>2, <4>1, <5>1
      <4>2. CASE ~(kind = "said" /\ k = h /\ f = new)
        <5>1. kind = "said" => f \in DOMAIN ipc[k] /\ y \in ToSet(ipc[k][f])
          BY <1>9, <3>3, <4>2 DEF Token, Dials
        <5>2. kind = "exec" => main'[y] = main[y]
          BY <1>10
        <5>3. kind = "sent" => y \in body
          BY <1>10, <3>3 DEF Token
        <5>4. Token(kind, y, k, f)
          BY <1>11, <2>1, <3>3, <5>1, <5>2, <5>3, SamePlace
        <5>5. f \in DOMAIN owner[k] /\ owner[k][f] \in Clients
          BY <2>1, <5>4 DEF AllocInv, Fit, Asker
        <5>6. Stays(k, f)
          BY <1>8, <1>9, <2>3, <5>5 DEF Stays
        <5>7. ~(k = h /\ f = new)
          BY <1>9, <5>5 DEF Dials
        <5> QED BY <5>4, <5>6, <5>7
      <4> QED BY <4>1, <4>2
    <3>4. Moves(h, new, l, m)
      BY <3>3 DEF Moves
    <3> QED BY <1>10, <2>1, <3>4, AllocMoves
  <2> QED BY <1>11, <1>13, <2>4, <2>5 DEF AInv, WayInv
<1> QED BY <1>12, <1>13

\* What was said before is over when a client binds.
LEMMA BindsFree ==
    ASSUME IInv, OInv, AllocInv, TalkInv, NEW c \in Clients \ Grouping, client[c].at \in {"idle", "ready"}
    PROVE  inbox[c] = <<>> /\ \A k \in Nodes : \A f \in DOMAIN owner[k] : owner[k][f] = c => ipc[k][f] = <<>>
<1>1. CASE client[c].at = "idle"
  <2>1. c # None
    BY Sockets DEF OInv
  <2>2. \A k \in Nodes : \A f \in DOMAIN owner[k] : owner[k][f] # c
    BY <1>1, <2>1 DEF OInv, OwnerInv
  <2> QED BY <1>1, <2>2 DEF OInv, QuietInv
<1>2. CASE client[c].at = "ready"
  <2>1. PICK h, v, s, j : h = Home[c] /\ v = client[c] /\ s = ipc[h][v.fd] /\ j = (v.fd \in DOMAIN incomingconnection[h])
    OBVIOUS
  <2>2. Talks(c, h, v, s, inbox[c], j) /\ v.at = "ready"
    BY <1>2, <2>1 DEF TalkInv
  <2>3. inbox[c] = <<>> /\ \A m \in ToSet(s) : m.op = "alloc"
    BY <2>2 DEF Talks
  <2>4. h \in Nodes /\ v.fd \in DOMAIN owner[h] /\ owner[h][v.fd] = c
    <3>1. h \in Nodes
      BY <2>1, Deployed DEF IInv
    <3> QED BY <2>1, <2>2, <3>1 DEF OInv, OwnerInv
  <2>5. v.fd \in DOMAIN ipc[h] /\ s \in Seq(Msg)
    <3>1. v.fd \in DOMAIN ipc[h]
      BY <2>4, Sockets DEF OInv
    <3> QED BY <2>1, <2>4, <3>1 DEF IInv, TypeInv, SockType
  <2>6. s = <<>>
    <3>1. SUFFICES ASSUME s # <<>> PROVE FALSE
      OBVIOUS
    <3>2. PICK m : m \in ToSet(s) /\ m.op = "alloc"
      <4>1. Head(s) \in ToSet(s)
        BY <2>5, <3>1, TailSet
      <4> QED BY <2>3, <4>1
    <3>3. Token("said", m, h, v.fd)
      BY <2>1, <2>5, <3>2 DEF Token
    <3>4. Fit("said", m, h, v.fd)
      BY <2>4, <3>3 DEF AllocInv
    <3> QED BY <2>1, <2>2, <2>4, <3>4 DEF Fit
  <2>7. ASSUME NEW k \in Nodes, NEW f \in DOMAIN owner[k], owner[k][f] = c PROVE ipc[k][f] = <<>>
    <3>1. CASE f # client[c].fd
      BY <2>7, <3>1 DEF TalkInv
    <3>2. CASE f = client[c].fd
      <4>1. k = h
        <5>1. c # None
          BY Sockets DEF OInv
        <5> QED BY <2>1, <2>7, <5>1 DEF OInv, OwnerInv
      <4> QED BY <2>1, <2>6, <3>2, <4>1
    <3> QED BY <3>1, <3>2
  <2> QED BY <2>3, <2>7
<1> QED BY <1>1, <1>2

LEMMA BindA ==
    ASSUME IInv, OInv, IInv', OInv', AInv, NEW c \in Clients \ Grouping, NEW o \in objects, Bind(c, o)
    PROVE  AInv'
<1>1. PICK h, new : h = Home[c] /\ new = Len(ipc[h]) + 1
  OBVIOUS
<1>2. PICK y, m : /\ y = Message("connect", c, 0, FALSE, DestNode(o.node, o.id), o.id)
                  /\ m = Message("call", c, 1, TRUE, o.node, o.id)
  OBVIOUS
<1>3. PICK v : v = [at |-> "wait", fd |-> new, node |-> o.node, id |-> o.id, n |-> 1, post |-> FALSE]
  OBVIOUS
<1>4. PICK s : s = <<y, m>>
  OBVIOUS
<1>5. o.node \in Nat /\ o.id \in Nat /\ c \in Everyone
  <2>1. c \in Everyone
    BY Deployed DEF IInv
  <2>2. o.node \in Nat /\ o.id \in Nat
    BY InterconnectorAssumption DEF IInv, TypeInv, Nodes
  <2> QED BY <2>1, <2>2
<1>6. DestNode(o.node, o.id) \in Nat
  <2>1. o.node \in Nodes
    BY DEF IInv, TypeInv
  <2> QED BY <1>5, <2>1, DestNodeNat
<1>7. y \in Msg /\ m \in Msg /\ y.op = "connect" /\ m.op = "call" /\ m.n = v.n /\ v.at = "wait" /\ v.fd = new /\ v.id = o.id
  BY <1>2, <1>3, <1>5, <1>6 DEF Msg, Message, Ops
<1>8. s \in Seq(Msg) /\ ToSet(s) = {y, m}
  <2>1. <<y, m>> \in Seq(Msg) /\ ToSet(<<y, m>>) = {y, m}
    BY <1>7 DEF ToSet
  <2> QED BY <1>4, <2>1
<1>9. client[c].at \in {"idle", "ready"} /\ Opens(c, s) /\ client' = [client EXCEPT ![c] = v] /\ Untouched
  BY <1>1, <1>2, <1>3, <1>4 DEF Bind
<1>10. client'[c] = v /\ \A d \in Clients : d # c => client'[d] = client[d]
  BY <1>9 DEF IInv, TypeInv
<1>11. Dials(c, h, new, s) /\ Acts(c) /\ inbox' = inbox
  BY <1>1, <1>8, <1>9, <1>10, OpensActs
<1>12. OwnersGrow /\ UNCHANGED <<deployment, main, body, overlap, incomingconnection>>
  BY <1>11 DEF Acts
<1>13. BaseInv' /\ LeadsOn /\ (overlap \/ (ConnInv' /\ PendInv'))
  BY <1>9, <1>11, ActsKeep
<1>14. CASE overlap
  BY <1>12, <1>13, <1>14 DEF AInv
<1>15. CASE ~overlap
  <2>1. AllocInv /\ TalkInv /\ KnownInv /\ IdsInv
    BY <1>15 DEF AInv, WayInv, BaseInv
  <2>2. inbox[c] = <<>> /\ inbox'[c] = <<>> /\ \A k \in Nodes : \A f \in DOMAIN owner[k] : owner[k][f] = c => ipc[k][f] = <<>>
    BY <1>9, <1>11, <2>1, BindsFree
  <2>3. TalkInv'
    <3>1. ASSUME NEW d \in Clients \ Grouping, client'[d].at # "idle" PROVE Same(d) \/ TalksNext(d)
      <4>1. CASE d # c
        BY <1>10, <1>11, <3>1, <4>1, ActsSame
      <4>2. CASE d = c
        <5>1. PICK j : j = (client'[c].fd \in DOMAIN incomingconnection'[Home[c]])
          OBVIOUS
        <5>2. v.id # 0
          BY <1>7, <2>1 DEF IdsInv
        <5>3. Talks(c, h, v, <<y, m>>, <<>>, j)
          BY <1>7, <5>2, BindsOne
        <5>4. client'[c].fd = new /\ ipc'[Home[c]][client'[c].fd] = <<y, m>>
          BY <1>1, <1>4, <1>7, <1>10, <1>11 DEF Dials
        <5>5. TalksNext(c)
          BY <1>1, <1>10, <2>2, <5>1, <5>3, <5>4 DEF TalksNext
        <5> QED BY <4>2, <5>5
      <4> QED BY <4>1, <4>2
    <3>2. ASSUME NEW k \in Nodes, NEW f \in DOMAIN owner'[k], owner'[k][f] \in Clients \ Grouping, f # client'[owner'[k][f]].fd
          PROVE  ipc'[k][f] = <<>>
      <4>1. f \in DOMAIN ipc[k]
        BY <1>7, <1>10, <1>11, <3>2 DEF Dials
      <4>2. owner'[k][f] = owner[k][f] /\ ipc'[k][f] = ipc[k][f] /\ f \in DOMAIN owner[k]
        BY <1>11, <4>1 DEF Dials
      <4>3. CASE owner[k][f] = c
        BY <2>2, <4>2, <4>3
      <4>4. CASE owner[k][f] # c
        <5>1. client'[owner[k][f]] = client[owner[k][f]]
          BY <1>10, <3>2, <4>2, <4>4
        <5> QED BY <2>1, <3>2, <4>2, <5>1 DEF TalkInv
      <4> QED BY <4>3, <4>4
    <3> QED BY <1>12, <2>1, <3>1, <3>2, TalksOn
  <2>4. AllocInv'
    <3>1. \A k \in Nodes : \A f \in DOMAIN ipc'[k] : \A x \in ToSet(ipc'[k][f]) :
             x.op = "alloc" => f \in DOMAIN ipc[k] /\ x \in ToSet(ipc[k][f])
      BY <1>7, <1>8, <1>11 DEF Dials
    <3>2. \A d \in Clients \ Grouping : client[d].at = "alloc" /\ inbox[d] = <<>> =>
             client'[d] = client[d] /\ inbox'[d] = inbox[d]
      BY <1>9, <1>10, <1>11
    <3> QED BY <1>12, <1>13, <2>1, <3>1, <3>2, AllocKept
  <2> QED BY <1>13, <1>15, <2>3, <2>4 DEF AInv, WayInv
<1> QED BY <1>14, <1>15

LEMMA CallA ==
    ASSUME IInv, OInv, IInv', OInv', AInv, NEW c \in Clients \ Grouping, NEW sync \in BOOLEAN, Call(c, sync)
    PROVE  AInv'
<1>1. client[c] \in ClientType /\ c \in Everyone
  BY Deployed DEF IInv
<1>2. PICK m, v : /\ m = Message("call", c, client[c].n + 1, sync, client[c].node, client[c].id)
                  /\ v = [client[c] EXCEPT !.n = @ + 1, !.at = IF sync THEN "wait" ELSE "bound"]
  OBVIOUS
<1>3. /\ m \in Msg /\ m.op = "call" /\ m.sync = sync /\ m.n = v.n /\ v.id = client[c].id /\ v.fd = client[c].fd
      /\ v.at = (IF m.sync THEN "wait" ELSE "bound") /\ v.at # "idle"
  <2>1. client[c].n + 1 \in Nat
    BY <1>1 DEF ClientType
  <2>2. m \in Msg /\ m.op = "call" /\ m.sync = sync /\ m.n = client[c].n + 1
    BY <1>1, <1>2, <2>1 DEF Msg, Message, Ops, ClientType
  <2>3. CASE sync
    BY <1>1, <1>2, <2>2, <2>3 DEF ClientType
  <2>4. CASE ~sync
    BY <1>1, <1>2, <2>2, <2>4 DEF ClientType
  <2> QED BY <2>3, <2>4
<1>4. client[c].at = "bound" /\ Says(c, <<m>>) /\ client' = [client EXCEPT ![c] = v] /\ Untouched
  BY <1>2 DEF Call
<1>5. PICK h, f, u : h = Home[c] /\ f = client[c].fd /\ u = <<m>>
  OBVIOUS
<1>6. u \in Seq(Msg) /\ Says(c, u) /\ client[c].at # "idle"
  <2>1. <<m>> \in Seq(Msg)
    BY <1>3
  <2> QED BY <1>4, <1>5, <2>1
<1>7. h \in Nodes /\ f \in DOMAIN ipc[h] /\ owner[h][f] = c /\ owner' = owner
  BY <1>5, <1>6, SaysShape
<1>8. ipc[h][f] \in Seq(Msg) /\ Gains(h, f, u)
  BY <1>5, <1>6, SaysShape
<1>9. \A k \in Nodes : DOMAIN ipc'[k] = DOMAIN ipc[k]
  BY <1>5, <1>6, SaysShape
<1>10. PICK s : s = ipc[h][f]
  OBVIOUS
<1>11. ipc'[h][f] = Append(s, m) /\ \A k \in Nodes : \A i \in DOMAIN ipc[k] : k # h \/ i # f => ipc'[k][i] = ipc[k][i]
  <2>1. s \in Seq(Msg)
    BY <1>8, <1>10
  <2>2. s \o <<m>> = Append(s, m)
    BY <1>3, <2>1
  <2> QED BY <1>5, <1>8, <1>10, <2>2 DEF Gains
<1>12. client'[c] = v /\ \A d \in Clients : d # c => client'[d] = client[d]
  BY <1>4 DEF IInv, TypeInv
<1>13. Acts(c) /\ OwnersGrow /\ inbox' = inbox /\ UNCHANGED <<deployment, main, body, overlap, incomingconnection>>
  <2>1. OwnersGrow
    BY <1>7, OwnersSame
  <2>2. /\ UNCHANGED <<deployment, main, cmd, body, objects, serving, overlap, inbox>>
        /\ UNCHANGED <<incomingconnection, incomingtag, outgoingconnection, allocation_return>>
        /\ UNCHANGED <<next_tag, next_object_id, allocation_id>>
    BY <1>4 DEF Untouched, mpi, maps, counters
  <2>3. \A k \in Nodes : \A i \in DOMAIN ipc'[k] : owner'[k][i] = c \/ (i \in DOMAIN ipc[k] /\ ipc'[k][i] = ipc[k][i])
    BY <1>7, <1>9, <1>11
  <2> QED BY <1>12, <2>1, <2>2, <2>3 DEF Acts
<1>14. BaseInv' /\ LeadsOn /\ (overlap \/ (ConnInv' /\ PendInv'))
  BY <1>4, <1>13, ActsKeep
<1>15. CASE overlap
  BY <1>13, <1>14, <1>15 DEF AInv
<1>16. CASE ~overlap
  <2>1. AllocInv /\ TalkInv /\ KnownInv
    BY <1>16 DEF AInv, WayInv, BaseInv
  <2>2. TalkInv'
    <3>1. ASSUME NEW d \in Clients \ Grouping, client'[d].at # "idle" PROVE Same(d) \/ TalksNext(d)
      <4>1. CASE d # c
        BY <1>12, <1>13, <3>1, <4>1, ActsSame
      <4>2. CASE d = c
        <5>1. PICK j, q, b : j = (f \in DOMAIN incomingconnection[h]) /\ q = client[c] /\ b = inbox[c]
          OBVIOUS
        <5>2. Talks(c, h, q, s, b, j) /\ s \in Seq(Msg) /\ q.at = "bound" /\ v.id = q.id
          BY <1>3, <1>4, <1>5, <1>8, <1>10, <2>1, <5>1 DEF TalkInv
        <5>3. Talks(c, h, v, Append(s, m), b, j)
          BY <1>3, <5>2, CallsOne
        <5>4. /\ client'[c].fd = f /\ ipc'[Home[c]][client'[c].fd] = Append(s, m) /\ inbox'[c] = b
              /\ (client'[c].fd \in DOMAIN incomingconnection'[Home[c]]) = j
          BY <1>3, <1>5, <1>11, <1>12, <1>13, <5>1
        <5>5. TalksNext(c)
          BY <1>5, <1>12, <5>3, <5>4 DEF TalksNext
        <5> QED BY <4>2, <5>5
      <4> QED BY <4>1, <4>2
    <3>2. ASSUME NEW k \in Nodes, NEW i \in DOMAIN owner'[k], owner'[k][i] \in Clients \ Grouping, i # client'[owner'[k][i]].fd
          PROVE  ipc'[k][i] = <<>>
      <4>1. client'[owner[k][i]].fd = client[owner[k][i]].fd /\ i \in DOMAIN owner[k]
        BY <1>3, <1>7, <1>12, <3>2
      <4>2. ipc[k][i] = <<>> /\ i \in DOMAIN ipc[k]
        BY <1>7, <2>1, <3>2, <4>1, Sockets DEF TalkInv, OInv
      <4>3. k # h \/ i # f
        BY <1>5, <1>7, <3>2, <4>1
      <4> QED BY <1>11, <4>2, <4>3
    <3> QED BY <1>13, <2>1, <3>1, <3>2, TalksOn
  <2>3. AllocInv'
    <3>1. \A k \in Nodes : \A i \in DOMAIN ipc'[k] : \A x \in ToSet(ipc'[k][i]) :
             x.op = "alloc" => i \in DOMAIN ipc[k] /\ x \in ToSet(ipc[k][i])
      <4>1. s \in Seq(Msg)
        BY <1>8, <1>10
      <4>2. ToSet(Append(s, m)) \subseteq ToSet(s) \cup {m}
        BY <1>3, <4>1, AppendSet
      <4> QED BY <1>3, <1>9, <1>10, <1>11, <4>2
    <3>2. \A d \in Clients \ Grouping : client[d].at = "alloc" /\ inbox[d] = <<>> =>
             client'[d] = client[d] /\ inbox'[d] = inbox[d]
      BY <1>4, <1>12, <1>13
    <3> QED BY <1>13, <1>14, <2>1, <3>1, <3>2, AllocKept
  <2> QED BY <1>14, <1>16, <2>2, <2>3 DEF AInv, WayInv
<1> QED BY <1>15, <1>16

LEMMA ReadA ==
    ASSUME IInv, OInv, IInv', OInv', AInv, NEW c \in Clients \ Grouping, Read(c)
    PROVE  AInv'
<1>1. /\ client[c].at \in {"alloc", "wait", "final"} /\ inbox[c] # <<>>
      /\ inbox' = [inbox EXCEPT ![c] = Tail(@)]
      /\ UNCHANGED <<deployment, main, cmd, body, ipc, owner, objects, serving, overlap>>
      /\ UNCHANGED <<incomingconnection, incomingtag, outgoingconnection, allocation_return>>
      /\ UNCHANGED <<next_tag, next_object_id, allocation_id>>
  BY DEF Read, mpi, local, maps, counters
<1>2. PICK at : /\ client' = [client EXCEPT ![c].at = at]
                /\ client[c].at = "wait" => at = "bound"
                /\ client[c].at = "alloc" => at = "ready"
                /\ at # "idle"
  BY <1>1 DEF Read
<1>3. client \in [Clients -> ClientType] /\ inbox \in [Clients -> Seq(Msg)]
  BY DEF IInv, TypeInv, OInv, KindInv
<1>4. /\ client'[c].fd = client[c].fd /\ client'[c].at = at /\ client'[c].id = client[c].id /\ inbox'[c] = Tail(inbox[c])
      /\ \A d \in Clients : d # c => client'[d] = client[d] /\ inbox'[d] = inbox[d]
  BY <1>1, <1>2, <1>3 DEF ClientType
<1>5. Acts(c) /\ OwnersGrow
  <2>1. OwnersGrow
    BY <1>1, OwnersSame
  <2> QED BY <1>1, <1>4, <2>1 DEF Acts
<1>6. BaseInv' /\ LeadsOn /\ (overlap \/ (ConnInv' /\ PendInv'))
  BY <1>1, <1>5, ActsKeep
<1>7. CASE overlap
  BY <1>1, <1>6, <1>7 DEF AInv
<1>8. CASE ~overlap
  <2>1. AllocInv /\ TalkInv /\ KnownInv
    BY <1>8 DEF AInv, WayInv, BaseInv
  <2>2. TalkInv'
    <3>1. ASSUME NEW d \in Clients \ Grouping, client'[d].at # "idle" PROVE Same(d) \/ TalksNext(d)
      <4>1. CASE d # c
        BY <1>4, <1>5, <3>1, <4>1, ActsSame
      <4>2. CASE d = c
        <5>1. PICK h, v, s, b, j, w : /\ h = Home[c] /\ v = client[c] /\ s = ipc[h][v.fd] /\ b = inbox[c]
                                      /\ j = (v.fd \in DOMAIN incomingconnection[h]) /\ w = client'[c]
          OBVIOUS
        <5>2. Talks(c, h, v, s, b, j) /\ b # <<>> /\ b \in Seq(Msg) /\ w.id = v.id
          BY <1>1, <1>3, <1>4, <2>1, <5>1 DEF TalkInv
        <5>3. v.at \in {"alloc", "wait"} /\ w.at = (IF v.at = "wait" THEN "bound" ELSE "ready")
          BY <1>1, <1>2, <1>4, <5>1, <5>2 DEF Talks
        <5>4. Talks(c, h, w, s, Tail(b), j)
          BY <5>2, <5>3, ReadsOne
        <5>5. /\ client'[c].fd = v.fd /\ ipc'[Home[c]][client'[c].fd] = s /\ inbox'[c] = Tail(b)
              /\ (client'[c].fd \in DOMAIN incomingconnection'[Home[c]]) = j
          BY <1>1, <1>4, <5>1
        <5>6. TalksNext(c)
          BY <5>1, <5>4, <5>5 DEF TalksNext
        <5> QED BY <4>2, <5>6
      <4> QED BY <4>1, <4>2
    <3>2. \A d \in Clients \ Grouping : client'[d].fd = client[d].fd
      BY <1>4
    <3>3. \A k \in Nodes : \A i \in DOMAIN owner'[k] :
             owner'[k][i] \in Clients \ Grouping /\ i # client'[owner'[k][i]].fd => ipc'[k][i] = <<>>
      BY <1>1, <1>5, <2>1, <3>2, AloneOn
    <3> QED BY <1>1, <2>1, <3>1, <3>3, TalksOn
  <2>3. AllocInv'
    <3>1. \A d \in Clients \ Grouping : client[d].at = "alloc" /\ inbox[d] = <<>> =>
             client'[d] = client[d] /\ inbox'[d] = inbox[d]
      BY <1>1, <1>4
    <3> QED BY <1>1, <1>5, <1>6, <2>1, <3>1, AllocKept
  <2> QED BY <1>6, <1>8, <2>2, <2>3 DEF AInv, WayInv
<1> QED BY <1>7, <1>8

-----------------------------------------------------------------------------
(* Every answer finds its caller. *)

LEMMA InitA == Init /\ IInv => AInv
<1> SUFFICES ASSUME Init, IInv PROVE AInv
  OBVIOUS
<1>1. /\ body = {} /\ serving = {} /\ objects = {}
      /\ \A c \in Clients : client[c].at = "idle"
  BY DEF Init
<1>2. \A n \in Nodes : main[n].at = "poll" /\ next_object_id[n] = 1 /\ DOMAIN outgoingconnection[n] = {}
  BY DEF Init, Idle
<1>3. \A n \in Nodes : DOMAIN owner[n] = {1} /\ owner[n][1] = None /\ DOMAIN ipc[n] = {1} /\ ipc[n][1] = <<>>
  BY DEF Init
<1>4. \A n \in Nodes : \A f \in DOMAIN ipc[n] : ToSet(ipc[n][f]) = {}
  BY <1>3 DEF ToSet
<1>5. CommandInv
  <2>1. \A s, d \in Nodes : DOMAIN cmd[s][d] = {}
    BY DEF Init
  <2> QED BY <2>1 DEF CommandInv
<1>6. IdsInv
  BY <1>1, <1>2 DEF IdsInv
<1>7. KnownInv
  BY <1>1, <1>2 DEF KnownInv
<1>8. AllocInv
  <2>1. ASSUME NEW n \in Nodes, NEW f, NEW kind, NEW y, Token(kind, y, n, f) PROVE FALSE
    BY <1>1, <1>2, <1>4, <2>1 DEF Token, Executes
  <2> QED BY <2>1 DEF AllocInv
<1>9. TalkInv
  <2>1. None \notin Clients
    BY InterconnectorAssumption DEF Init, Clients
  <2> QED BY <1>1, <1>3, <2>1 DEF TalkInv
<1>10. ConnInv
  BY <1>1, <1>4 DEF ConnInv
<1>11. PendInv
  <2>1. ASSUME NEW h, NEW t, NEW w, NEW k, Pends(h, t, w, k) PROVE FALSE
    BY <1>1, <1>2, <2>1 DEF Pends, Entry
  <2> QED BY <2>1 DEF PendInv
<1> QED BY <1>5, <1>6, <1>7, <1>8, <1>9, <1>10, <1>11 DEF AInv, BaseInv, WayInv

LEMMA MainA ==
    ASSUME IInv, OInv, IInv', OInv', AInv, NEW n \in Nodes, Main(n)
    PROVE  AInv'
<1>1. ASSUME NEW fd \in DOMAIN ipc[n],
        \/ Terminate(n, fd) \/ Connection(n, fd) \/ AllocateHere(n, fd) \/ AllocateThere(n, fd)
        \/ AllocationFromMpi(n, fd) \/ RequestFromMpi(n, fd) \/ RedirectResponse(n, fd)
        \/ RedirectRequest(n, fd) \/ SpawnGroup(n, fd) \/ SetRank(n, fd) \/ ForwardToGroup(n, fd)
      PROVE AInv'
  BY <1>1, TerminateA, ConnectionA, AllocateHereA, AllocateThereA, AllocationFromMpiA, RequestFromMpiA,
     RedirectResponseA, RedirectRequestA, GroupTakesA
<1>2. CASE SaveReturn(n) \/ SendCompletes(n) \/ JoinThread(n)
  BY <1>2, SaveReturnA, ThreadA
<1> QED BY <1>1, <1>2 DEF Main

LEMMA ReceiverA ==
    ASSUME IInv, OInv, IInv', OInv', AInv, NEW n \in Nodes, Receiver(n)
    PROVE  AInv'
  BY ReceiveCommandA, ReceiveResponseA, ReceiveAllocatedA, GroupRunsA DEF Receiver

LEMMA ProgramA ==
    ASSUME IInv, OInv, IInv', OInv', AInv, NEW c \in Clients, Program(c) \/ Read(c)
    PROVE  AInv'
<1>1. CASE c \in Grouping
  <2>1. ~Allocate(c) /\ (\A o : ~Bind(c, o)) /\ \A sync : ~Call(c, sync)
    BY <1>1 DEF Allocate, Bind, Call, Grouping
  <2>2. \/ AllocateGroup(c) \/ Finalize(c) \/ Read(c)
        \/ \E target \in 0 .. All, sync \in BOOLEAN : GroupCall(c, target, sync)
    BY <2>1 DEF Program
  <2> QED BY <1>1, <2>2, GroupProgramA
<1>2. CASE c \in Clients \ Grouping
  <2>1. ~AllocateGroup(c) /\ ~Finalize(c) /\ \A target, sync : ~GroupCall(c, target, sync)
    BY <1>2 DEF AllocateGroup, Finalize, GroupCall, Grouping
  <2>2. \/ Allocate(c) \/ Read(c)
        \/ \E o \in objects : Bind(c, o)
        \/ \E sync \in BOOLEAN : Call(c, sync)
    BY <2>1 DEF Program
  <2> QED BY <1>2, <2>2, AllocateA, BindA, CallA, ReadA
<1> QED BY <1>1, <1>2

LEMMA UnchangedA ==
    ASSUME IInv, OInv, IInv', OInv', AInv, UNCHANGED vars
    PROVE  AInv'
<1>1. UNCHANGED <<deployment, cmd, body, serving, objects, maps, counters, overlap, ipc, owner, client, inbox, main>>
  BY DEF vars, local, mpi
<1>2. CommandInv'
  BY <1>1, CommandsStay DEF AInv, BaseInv
<1>3. OwnersGrow
  BY <1>1, OwnersSame
<1>4. Apart
  BY <1>1, <1>3 DEF Apart, Other
<1> QED BY <1>2, <1>4, ApartA

LEMMA NextA == IInv /\ OInv /\ IInv' /\ OInv' /\ AInv /\ [Next]_vars => AInv'
<1> SUFFICES ASSUME IInv, OInv, IInv', OInv', AInv, [Next]_vars PROVE AInv'
  OBVIOUS
<1>1. ASSUME NEW n \in Nodes, Main(n) \/ Receiver(n) \/ CallsBack(n) PROVE AInv'
  BY <1>1, MainA, ReceiverA, ObjectCallsBackA DEF CallsBack
<1>2. CASE ObjectServes \/ Members
  BY <1>2, ObjectServesA, GroupRunsA DEF Members
<1>3. ASSUME NEW c \in Clients, Program(c) \/ Read(c) PROVE AInv'
  BY <1>3, ProgramA
<1>4. CASE ProgramTerminates
  BY <1>4, ProgramTerminatesA
<1>5. CASE UNCHANGED vars
  BY <1>5, UnchangedA
<1> QED BY <1>1, <1>2, <1>3, <1>4, <1>5 DEF Next

\* What is owed to every client, and where it is on its way through the
\* interconnectors, is known in every reachable state: no allocation and no
\* call is answered twice, or under the tag or number of another.
THEOREM AnswersInductive == Spec => [](IInv /\ OInv /\ AInv)
<1>1. Init => IInv /\ OInv /\ AInv
  BY InitInv, InitO, InitA
<1>2. IInv /\ OInv /\ AInv /\ [Next]_vars => (IInv /\ OInv /\ AInv)'
  BY NextInv, NextO, NextA
<1> QED BY <1>1, <1>2, PTL DEF Spec

LEMMA CallerRight == IInv /\ OInv /\ AInv => RightCaller
<1> SUFFICES ASSUME IInv, OInv, AInv, ~overlap, NEW c \in Clients \ Grouping, NEW i \in DOMAIN inbox[c]
             PROVE  /\ inbox[c][i].op = "address" =>
                        /\ client[c].at = "alloc"
                        /\ inbox[c][i].node = Place(client[c], Home[c])
                    /\ inbox[c][i].op # "address" => inbox[c][i].who = c /\ inbox[c][i].n = client[c].n
  BY DEF RightCaller, Place
<1>1. inbox[c] \in Seq(Msg) /\ inbox[c] # <<>>
  BY DEF OInv, KindInv
<1>2. client[c].at # "idle"
  BY <1>1 DEF OInv, QuietInv
<1>3. PICK s, j : Talks(c, Home[c], client[c], s, inbox[c], j)
  BY <1>2 DEF AInv, WayInv, TalkInv
<1>4. PICK b, v : b = inbox[c] /\ v = client[c]
  OBVIOUS
<1>5. Len(b) = 1 /\ i = 1
  <2>1. Len(b) = 1
    BY <1>1, <1>3, <1>4 DEF Talks
  <2> QED BY <1>1, <1>4, <2>1
<1>6. /\ b[1].op = "address" => v.at = "alloc" /\ b[1].node = Place(v, Home[c])
      /\ b[1].op # "address" => b[1].who = c /\ b[1].n = v.n
  BY <1>1, <1>3, <1>4 DEF Talks
<1> QED BY <1>4, <1>5, <1>6

\* The address of a new object and the answer to a call reach the client that
\* waits for them, through whatever connections, tags and numbers the nodes
\* gave them, unless a connection to an object carried two requests.
THEOREM RightCallerTheorem == Spec => []RightCaller
  BY AnswersInductive, CallerRight, PTL

\* Requests and answers find their way: the state is well formed and no message
\* is taken for another, between nodes, objects, clients and groups, on at most
\* a hundred nodes (from the hundred and first on, the name of an object is read
\* as that of another node).
THEOREM RoutedRightTheorem == Spec => [](World <= 100 => RoutedRight)
<1>1. (World <= 100 => RightObject) /\ TypeOK /\ OneBody /\ RightCaller /\ MultipleApart /\ (GroupExact /\ GroupAnswer)
      => (World <= 100 => RoutedRight)
  BY DEF RoutedRight
<1> QED BY <1>1, TypeCorrect, OneBodyTheorem, RightObjectTheorem, RightCallerTheorem, MultipleApartTheorem, GroupsRight, PTL
=============================================================================
