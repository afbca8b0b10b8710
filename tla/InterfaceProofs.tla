-------------------------- MODULE InterfaceProofs ---------------------------
(***************************************************************************)
(* Proofs about Interface: Survives, JoinedFirst and Paired hold for any   *)
(* number of threads and operations, any access point, any protocols and   *)
(* any encodings of the two sides.                                         *)
(***************************************************************************)
EXTENDS Interface, SequenceTheorems, TLAPS

Building == {"create", "status", "construct"}
Alone == Building \cup {"destroy", "assign", "rebind"}
Calls == Stubs \cup CoreCalls \cup {"status", "construct", "rebind"}
Ops == Joining \cup CoreCalls \cup Alone \cup {"none"}
Args == Encodings \cup {"xdr"}
Message == [by : Threads, op : Ops, arg : Args, enc : ClientEncodings]
Reply == [by : Threads, op : Ops, ok : BOOLEAN, enc : ClientEncodings]

Types ==
    /\ TypeOK
    /\ op \in [Threads -> Ops]
    /\ arg \in [Threads -> Args]
    /\ toServer \in Seq(Message)
    /\ toClient \in Seq(Reply)

\* Where a thread of the program is tells what it does; what replaces the
\* combox has the interface for itself, the allocating thread left aside.
UserInv ==
    \A t \in Users :
        /\ pc[t] \in Busy \cup {"idle"}
        /\ pc[t] \in {"enter", "join", "joined"} => op[t] \in Joining
        /\ pc[t] = "alloc" => op[t] = "create"
        /\ pc[t] \in {"bind", "connect"} => op[t] \in {"create", "assign"}
        /\ pc[t] = "check" => op[t] \in CoreCalls
        /\ pc[t] \in {"lock", "wait"} => op[t] \in Calls
        /\ pc[t] # "idle" =>
             /\ life = (IF op[t] \in Building THEN "making" ELSE "alive")
             /\ op[t] \in Alone => \A u \in Users \ {t} : pc[u] = "idle"
             /\ op[t] \in {"assign", "rebind"} => joined /\ assigned
        /\ pc[t] = "join" => ~joined /\ amutex = t

\* The allocating thread, and when it has been joined.
AllocInv ==
    /\ pc[Alloc] \in {"idle", "alloc", "bind", "connect", "lock", "wait", "ended", "reaped", "failed"}
    /\ pc[Alloc] \in {"alloc", "bind", "connect"} => op[Alloc] = "create"
    /\ pc[Alloc] \in {"lock", "wait"} => op[Alloc] \in {"status", "construct"}
    /\ (life = "none" \/ ~async) => pc[Alloc] = "idle" /\ joined
    /\ async => life # "making"
    /\ life = "dead" => joined
    /\ seen # None => joined /\ life \in {"alive", "dead"}
    /\ pc[Alloc] = "reaped" => joined
    /\ joined /\ async /\ life # "none" /\ ~assigned => pc[Alloc] = "reaped"
    /\ \A t \in Users :
         (pc[t] = "joined" \/ (pc[t] \in {"lock", "wait"} /\ op[t] \in Stubs)) => joined

\* The combox, unless the program used the interface during the allocation.
EarlyInv ==
    ~early =>
        /\ Allocating => ~joined /\ \A u \in Users : pc[u] \in {"idle", "enter", "join"}
        /\ \A t \in Threads : pc[t] = "connect" => combox = "made"
        /\ \A t \in Threads : pc[t] \in {"lock", "wait"} /\ op[t] \notin Stubs => combox # "none"
        /\ seen # None => seen = ap

\* What the allocating thread leaves, unless the program assigned.
BoundInv ==
    async /\ ~assigned =>
        /\ pc[Alloc] \in {"lock", "wait", "ended"} => combox = "connected"
        /\ pc[Alloc] = "reaped" /\ life = "alive" => combox = "connected"

\* One thread waits at a time, and holds the mutex.
WaitInv ==
    /\ \A t \in Threads : Alive /\ pc[t] = "wait" => imutex = t
    /\ \A t, u \in Threads : pc[t] = "wait" /\ pc[u] = "wait" => t = u
    /\ \A t \in Threads : pc[t] \in {"lock", "wait"} /\ op[t] = "encoding" => arg[t] \in ClientEncodings

\* The encoding of the broker's end after the two sides agreed on e.
BrokerSide(e) == IF proto = "uds" THEN "xdr" ELSE e

\* The messages of an open connection: requests nobody waits for, and at the
\* end the one of the thread that waits, or its answer.
WireInv ==
    /\ toClient # <<>> =>
         /\ Len(toClient) = 1 /\ toServer = <<>>
         /\ LET r == toClient[1]
            IN  /\ pc[r.by] = "wait" /\ r.op = op[r.by] /\ r.enc = enc
                /\ up => senc = BrokerSide(IF r.op = "encoding" /\ r.ok THEN arg[r.by] ELSE enc)
    /\ up /\ toClient = <<>> => senc = BrokerSide(enc)
    /\ up => \A i \in 1..Len(toServer) :
         LET m == toServer[i]
         IN  /\ m.enc = enc
             /\ m.op # "post" => /\ i = Len(toServer)
                                 /\ pc[m.by] = "wait" /\ m.op = op[m.by] /\ m.arg = arg[m.by]

IInv ==
    /\ Types
    /\ UserInv
    /\ AllocInv
    /\ EarlyInv
    /\ BoundInv
    /\ WaitInv
    /\ WireInv
    /\ Survives

-----------------------------------------------------------------------------
(* What the invariant says of the wire. *)

\* The messages on the connection are messages of threads.
LEMMA OnWire ==
    ASSUME IInv
    PROVE  /\ Len(toServer) \in Nat /\ Len(toClient) \in Nat
           /\ \A i \in 1..Len(toServer) : toServer[i] \in Message /\ toServer[i].by \in Threads
           /\ \A i \in 1..Len(toClient) : toClient[i] \in Reply /\ toClient[i].by \in Threads
<1>1. /\ Len(toServer) \in Nat /\ Len(toClient) \in Nat
      /\ \A i \in 1..Len(toServer) : toServer[i] \in Message
      /\ \A i \in 1..Len(toClient) : toClient[i] \in Reply
  BY DEF IInv, Types
<1>2. /\ \A m \in Message : m.by \in Threads
      /\ \A r \in Reply : r.by \in Threads
  BY DEF Message, Reply
<1> QED BY <1>1, <1>2

\* While nobody waits there is no answer, and nothing but posts is sent.
LEMMA Quiet ==
    ASSUME IInv, \A t \in Threads : pc[t] # "wait"
    PROVE  /\ toClient = <<>>
           /\ up => \A i \in 1..Len(toServer) : toServer[i].op = "post"
<1>1. toClient = <<>>
  <2> SUFFICES ASSUME toClient # <<>> PROVE FALSE
    OBVIOUS
  <2>1. pc[toClient[1].by] = "wait" /\ 1 \in 1..Len(toClient)
    BY DEF IInv, WireInv
  <2> QED BY <2>1, OnWire
<1> QED BY <1>1, OnWire DEF IInv, WireInv

\* A step that touches neither the messages nor who waits for an answer.
LEMMA WireFrame ==
    ASSUME IInv, UNCHANGED <<toServer, toClient, up, senc, proto, enc>>,
           \A u \in Threads : pc[u] = "wait" =>
               pc'[u] = "wait" /\ op'[u] = op[u] /\ arg'[u] = arg[u]
    PROVE  WireInv'
<1>1. ASSUME toClient # <<>>
      PROVE  LET r == toClient[1]
             IN  /\ pc'[r.by] = "wait" /\ r.op = op'[r.by] /\ r.enc = enc
                 /\ up => senc = BrokerSide(IF r.op = "encoding" /\ r.ok THEN arg'[r.by] ELSE enc)
  <2>1. 1 \in 1..Len(toClient)
    BY <1>1 DEF IInv, WireInv
  <2>2. toClient[1].by \in Threads
    BY <2>1, OnWire
  <2> QED BY <1>1, <2>2 DEF IInv, WireInv
<1>2. ASSUME up, NEW i \in 1..Len(toServer), toServer[i].op # "post"
      PROVE  LET m == toServer[i]
             IN  pc'[m.by] = "wait" /\ m.op = op'[m.by] /\ m.arg = arg'[m.by]
  <2>1. toServer[i].by \in Threads
    BY OnWire
  <2> QED BY <1>2, <2>1 DEF IInv, WireInv
<1> QED BY <1>1, <1>2 DEF IInv, WireInv, BrokerSide

\* A connection without messages.
LEMMA WireEmpty ==
    ASSUME toServer' = <<>>, toClient' = <<>>, up' => senc' = BrokerSide(enc)'
    PROVE  WireInv'
<1>1. Len(toServer') = 0
  OBVIOUS
<1> QED BY <1>1 DEF WireInv

\* A step that moves a thread and changes none of what the interface holds.
LEMMA TypesFrame ==
    ASSUME Types,
           UNCHANGED <<od, async, life, ap, combox, enc, arg, toServer, toClient, senc, proto, early,
                       assigned, ops>>,
           pc' \in [Threads -> Busy \cup {"idle", "ended", "reaped", "failed"}],
           op' \in [Threads -> Ops], joined' \in BOOLEAN,
           amutex' \in Users \cup {None}, imutex' \in Threads \cup {None},
           crash' \in {"none", "join", "no result", "terminate", "allocator", "race", "null"},
           up' => server' \in {"started", "built"}
    PROVE  Types'
<1>1. TypeOK
  BY DEF Types
<1>2. /\ od' \in ODs /\ async' \in BOOLEAN /\ joined' \in BOOLEAN /\ early' \in BOOLEAN
      /\ assigned' \in BOOLEAN /\ ops' \in 0..MaxOps
  BY <1>1 DEF TypeOK
<1>3. /\ life' \in {"none", "making", "alive", "dead"} /\ ap' \in {<<>>, Access}
      /\ combox' \in {"none", "made", "connected"}
      /\ enc' \in ClientEncodings /\ senc' \in ServerEncodings /\ proto' \in Registered \cup {"none"}
      /\ amutex' \in Users \cup {None} /\ imutex' \in Threads \cup {None}
      /\ pc' \in [Threads -> Busy \cup {"idle", "ended", "reaped", "failed"}]
  BY <1>1 DEF TypeOK
<1>4. TypeOK'
  BY <1>2, <1>3 DEF TypeOK
<1> QED BY <1>4 DEF Types

-----------------------------------------------------------------------------
(* Steps that leave the threads where they are. *)

\* The program dies of a cause that Survives knows.
LEMMA DiesInv ==
    ASSUME IInv, NEW why \in {"join", "no result", "allocator", "race", "null"}, Dies(why),
           why = "allocator" => Allocator(od) = "none",
           why = "join" => pc[Alloc] = "failed",
           why \in {"race", "null"} => early,
           why = "no result" => assigned
    PROVE  IInv'
<1>1. /\ UNCHANGED <<od, async, joined, life, ap, combox, enc, amutex, imutex, pc, op, arg, todo,
                     up, toServer, toClient, senc, proto, server, seen, early, assigned, ops>>
      /\ crash' = why
  BY DEF Dies, ivars, mvars, tvars, wire
<1>2. Types'
  BY <1>1, TypesFrame DEF IInv, Types, TypeOK, ServerDies
<1>3. UserInv' /\ AllocInv' /\ BoundInv'
  BY <1>1 DEF IInv, UserInv, AllocInv, BoundInv
<1>4. EarlyInv'
  BY <1>1 DEF IInv, EarlyInv, Allocating
<1>5. WaitInv'
  BY <1>1 DEF IInv, WaitInv, Alive
<1>6. WireInv'
  BY <1>1 DEF IInv, WireInv, BrokerSide
<1>7. Survives'
  BY <1>1 DEF Survives, Allocator
<1> QED BY <1>2, <1>3, <1>4, <1>5, <1>6, <1>7 DEF IInv

\* The object's process dies.
LEMMA ServerDiesInv ==
    ASSUME IInv, ServerDies
    PROVE  IInv'
<1>1. /\ UNCHANGED <<od, async, joined, life, ap, combox, enc, amutex, imutex, pc, op, arg, todo,
                     toServer, toClient, senc, proto, crash, seen, early, assigned, ops>>
      /\ up' = FALSE
  BY DEF ServerDies, ivars, mvars, tvars
<1>2. Types'
  BY <1>1, TypesFrame DEF IInv, Types, TypeOK, ServerDies
<1>3. UserInv' /\ AllocInv' /\ BoundInv'
  BY <1>1 DEF IInv, UserInv, AllocInv, BoundInv
<1>4. EarlyInv'
  BY <1>1 DEF IInv, EarlyInv, Allocating
<1>5. WaitInv'
  BY <1>1 DEF IInv, WaitInv, Alive
<1>6. WireInv'
  BY <1>1 DEF IInv, WireInv, BrokerSide
<1>7. Survives'
  BY <1>1 DEF IInv, Survives, Allocator
<1> QED BY <1>2, <1>3, <1>4, <1>5, <1>6, <1>7 DEF IInv

-----------------------------------------------------------------------------
(* The program starts something. *)

\* The generated constructor keeps the invariant.
LEMMA CreateInv ==
    ASSUME IInv, NEW t \in Users, NEW started \in BOOLEAN, Create(t, started)
    PROVE  IInv'
<1> DEFINE b == IF async THEN Alloc ELSE t
           where == IF started THEN "alloc" ELSE "failed"
<1>1. /\ UNCHANGED <<od, async, ap, combox, enc, amutex, imutex, arg, todo, up, toServer, toClient,
                     senc, proto, server, seen, crash, early, assigned>>
      /\ life = "none" /\ life' = (IF async THEN "alive" ELSE "making") /\ joined' = ~async
      /\ ops \in 0..MaxOps /\ ops < MaxOps /\ ops' = ops + 1 /\ crash = "none"
      /\ op' = [op EXCEPT ![b] = "create"] /\ pc' = [pc EXCEPT ![b] = where]
      /\ ~async => started
  BY DEF IInv, Types, TypeOK, Create, mvars, wire, Goto, Alive
<1>2. /\ b \in Threads /\ Alloc \notin Users /\ Threads = Users \cup {Alloc}
      /\ \A u \in Threads : pc[u] = "idle"
      /\ pc \in [Threads -> Busy \cup {"idle", "ended", "reaped", "failed"}]
      /\ op \in [Threads -> Ops]
  BY <1>1, InterfaceAssumption DEF IInv, Types, TypeOK, UserInv, AllocInv, Threads
<1>3. /\ \A u \in Threads : pc'[u] = IF u = b THEN where ELSE "idle"
      /\ \A u \in Threads : op'[u] = IF u = b THEN "create" ELSE op[u]
      /\ pc' \in [Threads -> Busy \cup {"idle", "ended", "reaped", "failed"}]
      /\ op' \in [Threads -> Ops]
  BY <1>1, <1>2 DEF Busy, Ops, Alone, Building
<1>4. Types'
  <2>1. ops' \in 0..MaxOps
    BY <1>1, InterfaceAssumption
  <2> QED BY <1>1, <1>3, <2>1 DEF IInv, Types, TypeOK
<1>5. UserInv'
  BY <1>1, <1>2, <1>3 DEF IInv, UserInv, Building, Alone, Busy
<1>6. AllocInv'
  BY <1>1, <1>2, <1>3 DEF IInv, AllocInv
<1>7. EarlyInv' /\ BoundInv'
  BY <1>1, <1>2, <1>3 DEF IInv, EarlyInv, BoundInv, AllocInv, Allocating
<1>8. WaitInv' /\ toClient' = <<>>
  <2>1. toClient = <<>>
    BY <1>2, Quiet
  <2> QED BY <1>1, <1>2, <1>3, <2>1 DEF WaitInv
<1>9. WireInv'
  <2>1. up => \A i \in 1..Len(toServer) : toServer[i].op = "post"
    BY <1>2, Quiet
  <2> QED BY <1>1, <1>8, <2>1 DEF IInv, WireInv, BrokerSide
<1>10. Survives'
  BY <1>1 DEF Survives
<1> QED BY <1>4, <1>5, <1>6, <1>7, <1>8, <1>9, <1>10 DEF IInv

\* Beginning a method, a copy, a serialization or the destructor keeps it.
LEMMA UseInv ==
    ASSUME IInv, NEW t \in Users, NEW o \in Joining, Use(t, o)
    PROVE  IInv'
<1>1. /\ UNCHANGED <<od, async, joined, life, ap, combox, enc, amutex, imutex, arg, todo, up,
                     toServer, toClient, senc, proto, server, seen, crash, early, assigned>>
      /\ life = "alive" /\ pc[t] = "idle"
      /\ ops \in 0..MaxOps /\ ops < MaxOps /\ ops' = ops + 1 /\ crash = "none"
      /\ op' = [op EXCEPT ![t] = o] /\ pc' = [pc EXCEPT ![t] = "enter"]
      /\ \A u \in Users \ {t} : op[u] \in {"destroy", "assign", "rebind"} => pc[u] = "idle"
      /\ o = "destroy" => \A u \in Users \ {t} : pc[u] = "idle"
  BY DEF IInv, Types, TypeOK, Use, Begin, ivars, mvars, wire, Goto, Alive, Others
<1>2. /\ t \in Threads /\ t # Alloc /\ Threads = Users \cup {Alloc}
      /\ pc \in [Threads -> Busy \cup {"idle", "ended", "reaped", "failed"}]
      /\ op \in [Threads -> Ops]
  BY <1>1, InterfaceAssumption DEF IInv, Types, TypeOK, Threads
<1>3. /\ \A u \in Threads : pc'[u] = IF u = t THEN "enter" ELSE pc[u]
      /\ \A u \in Threads : op'[u] = IF u = t THEN o ELSE op[u]
      /\ pc' \in [Threads -> Busy \cup {"idle", "ended", "reaped", "failed"}]
      /\ op' \in [Threads -> Ops]
  BY <1>1, <1>2 DEF Busy, Ops
<1>4. Types'
  <2>1. ops' \in 0..MaxOps
    BY <1>1, InterfaceAssumption
  <2> QED BY <1>1, <1>3, <2>1 DEF IInv, Types, TypeOK
<1>5. UserInv'
  BY <1>1, <1>2, <1>3 DEF IInv, UserInv, Building, Alone, Busy, Joining, Stubs
<1>6. AllocInv'
  BY <1>1, <1>2, <1>3 DEF IInv, AllocInv
<1>7. EarlyInv' /\ BoundInv'
  BY <1>1, <1>2, <1>3 DEF IInv, EarlyInv, BoundInv, Allocating
<1>8. WaitInv'
  BY <1>1, <1>2, <1>3 DEF IInv, WaitInv, Alive
<1>9. WireInv'
  BY <1>1, <1>3, WireFrame
<1>10. Survives'
  BY <1>1 DEF Survives
<1> QED BY <1>4, <1>5, <1>6, <1>7, <1>8, <1>9, <1>10 DEF IInv

\* Beginning a core call keeps it: one made during the allocation is early.
LEMMA UseCoreInv ==
    ASSUME IInv, NEW t \in Users, NEW o \in CoreCalls, NEW e \in Args, UseCore(t, o, e)
    PROVE  IInv'
<1>1. /\ UNCHANGED <<od, async, joined, life, ap, combox, enc, amutex, imutex, todo, up,
                     toServer, toClient, senc, proto, server, seen, crash, assigned>>
      /\ life = "alive" /\ pc[t] = "idle" /\ early' = (early \/ Allocating)
      /\ ops \in 0..MaxOps /\ ops < MaxOps /\ ops' = ops + 1 /\ crash = "none"
      /\ op' = [op EXCEPT ![t] = o] /\ pc' = [pc EXCEPT ![t] = "check"]
      /\ arg' = [arg EXCEPT ![t] = e]
      /\ \A u \in Users \ {t} : op[u] \in {"destroy", "assign", "rebind"} => pc[u] = "idle"
  BY DEF IInv, Types, TypeOK, UseCore, Begin, ivars, mvars, wire, Goto, Alive, Others
<1>2. /\ t \in Threads /\ t # Alloc /\ Threads = Users \cup {Alloc}
      /\ pc \in [Threads -> Busy \cup {"idle", "ended", "reaped", "failed"}]
      /\ op \in [Threads -> Ops] /\ arg \in [Threads -> Args]
  BY <1>1, InterfaceAssumption DEF IInv, Types, TypeOK, Threads
<1>3. /\ \A u \in Threads : pc'[u] = IF u = t THEN "check" ELSE pc[u]
      /\ \A u \in Threads : op'[u] = IF u = t THEN o ELSE op[u]
      /\ \A u \in Threads : arg'[u] = IF u = t THEN e ELSE arg[u]
      /\ pc' \in [Threads -> Busy \cup {"idle", "ended", "reaped", "failed"}]
      /\ op' \in [Threads -> Ops]
      /\ arg' \in [Threads -> Args]
  BY <1>1, <1>2 DEF Busy, Ops
<1>4. Types'
  <2>1. ops' \in 0..MaxOps
    BY <1>1, InterfaceAssumption
  <2>2. early' \in BOOLEAN
    BY <1>1 DEF IInv, Types, TypeOK, Allocating
  <2> QED BY <1>1, <1>3, <2>1, <2>2 DEF IInv, Types, TypeOK
<1>5. UserInv'
  BY <1>1, <1>2, <1>3 DEF IInv, UserInv, Building, Alone, Busy, CoreCalls
<1>6. AllocInv'
  BY <1>1, <1>2, <1>3 DEF IInv, AllocInv
<1>7. EarlyInv' /\ BoundInv'
  BY <1>1, <1>2, <1>3 DEF IInv, EarlyInv, BoundInv, Allocating
<1>8. WaitInv'
  BY <1>1, <1>2, <1>3 DEF IInv, WaitInv, Alive
<1>9. WireInv'
  BY <1>1, <1>3, WireFrame
<1>10. Survives'
  BY <1>1 DEF Survives
<1> QED BY <1>4, <1>5, <1>6, <1>7, <1>8, <1>9, <1>10 DEF IInv

\* The assignment operator keeps it.
LEMMA AssignInv ==
    ASSUME IInv, NEW t \in Users, NEW source \in {<<>>, Access}, Assign(t, source)
    PROVE  IInv'
<1> DEFINE where == IF source = <<>> THEN "idle" ELSE "bind"
<1>1. /\ UNCHANGED <<od, async, life, enc, amutex, imutex, arg, senc, proto, server, crash>>
      /\ life = "alive" /\ pc[t] = "idle" /\ early' = (early \/ Allocating)
      /\ ops \in 0..MaxOps /\ ops < MaxOps /\ ops' = ops + 1 /\ crash = "none"
      /\ op' = [op EXCEPT ![t] = "assign"] /\ pc' = [pc EXCEPT ![t] = where]
      /\ joined' = TRUE /\ assigned' = TRUE /\ seen' = None /\ ap' = source /\ combox' = "none"
      /\ up' = FALSE /\ toServer' = <<>> /\ toClient' = <<>>
      /\ \A u \in Users : pc[u] = "idle"
  BY DEF IInv, Types, TypeOK, Assign, Begin, mvars, Goto, Alive, Others
<1>2. /\ t \in Threads /\ t # Alloc /\ Threads = Users \cup {Alloc}
      /\ pc \in [Threads -> Busy \cup {"idle", "ended", "reaped", "failed"}]
      /\ op \in [Threads -> Ops]
  BY <1>1, InterfaceAssumption DEF IInv, Types, TypeOK, Threads
<1>3. /\ \A u \in Threads : pc'[u] = IF u = t THEN where ELSE pc[u]
      /\ \A u \in Threads : op'[u] = IF u = t THEN "assign" ELSE op[u]
      /\ pc' \in [Threads -> Busy \cup {"idle", "ended", "reaped", "failed"}]
      /\ op' \in [Threads -> Ops]
  BY <1>1, <1>2 DEF Busy, Ops, Alone
<1>4. Types'
  <2>1. ops' \in 0..MaxOps
    BY <1>1, InterfaceAssumption
  <2>2. early' \in BOOLEAN
    BY <1>1 DEF IInv, Types, TypeOK, Allocating
  <2>3. toServer' \in Seq(Message) /\ toClient' \in Seq(Reply)
    BY <1>1
  <2>4. ap' \in {<<>>, Access} /\ combox' \in {"none", "made", "connected"}
    BY <1>1
  <2>5. TypeOK'
    BY <1>1, <1>3, <2>1, <2>2, <2>4 DEF IInv, Types, TypeOK
  <2> QED BY <1>1, <1>3, <2>3, <2>5 DEF IInv, Types
<1>5. UserInv'
  BY <1>1, <1>2, <1>3 DEF IInv, UserInv, Building, Alone, Busy
<1>6. AllocInv'
  BY <1>1, <1>2, <1>3 DEF IInv, AllocInv
<1>7. EarlyInv' /\ BoundInv'
  BY <1>1, <1>2, <1>3 DEF IInv, EarlyInv, BoundInv, Allocating
<1>8. WaitInv'
  BY <1>1, <1>2, <1>3 DEF IInv, WaitInv, Alive
<1>9. WireInv'
  BY <1>1, WireEmpty
<1>10. Survives'
  BY <1>1 DEF Survives
<1> QED BY <1>4, <1>5, <1>6, <1>7, <1>8, <1>9, <1>10 DEF IInv

-----------------------------------------------------------------------------
(* Joining the allocating thread. *)

\* Entering the join block keeps it: one thread at a time is in the join.
LEMMA JoinLockInv ==
    ASSUME IInv, NEW t \in Threads, JoinLock(t)
    PROVE  IInv'
<1> DEFINE first == async /\ ~joined
           where == IF first THEN "join" ELSE "joined"
<1>1. /\ UNCHANGED <<od, async, joined, life, ap, combox, enc, imutex, op, arg, todo, up,
                     toServer, toClient, senc, proto, server, seen, crash, early, assigned, ops>>
      /\ pc[t] = "enter" /\ crash = "none" /\ (~async \/ amutex = None)
      /\ amutex' = (IF first THEN t ELSE amutex) /\ pc' = [pc EXCEPT ![t] = where]
  BY DEF JoinLock, ivars, wire, Goto, Alive
<1>2. /\ t \in Users /\ t # Alloc /\ Threads = Users \cup {Alloc} /\ None \notin Users
      /\ pc \in [Threads -> Busy \cup {"idle", "ended", "reaped", "failed"}]
      /\ amutex \in Users \cup {None}
  BY <1>1, InterfaceAssumption DEF IInv, Types, TypeOK, Threads, AllocInv
<1>3. /\ \A u \in Threads : pc'[u] = IF u = t THEN where ELSE pc[u]
      /\ pc' \in [Threads -> Busy \cup {"idle", "ended", "reaped", "failed"}]
      /\ amutex' \in Users \cup {None}
  BY <1>1, <1>2 DEF Busy
<1>4. Types'
  BY <1>1, <1>3 DEF IInv, Types, TypeOK
<1>5. UserInv'
  <2>1. \A u \in Users : pc[u] = "join" => u = amutex /\ async
    BY <1>2 DEF IInv, UserInv, AllocInv
  <2> QED BY <1>1, <1>2, <1>3, <2>1 DEF IInv, UserInv, Building, Alone, Busy
<1>6. AllocInv'
  BY <1>1, <1>2, <1>3 DEF IInv, AllocInv
<1>7. EarlyInv' /\ BoundInv'
  BY <1>1, <1>2, <1>3 DEF IInv, EarlyInv, BoundInv, AllocInv, Allocating
<1>8. WaitInv'
  BY <1>1, <1>2, <1>3 DEF IInv, WaitInv, Alive
<1>9. WireInv'
  BY <1>1, <1>3, WireFrame
<1>10. Survives'
  BY <1>1 DEF Survives
<1> QED BY <1>4, <1>5, <1>6, <1>7, <1>8, <1>9, <1>10 DEF IInv

\* pthread_join keeps it: the thread is joined once.
LEMMA JoinInv ==
    ASSUME IInv, NEW t \in Threads, Join(t)
    PROVE  IInv'
<1>1. /\ pc[t] = "join" /\ crash = "none" /\ t \in Users /\ t # Alloc /\ Threads = Users \cup {Alloc}
      /\ ~joined /\ amutex = t /\ None \notin Users
      /\ pc \in [Threads -> Busy \cup {"idle", "ended", "reaped", "failed"}]
  BY InterfaceAssumption DEF Join, Alive, IInv, UserInv, AllocInv, Threads, Types, TypeOK
<1>2. CASE Dies("join")
  <2>1. pc[Alloc] = "failed"
    BY <1>1, <1>2 DEF Join, IInv, AllocInv, Dies, PthreadJoin
  <2> QED BY <1>2, <2>1, DiesInv
<1>3. CASE pc[Alloc] \notin {"failed", "reaped"}
  <2>1. /\ UNCHANGED <<od, async, life, ap, combox, enc, imutex, op, arg, todo, up,
                       toServer, toClient, senc, proto, server, seen, crash, early, assigned, ops>>
        /\ pc[Alloc] = "ended" /\ pc' = [pc EXCEPT ![t] = "joined", ![Alloc] = "reaped"]
        /\ joined' = TRUE /\ amutex' = None
    BY <1>3 DEF Join, PthreadJoin, wire
  <2>2. /\ \A u \in Threads : pc'[u] = IF u = t THEN "joined" ELSE IF u = Alloc THEN "reaped" ELSE pc[u]
        /\ pc' \in [Threads -> Busy \cup {"idle", "ended", "reaped", "failed"}]
    BY <1>1, <2>1 DEF Busy
  <2>3. Types'
    BY <1>1, <2>1, <2>2, TypesFrame DEF IInv, Types, TypeOK
  <2>4. UserInv'
    <3>1. \A u \in Users : pc[u] = "join" => u = t
      BY <1>1 DEF IInv, UserInv
    <3> QED BY <1>1, <2>1, <2>2, <3>1 DEF IInv, UserInv, Building, Alone, Busy
  <2>5. AllocInv'
    BY <1>1, <2>1, <2>2 DEF IInv, AllocInv
  <2>6. EarlyInv' /\ BoundInv'
    BY <1>1, <2>1, <2>2 DEF IInv, EarlyInv, BoundInv, AllocInv, Allocating
  <2>7. WaitInv'
    BY <1>1, <2>1, <2>2 DEF IInv, WaitInv, Alive
  <2>8. WireInv'
    BY <1>1, <2>1, <2>2, WireFrame
  <2>9. Survives'
    BY <1>1, <2>1 DEF Survives
  <2> QED BY <2>3, <2>4, <2>5, <2>6, <2>7, <2>8, <2>9 DEF IInv
<1> QED BY <1>2, <1>3 DEF Join

-----------------------------------------------------------------------------
(* A thread gives up what it does. *)

\* An exception nobody catches ends the program.
LEMMA TerminateInv ==
    ASSUME IInv, crash' = "terminate", imutex' \in {imutex, None},
           UNCHANGED <<od, async, joined, life, ap, combox, enc, amutex, pc, op, arg, todo,
                       up, toServer, toClient, senc, proto, server, seen, early, assigned, ops>>
    PROVE  IInv'
<1>1. Types'
  BY TypesFrame DEF IInv, Types, TypeOK
<1>2. UserInv' /\ AllocInv' /\ BoundInv'
  BY DEF IInv, UserInv, AllocInv, BoundInv
<1>3. EarlyInv'
  BY DEF IInv, EarlyInv, Allocating
<1>4. WaitInv'
  BY DEF IInv, WaitInv, Alive
<1>5. WireInv'
  BY DEF IInv, WireInv, BrokerSide
<1>6. Survives'
  BY DEF Survives
<1> QED BY <1>1, <1>2, <1>3, <1>4, <1>5, <1>6 DEF IInv

\* A constructor that fails takes the interface with it.
LEMMA CreatorGivesUp ==
    ASSUME IInv, Alive, NEW t \in Users, pc[t] # "idle", op[t] \in Building,
           pc' = [pc EXCEPT ![t] = "idle"], life' = "dead", Release, imutex' \in {imutex, None},
           UNCHANGED <<od, async, amutex, op, arg, server, seen, crash, early, assigned, ops>>
    PROVE  IInv'
<1>1. /\ t \in Threads /\ t # Alloc /\ Threads = Users \cup {Alloc}
      /\ pc \in [Threads -> Busy \cup {"idle", "ended", "reaped", "failed"}]
      /\ ~async /\ joined /\ pc[Alloc] = "idle" /\ \A u \in Users \ {t} : pc[u] = "idle"
      /\ life = "making"
  BY InterfaceAssumption DEF IInv, Types, TypeOK, Threads, UserInv, AllocInv, Alone
<1>2. /\ \A u \in Threads : pc'[u] = "idle"
      /\ pc' \in [Threads -> Busy \cup {"idle", "ended", "reaped", "failed"}]
  BY <1>1
<1>3. /\ combox' = "none" /\ up' = FALSE /\ toServer' = <<>> /\ toClient' = <<>>
      /\ UNCHANGED <<joined, ap, enc, senc, proto>>
  BY DEF Release
<1>4. Types'
  <2>1. toServer' \in Seq(Message) /\ toClient' \in Seq(Reply)
    BY <1>3
  <2>2. TypeOK'
    BY <1>2, <1>3 DEF IInv, Types, TypeOK
  <2> QED BY <2>1, <2>2 DEF IInv, Types
<1>5. UserInv'
  BY <1>1, <1>2 DEF UserInv
<1>6. AllocInv'
  BY <1>1, <1>2, <1>3 DEF IInv, AllocInv
<1>7. EarlyInv' /\ BoundInv'
  BY <1>1, <1>2, <1>3 DEF IInv, EarlyInv, BoundInv, Allocating, AllocInv
<1>8. WaitInv'
  BY <1>1, <1>2 DEF WaitInv
<1>9. WireInv'
  BY <1>3, WireEmpty
<1>10. Survives'
  BY DEF Survives, Alive
<1> QED BY <1>4, <1>5, <1>6, <1>7, <1>8, <1>9, <1>10 DEF IInv

\* An operation of the program that fails, or ends, leaves the interface as it is.
LEMMA UserGivesUp ==
    ASSUME IInv, Alive, NEW t \in Users, pc[t] # "idle",
           pc' = [pc EXCEPT ![t] = "idle"],
           \/ imutex' = imutex /\ pc[t] # "wait"
           \/ imutex' = None /\ \A u \in Threads \ {t} : pc[u] # "wait",
           pc[t] = "wait" => toClient = <<>> /\ ~up,
           UNCHANGED <<od, async, joined, life, ap, combox, enc, amutex, op, arg, up, toServer,
                       toClient, senc, proto, server, seen, crash, early, assigned, ops>>
    PROVE  IInv'
<1>1. /\ t \in Threads /\ t # Alloc /\ Threads = Users \cup {Alloc}
      /\ pc \in [Threads -> Busy \cup {"idle", "ended", "reaped", "failed"}]
  BY InterfaceAssumption DEF IInv, Types, TypeOK, Threads
<1>2. /\ \A u \in Threads : pc'[u] = IF u = t THEN "idle" ELSE pc[u]
      /\ pc' \in [Threads -> Busy \cup {"idle", "ended", "reaped", "failed"}]
  BY <1>1
<1>3. imutex' \in Threads \cup {None}
  BY DEF IInv, Types, TypeOK
<1>4. Types'
  BY <1>2, <1>3, TypesFrame DEF IInv, Types, TypeOK
<1>5. UserInv'
  BY <1>1, <1>2 DEF IInv, UserInv
<1>6. AllocInv'
  BY <1>1, <1>2 DEF IInv, AllocInv
<1>7. EarlyInv' /\ BoundInv'
  BY <1>1, <1>2 DEF IInv, EarlyInv, BoundInv, Allocating
<1>8. WaitInv'
  BY <1>1, <1>2 DEF IInv, WaitInv, Alive
<1>9. WireInv'
  <2>1. CASE pc[t] = "wait"
    BY <2>1 DEF WireInv
  <2>2. CASE pc[t] # "wait"
    BY <1>2, <2>2, WireFrame
  <2> QED BY <2>1, <2>2
<1>10. Survives'
  BY DEF Survives, Alive
<1> QED BY <1>4, <1>5, <1>6, <1>7, <1>8, <1>9, <1>10 DEF IInv

\* Bind catches the exception of BindStatus and goes on with the next address.
LEMMA BindGoesOn ==
    ASSUME IInv, Alive, NEW t \in Threads, pc[t] \in {"lock", "wait"}, op[t] \in {"status", "rebind"},
           pc' = [pc EXCEPT ![t] = "bind"],
           op' = [op EXCEPT ![t] = IF @ = "status" THEN "create" ELSE "assign"],
           imutex' = None, \A u \in Threads \ {t} : pc[u] # "wait",
           pc[t] = "wait" => toClient = <<>> /\ ~up,
           UNCHANGED <<od, async, joined, life, ap, combox, enc, amutex, arg, up, toServer,
                       toClient, senc, proto, server, seen, crash, early, assigned, ops>>
    PROVE  IInv'
<1> DEFINE o == IF op[t] = "status" THEN "create" ELSE "assign"
<1>1. /\ Alloc \notin Users /\ Threads = Users \cup {Alloc}
      /\ pc \in [Threads -> Busy \cup {"idle", "ended", "reaped", "failed"}]
      /\ op \in [Threads -> Ops]
  BY InterfaceAssumption DEF IInv, Types, TypeOK, Threads
<1>2. /\ \A u \in Threads : pc'[u] = IF u = t THEN "bind" ELSE pc[u]
      /\ \A u \in Threads : op'[u] = IF u = t THEN o ELSE op[u]
      /\ pc' \in [Threads -> Busy \cup {"idle", "ended", "reaped", "failed"}]
      /\ op' \in [Threads -> Ops]
  BY <1>1 DEF Busy, Ops, Alone, Building
<1>4. Types'
  BY <1>2, TypesFrame DEF IInv, Types, TypeOK
<1>5. UserInv'
  BY <1>1, <1>2 DEF IInv, UserInv, Building, Alone, Busy
<1>6. AllocInv'
  BY <1>1, <1>2 DEF IInv, AllocInv
<1>7. EarlyInv' /\ BoundInv'
  BY <1>1, <1>2 DEF IInv, EarlyInv, BoundInv, Allocating
<1>8. WaitInv'
  BY <1>1, <1>2 DEF IInv, WaitInv, Alive
<1>9. WireInv'
  <2>1. CASE pc[t] = "wait"
    BY <2>1 DEF WireInv
  <2>2. CASE pc[t] # "wait"
    BY <1>2, <2>2, WireFrame
  <2> QED BY <2>1, <2>2
<1>10. Survives'
  BY DEF Survives, Alive
<1> QED BY <1>4, <1>5, <1>6, <1>7, <1>8, <1>9, <1>10 DEF IInv

\* An exception leaves what a thread was doing.
LEMMA ThrowsInv ==
    ASSUME IInv, Alive, NEW t \in Threads, pc[t] # "idle", Throws(t),
           \/ imutex' = imutex /\ pc[t] # "wait"
           \/ imutex' = None /\ \A u \in Threads \ {t} : pc[u] # "wait",
           pc[t] = "wait" => t = Alloc \/ (toClient = <<>> /\ ~up),
           UNCHANGED <<od, async, amutex, op, arg, todo, server, seen, early, assigned, ops>>
    PROVE  IInv'
<1>1. CASE t = Alloc
  BY <1>1, TerminateInv DEF Throws, ivars, wire
<1>2. CASE t # Alloc /\ op[t] = "create"
  <2>1. t \in Users /\ op[t] \in Building
    BY <1>2 DEF Threads, Building
  <2>2. /\ pc' = [pc EXCEPT ![t] = "idle"] /\ life' = "dead" /\ Release
        /\ UNCHANGED crash /\ imutex' \in {imutex, None}
    BY <1>2 DEF Throws, Goto
  <2> QED BY <2>1, <2>2, CreatorGivesUp
<1>3. CASE t # Alloc /\ op[t] # "create"
  <2>1. t \in Users
    BY <1>3 DEF Threads
  <2>2. /\ pc' = [pc EXCEPT ![t] = "idle"]
        /\ UNCHANGED <<joined, life, ap, combox, enc, up, toServer, toClient, senc, proto, crash>>
    BY <1>3 DEF Throws, Goto, ivars, wire
  <2> QED BY <1>3, <2>1, <2>2, UserGivesUp
<1> QED BY <1>1, <1>2, <1>3

\* Send or Recv fails, or the remote constructor does.
LEMMA BrokenInv ==
    ASSUME IInv, Alive, NEW t \in Threads, pc[t] \in {"lock", "wait"}, Broken(t),
           \A u \in Threads \ {t} : pc[u] # "wait",
           pc[t] = "wait" => op[t] = "construct" \/ (toClient = <<>> /\ ~up),
           UNCHANGED <<od, async, amutex, arg, server, seen, early, assigned, ops>>
    PROVE  IInv'
<1>1. CASE op[t] \in {"status", "rebind"}
  <2>1. /\ pc' = [pc EXCEPT ![t] = "bind"] /\ imutex' = None
        /\ op' = [op EXCEPT ![t] = IF @ = "status" THEN "create" ELSE "assign"]
        /\ UNCHANGED <<joined, life, ap, combox, enc, up, toServer, toClient, senc, proto, crash>>
    BY <1>1 DEF Broken, Goto, ivars, wire
  <2> QED BY <1>1, <2>1, BindGoesOn
<1>2. CASE op[t] = "construct" /\ t # Alloc
  <2>1. t \in Users /\ op[t] \in Building
    BY <1>2 DEF Threads, Building
  <2>2. /\ pc' = [pc EXCEPT ![t] = "idle"] /\ life' = "dead" /\ Release
        /\ UNCHANGED <<op, crash>> /\ imutex' \in {imutex, None}
    BY <1>2 DEF Broken, Goto
  <2> QED BY <2>1, <2>2, CreatorGivesUp
<1>3. CASE op[t] \notin {"status", "rebind"} /\ ~(op[t] = "construct" /\ t # Alloc)
  <2>1. Throws(t) /\ imutex' = None /\ UNCHANGED <<op, todo>>
    BY <1>3 DEF Broken
  <2> QED BY <1>3, <2>1, ThrowsInv
<1> QED BY <1>1, <1>2, <1>3

-----------------------------------------------------------------------------
(* After the join. *)

\* What follows the join keeps it.
LEMMA JoinedInv ==
    ASSUME IInv, NEW t \in Threads, Joined(t)
    PROVE  IInv'
<1>1. /\ pc[t] = "joined" /\ crash = "none" /\ t \in Users /\ t # Alloc
      /\ Threads = Users \cup {Alloc} /\ joined /\ life = "alive" /\ op[t] \in Joining
      /\ pc \in [Threads -> Busy \cup {"idle", "ended", "reaped", "failed"}]
      /\ op \in [Threads -> Ops]
      /\ UNCHANGED <<od, async, amutex, imutex, arg, todo, server, early, assigned, ops>>
  BY InterfaceAssumption DEF Joined, Alive, IInv, UserInv, AllocInv, Threads, Types, TypeOK, mvars,
                             Building, Joining, Stubs
<1>2. CASE op[t] = "call" /\ async /\ combox = "none"
  <2>1. Dies("no result")
    BY <1>1, <1>2 DEF Joined, Stubs
  <2>2. assigned
    BY <1>1, <1>2 DEF IInv, AllocInv, BoundInv, Types, TypeOK
  <2> QED BY <2>1, <2>2, DiesInv
<1>3. CASE op[t] = "post" /\ async /\ combox = "none"
  <2>1. pc' = [pc EXCEPT ![t] = "idle"] /\ UNCHANGED <<ivars, op, wire, seen, crash>>
    BY <1>1, <1>3 DEF Joined, Stubs, Ends, Goto
  <2>2. UNCHANGED <<joined, life, ap, combox, enc, up, toServer, toClient, senc, proto>>
    BY <2>1 DEF ivars, wire
  <2> QED BY <1>1, <2>1, <2>2, UserGivesUp DEF Alive
<1>4. CASE op[t] = "copy"
  <2>1. /\ pc' = [pc EXCEPT ![t] = "idle"] /\ seen' = ap
        /\ UNCHANGED <<joined, life, ap, combox, enc, up, toServer, toClient, senc, proto, op, crash>>
    BY <1>1, <1>4 DEF Joined, Stubs, Ends, Goto, ivars, wire
  <2>2. /\ \A u \in Threads : pc'[u] = IF u = t THEN "idle" ELSE pc[u]
        /\ pc' \in [Threads -> Busy \cup {"idle", "ended", "reaped", "failed"}]
    BY <1>1, <2>1
  <2>3. Types'
    BY <1>1, <2>1, <2>2, TypesFrame DEF IInv, Types, TypeOK
  <2>4. UserInv'
    BY <1>1, <2>1, <2>2 DEF IInv, UserInv
  <2>5. AllocInv'
    BY <1>1, <2>1, <2>2 DEF IInv, AllocInv
  <2>6. EarlyInv' /\ BoundInv'
    BY <1>1, <2>1, <2>2 DEF IInv, EarlyInv, BoundInv, Allocating
  <2>7. WaitInv'
    BY <1>1, <2>1, <2>2 DEF IInv, WaitInv, Alive
  <2>8. WireInv'
    BY <1>1, <2>1, <2>2, WireFrame
  <2>9. Survives'
    BY <1>1, <2>1 DEF Survives
  <2> QED BY <2>3, <2>4, <2>5, <2>6, <2>7, <2>8, <2>9 DEF IInv
<1>5. CASE op[t] = "destroy"
  <2>1. /\ pc' = [pc EXCEPT ![t] = "idle"] /\ life' = "dead" /\ combox' = "none"
        /\ up' = FALSE /\ toServer' = <<>> /\ toClient' = <<>>
        /\ UNCHANGED <<joined, ap, enc, senc, proto, op, seen, crash>>
    BY <1>1, <1>5 DEF Joined, Stubs, Ends, Goto, Release
  <2>2. /\ \A u \in Threads : pc'[u] = IF u = t THEN "idle" ELSE pc[u]
        /\ pc' \in [Threads -> Busy \cup {"idle", "ended", "reaped", "failed"}]
        /\ \A u \in Users : pc'[u] = "idle"
    BY <1>1, <1>5, <2>1 DEF IInv, UserInv, Alone
  <2>3. Types'
    <3>1. toServer' \in Seq(Message) /\ toClient' \in Seq(Reply)
      BY <2>1
    <3>2. TypeOK'
      BY <1>1, <2>1, <2>2 DEF IInv, Types, TypeOK
    <3> QED BY <1>1, <2>1, <3>1, <3>2 DEF IInv, Types
  <2>4. UserInv'
    BY <2>2 DEF UserInv
  <2>5. AllocInv'
    BY <1>1, <2>1, <2>2 DEF IInv, AllocInv
  <2>6. EarlyInv' /\ BoundInv'
    BY <1>1, <2>1, <2>2 DEF IInv, EarlyInv, BoundInv, AllocInv, Allocating, Types, TypeOK
  <2>7. WaitInv'
    BY <1>1, <2>1, <2>2 DEF IInv, WaitInv, Alive
  <2>8. WireInv'
    BY <2>1, WireEmpty
  <2>9. Survives'
    BY <1>1, <2>1 DEF Survives
  <2> QED BY <2>3, <2>4, <2>5, <2>6, <2>7, <2>8, <2>9 DEF IInv
<1>6. ASSUME NEW o \in Ops, NEW where \in {"lock", "check"},
             op' = [op EXCEPT ![t] = o], pc' = [pc EXCEPT ![t] = where],
             \/ where = "lock" /\ o = op[t] /\ o \in Stubs
             \/ where = "check" /\ o = "ref" /\ op[t] = "pack",
             UNCHANGED <<joined, life, ap, combox, enc, up, toServer, toClient, senc, proto, seen, crash>>
      PROVE  IInv'
  <2>1. /\ \A u \in Threads : pc'[u] = IF u = t THEN where ELSE pc[u]
        /\ \A u \in Threads : op'[u] = IF u = t THEN o ELSE op[u]
        /\ pc' \in [Threads -> Busy \cup {"idle", "ended", "reaped", "failed"}]
        /\ op' \in [Threads -> Ops]
    BY <1>1, <1>6 DEF Busy
  <2>3. Types'
    BY <1>1, <1>6, <2>1, TypesFrame DEF IInv, Types, TypeOK
  <2>4. UserInv'
    BY <1>1, <1>6, <2>1 DEF IInv, UserInv, Busy, Building, Alone, Stubs, CoreCalls, Calls
  <2>5. AllocInv'
    BY <1>1, <1>6, <2>1 DEF IInv, AllocInv
  <2>6. EarlyInv' /\ BoundInv'
    BY <1>1, <1>6, <2>1 DEF IInv, EarlyInv, BoundInv, Allocating
  <2>7. WaitInv'
    BY <1>1, <1>6, <2>1 DEF IInv, WaitInv, Alive, Stubs
  <2>8. WireInv'
    BY <1>1, <1>6, <2>1, WireFrame
  <2>9. Survives'
    BY <1>1, <1>6 DEF Survives
  <2> QED BY <2>3, <2>4, <2>5, <2>6, <2>7, <2>8, <2>9 DEF IInv
<1>7. CASE op[t] = "pack"
  <2>1. /\ op' = [op EXCEPT ![t] = "ref"] /\ pc' = [pc EXCEPT ![t] = "check"]
        /\ UNCHANGED <<joined, life, ap, combox, enc, up, toServer, toClient, senc, proto, seen, crash>>
    BY <1>1, <1>7 DEF Joined, Stubs, Goto, ivars, wire
  <2>2. "ref" \in Ops
    BY DEF Ops, CoreCalls
  <2> QED BY <1>6, <1>7, <2>1, <2>2
<1>8. CASE op[t] \in Stubs /\ ~(async /\ combox = "none")
  <2>1. /\ op' = op /\ pc' = [pc EXCEPT ![t] = "lock"]
        /\ UNCHANGED <<joined, life, ap, combox, enc, up, toServer, toClient, senc, proto, seen, crash>>
    BY <1>1, <1>8 DEF Joined, Goto, ivars, wire, Stubs
  <2>2. op[t] \in Ops /\ op' = [op EXCEPT ![t] = op[t]]
    BY <1>1, <2>1
  <2> QED BY <1>6, <1>8, <2>1, <2>2
<1> QED BY <1>1, <1>2, <1>3, <1>4, <1>5, <1>7, <1>8 DEF Joining, Stubs

-----------------------------------------------------------------------------
(* Allocation and binding. *)

\* A thread that binds is the only one, or the program used the interface
\* during the allocation.
LEMMA BindsAlone ==
    ASSUME IInv, NEW t \in Threads, pc[t] \in {"alloc", "bind", "connect"}, ~early
    PROVE  /\ \A u \in Threads \ {t} : pc[u] \notin {"alloc", "bind", "connect", "lock", "wait"}
           /\ t # Alloc => ~Allocating
<1>1. Alloc \notin Users /\ Threads = Users \cup {Alloc}
  BY InterfaceAssumption DEF Threads
<1>2. CASE t = Alloc
  <2>1. Allocating
    BY <1>2 DEF Allocating
  <2> QED BY <1>1, <1>2, <2>1 DEF IInv, EarlyInv
<1>3. CASE t \in Users
  <2>1. \A u \in Users \ {t} : pc[u] = "idle"
    BY <1>3 DEF IInv, UserInv, Alone, Building
  <2>2. ~Allocating
    BY <1>3 DEF IInv, EarlyInv
  <2>3. pc[Alloc] \notin {"alloc", "bind", "connect", "lock", "wait"}
    BY <2>2 DEF Allocating
  <2> QED BY <1>1, <2>1, <2>2, <2>3
<1> QED BY <1>1, <1>2, <1>3

\* Allocation keeps it.
LEMMA AllocateInv ==
    ASSUME IInv, NEW t \in Threads, NEW ok \in BOOLEAN, Allocate(t, ok)
    PROVE  IInv'
<1>1. /\ pc[t] = "alloc" /\ crash = "none" /\ op[t] = "create"
      /\ Threads = Users \cup {Alloc} /\ Alloc \notin Users
      /\ pc \in [Threads -> Busy \cup {"idle", "ended", "reaped", "failed"}]
      /\ UNCHANGED <<od, async, amutex, imutex, op, arg, seen, early, assigned, ops>>
  BY InterfaceAssumption DEF Allocate, Alive, IInv, UserInv, AllocInv, Threads, Types, TypeOK, mvars
<1>2. CASE Allocator(od) = "none"
  <2>1. Dies("allocator")
    BY <1>2 DEF Allocate
  <2> QED BY <1>2, <2>1, DiesInv
<1>3. CASE Allocator(od) # "none" /\ ~ok
  <2>1. Throws(t) /\ UNCHANGED <<todo, server>>
    BY <1>3 DEF Allocate
  <2> QED BY <1>1, <2>1, ThrowsInv DEF Alive
<1>4. CASE Allocator(od) # "none" /\ ok
  <2>1. /\ ap' = Access /\ server' = "started" /\ pc' = [pc EXCEPT ![t] = "bind"]
        /\ UNCHANGED <<joined, life, combox, enc, up, toServer, toClient, senc, proto, crash>>
    BY <1>4 DEF Allocate, Goto, wire
  <2>2. /\ \A u \in Threads : pc'[u] = IF u = t THEN "bind" ELSE pc[u]
        /\ pc' \in [Threads -> Busy \cup {"idle", "ended", "reaped", "failed"}]
    BY <1>1, <2>1 DEF Busy
  <2>3. Types'
    <3>1. ap' \in {<<>>, Access} /\ server' \in {"started", "built"}
      BY <2>1
    <3>2. TypeOK'
      BY <1>1, <2>1, <2>2, <3>1 DEF IInv, Types, TypeOK
    <3> QED BY <1>1, <2>1, <3>2 DEF IInv, Types
  <2>4. UserInv'
    BY <1>1, <2>1, <2>2 DEF IInv, UserInv, Busy
  <2>5. AllocInv'
    BY <1>1, <2>1, <2>2 DEF IInv, AllocInv
  <2>6. ~early => seen = None
    <3>1. CASE t = Alloc
      BY <1>1, <3>1 DEF IInv, EarlyInv, AllocInv, Allocating
    <3>2. CASE t \in Users
      BY <1>1, <3>2 DEF IInv, UserInv, AllocInv, Building
    <3> QED BY <1>1, <3>1, <3>2
  <2>7. EarlyInv' /\ BoundInv'
    BY <1>1, <2>1, <2>2, <2>6 DEF IInv, EarlyInv, BoundInv, Allocating
  <2>8. WaitInv'
    BY <1>1, <2>1, <2>2 DEF IInv, WaitInv, Alive
  <2>9. WireInv'
    BY <1>1, <2>1, <2>2, WireFrame
  <2>10. Survives'
    BY <1>1, <2>1 DEF Survives
  <2> QED BY <2>3, <2>4, <2>5, <2>7, <2>8, <2>9, <2>10 DEF IInv
<1> QED BY <1>2, <1>3, <1>4

\* Running out of addresses keeps it.
LEMMA BindFailsInv ==
    ASSUME IInv, NEW t \in Threads, BindFails(t)
    PROVE  IInv'
<1>1. /\ pc[t] = "bind" /\ Alive /\ Throws(t)
      /\ UNCHANGED <<od, async, amutex, imutex, op, arg, todo, server, seen, early, assigned, ops>>
  BY DEF BindFails, mvars
<1> QED BY <1>1, ThrowsInv

\* A step of Bind: the thread that binds replaces the combox and the
\* connection, nobody else has them.
LEMMA BindInv ==
    ASSUME IInv, Alive, NEW t \in Threads, pc[t] \in {"bind", "connect"}, ~InUse(t),
           NEW where \in {"bind", "connect", "lock"}, NEW o \in {"create", "assign", "status", "rebind"},
           pc' = [pc EXCEPT ![t] = where], op' = [op EXCEPT ![t] = o],
           o = op[t] \/ (where = "lock" /\ o = IF op[t] = "create" THEN "status" ELSE "rebind"),
           where = "lock" => o \in {"status", "rebind"},
           where = "connect" => combox' = "made",
           where = "lock" => combox' = "connected",
           combox' \in {"none", "made", "connected"},
           toServer' = <<>>, toClient' = <<>>,
           enc' \in ClientEncodings, senc' \in ServerEncodings, proto' \in Registered \cup {"none"},
           up' => senc' = BrokerSide(enc)' /\ server \in {"started", "built"},
           UNCHANGED <<od, async, joined, life, ap, amutex, imutex, arg, server, seen, crash, early,
                       assigned, ops>>
    PROVE  IInv'
<1>1. /\ Threads = Users \cup {Alloc} /\ Alloc \notin Users
      /\ pc \in [Threads -> Busy \cup {"idle", "ended", "reaped", "failed"}]
      /\ op \in [Threads -> Ops]
      /\ op[t] \in {"create", "assign"} /\ (t = Alloc => op[t] = "create")
  BY InterfaceAssumption DEF IInv, UserInv, AllocInv, Threads, Types, TypeOK
<1>2. /\ \A u \in Threads : pc'[u] = IF u = t THEN where ELSE pc[u]
      /\ \A u \in Threads : op'[u] = IF u = t THEN o ELSE op[u]
      /\ pc' \in [Threads -> Busy \cup {"idle", "ended", "reaped", "failed"}]
      /\ op' \in [Threads -> Ops]
  BY <1>1 DEF Busy, Ops, Alone, Building
<1>3. Types'
  <2>1. toServer' \in Seq(Message) /\ toClient' \in Seq(Reply)
    OBVIOUS
  <2>2. TypeOK'
    <3>1. TypeOK
      BY DEF IInv, Types
    <3>2. up' => server' \in {"started", "built"}
      OBVIOUS
    <3>3. /\ od' \in ODs /\ async' \in BOOLEAN /\ joined' \in BOOLEAN /\ early' \in BOOLEAN
          /\ assigned' \in BOOLEAN /\ ops' \in 0..MaxOps
      BY <3>1 DEF TypeOK
    <3>4. /\ life' \in {"none", "making", "alive", "dead"} /\ ap' \in {<<>>, Access}
          /\ amutex' \in Users \cup {None} /\ imutex' \in Threads \cup {None}
          /\ crash' \in {"none", "join", "no result", "terminate", "allocator", "race", "null"}
      BY <3>1 DEF TypeOK
    <3> QED BY <1>2, <3>2, <3>3, <3>4 DEF TypeOK
  <2> QED BY <1>2, <2>1, <2>2 DEF IInv, Types
<1>4. UserInv'
  BY <1>1, <1>2 DEF IInv, UserInv, Busy, Building, Alone, Calls
<1>5. AllocInv'
  BY <1>1, <1>2 DEF IInv, AllocInv, Stubs
<1>6. EarlyInv'
  <2> SUFFICES ASSUME ~early PROVE EarlyInv'
    BY DEF EarlyInv
  <2>1. /\ \A u \in Threads \ {t} : pc[u] \notin {"alloc", "bind", "connect", "lock", "wait"}
        /\ t # Alloc => ~Allocating
    BY BindsAlone
  <2>2. Allocating' => Allocating
    BY <1>1, <1>2 DEF Allocating
  <2>3. Allocating => ~joined /\ \A u \in Users : pc[u] \in {"idle", "enter", "join"}
    BY DEF IInv, EarlyInv
  <2>4. Allocating' => ~joined' /\ \A u \in Users : pc'[u] \in {"idle", "enter", "join"}
    BY <1>1, <1>2, <2>1, <2>2, <2>3
  <2>5. /\ \A u \in Threads : pc'[u] = "connect" => combox' = "made"
        /\ \A u \in Threads : pc'[u] \in {"lock", "wait"} => combox' # "none"
    BY <1>1, <1>2, <2>1
  <2>6. seen' # None => seen' = ap'
    BY DEF IInv, EarlyInv
  <2> QED BY <2>4, <2>5, <2>6 DEF EarlyInv
<1>7. BoundInv'
  <2>1. async /\ ~assigned => t = Alloc
    BY <1>1 DEF IInv, UserInv, Building, AllocInv
  <2> QED BY <1>1, <1>2, <2>1 DEF IInv, BoundInv
<1>8. WaitInv'
  BY <1>1, <1>2 DEF IInv, WaitInv, Alive
<1>9. WireInv'
  BY WireEmpty
<1>10. Survives'
  BY DEF Survives, Alive
<1> QED BY <1>3, <1>4, <1>5, <1>6, <1>7, <1>8, <1>9, <1>10 DEF IInv

\* A combox in use is only replaced when the program was early.
LEMMA InUseEarly ==
    ASSUME IInv, NEW t \in Threads, pc[t] \in {"bind", "connect"}, InUse(t)
    PROVE  early
BY BindsAlone DEF InUse, IInv, Types, TypeOK

\* Creating a combox keeps the invariant.
LEMMA BindCreateInv ==
    ASSUME IInv, NEW t \in Threads, BindCreate(t)
    PROVE  IInv'
<1>1. /\ pc[t] = "bind" /\ Alive
      /\ UNCHANGED <<od, async, amutex, imutex, op, arg, server, seen, early, assigned, ops>>
      /\ pc \in [Threads -> Busy \cup {"idle", "ended", "reaped", "failed"}]
      /\ op \in [Threads -> Ops] /\ op[t] \in {"create", "assign"}
  BY DEF BindCreate, mvars, IInv, Types, TypeOK, UserInv, AllocInv, Threads
<1>2. CASE InUse(t)
  <2>1. Dies("race")
    BY <1>2 DEF BindCreate
  <2>2. early
    BY <1>1, <1>2, InUseEarly
  <2> QED BY <2>1, <2>2, DiesInv
<1>3. CASE ~InUse(t)
  <2>1. /\ up' = FALSE /\ toServer' = <<>> /\ toClient' = <<>>
        /\ UNCHANGED <<joined, life, ap, enc, senc, crash>>
        /\ proto' \in Registered \cup {"none"}
        /\ \/ combox' = "made" /\ pc' = [pc EXCEPT ![t] = "connect"]
           \/ combox' = "none" /\ pc' = pc
    BY <1>3 DEF BindCreate, Goto, IInv, Types, TypeOK
  <2>2. /\ enc \in ClientEncodings /\ senc \in ServerEncodings
        /\ op' = [op EXCEPT ![t] = op[t]]
    BY <1>1 DEF IInv, Types, TypeOK
  <2>3. CASE combox' = "made" /\ pc' = [pc EXCEPT ![t] = "connect"]
    BY <1>1, <1>3, <2>1, <2>2, <2>3, BindInv
  <2>4. CASE combox' = "none" /\ pc' = pc
    <3>1. pc' = [pc EXCEPT ![t] = "bind"]
      BY <1>1, <2>4
    <3> QED BY <1>1, <1>3, <2>1, <2>2, <2>4, <3>1, BindInv
  <2> QED BY <2>1, <2>3, <2>4
<1> QED BY <1>2, <1>3

\* Connecting it keeps the invariant.
LEMMA BindConnectInv ==
    ASSUME IInv, NEW t \in Threads, NEW ok \in BOOLEAN, BindConnect(t, ok)
    PROVE  IInv'
<1>1. /\ pc[t] = "connect" /\ Alive
      /\ UNCHANGED <<od, async, amutex, imutex, arg, server, seen, early, assigned, ops>>
      /\ op \in [Threads -> Ops] /\ op[t] \in {"create", "assign"}
  BY DEF BindConnect, mvars, IInv, Types, UserInv, AllocInv, Threads
<1>2. CASE combox = "none" \/ InUse(t)
  <2>1. Dies("race")
    BY <1>2 DEF BindConnect
  <2>2. early
    BY <1>1, <1>2, InUseEarly DEF IInv, EarlyInv, Types, TypeOK
  <2> QED BY <2>1, <2>2, DiesInv
<1>3. CASE ~(combox = "none" \/ InUse(t)) /\ ok
  <2>1. /\ up' = TRUE /\ toServer' = <<>> /\ toClient' = <<>> /\ enc' = "xdr" /\ senc' = "xdr"
        /\ combox' = "connected" /\ pc' = [pc EXCEPT ![t] = "lock"]
        /\ op' = [op EXCEPT ![t] = IF op[t] = "create" THEN "status" ELSE "rebind"]
        /\ UNCHANGED <<joined, life, ap, proto, crash>> /\ server \in {"started", "built"}
    BY <1>3 DEF BindConnect, Goto
  <2>2. /\ enc' \in ClientEncodings /\ senc' \in ServerEncodings /\ proto' \in Registered \cup {"none"}
        /\ senc' = BrokerSide(enc)'
    BY <2>1, InterfaceAssumption DEF IInv, Types, TypeOK, BrokerSide
  <2> DEFINE o == IF op[t] = "create" THEN "status" ELSE "rebind"
  <2>3. o \in {"create", "assign", "status", "rebind"} /\ o \in {"status", "rebind"}
    OBVIOUS
  <2> QED BY <1>1, <1>3, <2>1, <2>2, <2>3, BindInv
<1>4. CASE ~(combox = "none" \/ InUse(t)) /\ ~ok
  <2>1. /\ up' = FALSE /\ toServer' = <<>> /\ toClient' = <<>>
        /\ combox' = "none" /\ pc' = [pc EXCEPT ![t] = "bind"]
        /\ UNCHANGED <<joined, life, ap, enc, senc, proto, op, crash>>
    BY <1>4 DEF BindConnect, Goto
  <2>2. /\ enc \in ClientEncodings /\ senc \in ServerEncodings /\ proto \in Registered \cup {"none"}
        /\ op' = [op EXCEPT ![t] = op[t]]
    BY <1>1, <2>1 DEF IInv, Types, TypeOK
  <2> QED BY <1>1, <1>4, <2>1, <2>2, BindInv
<1> QED BY <1>2, <1>3, <1>4

-----------------------------------------------------------------------------
(* Calls. *)

\* The check before a core call keeps the invariant.
LEMMA CheckInv ==
    ASSUME IInv, NEW t \in Threads, Check(t)
    PROVE  IInv'
<1>1. /\ pc[t] = "check" /\ crash = "none" /\ t \in Users /\ t # Alloc /\ op[t] \in CoreCalls
      /\ Threads = Users \cup {Alloc} /\ Alloc \notin Users
      /\ pc \in [Threads -> Busy \cup {"idle", "ended", "reaped", "failed"}]
      /\ UNCHANGED <<od, async, joined, life, ap, combox, enc, amutex, imutex, op, arg, todo, up,
                     toServer, toClient, senc, proto, server, seen, crash, early, assigned, ops>>
  BY InterfaceAssumption DEF Check, Alive, IInv, UserInv, AllocInv, Threads, Types, TypeOK, ivars,
                             mvars, wire
<1>2. CASE combox = "none" \/ (op[t] = "encoding" /\ arg[t] \notin ClientEncodings)
  <2>1. pc' = [pc EXCEPT ![t] = "idle"]
    BY <1>1, <1>2 DEF Check, Ends, Goto
  <2> QED BY <1>1, <2>1, UserGivesUp DEF Alive
<1>3. CASE combox # "none" /\ (op[t] = "encoding" => arg[t] \in ClientEncodings)
  <2>1. pc' = [pc EXCEPT ![t] = "lock"]
    BY <1>1, <1>3 DEF Check, Goto
  <2>2. /\ \A u \in Threads : pc'[u] = IF u = t THEN "lock" ELSE pc[u]
        /\ pc' \in [Threads -> Busy \cup {"idle", "ended", "reaped", "failed"}]
    BY <1>1, <2>1 DEF Busy
  <2>3. Types'
    BY <1>1, <2>2, TypesFrame DEF IInv, Types, TypeOK
  <2>4. UserInv'
    BY <1>1, <2>2 DEF IInv, UserInv, Busy, Calls
  <2>5. AllocInv'
    BY <1>1, <2>2 DEF IInv, AllocInv, CoreCalls, Stubs
  <2>6. EarlyInv' /\ BoundInv'
    BY <1>1, <1>3, <2>2 DEF IInv, EarlyInv, BoundInv, Allocating
  <2>7. WaitInv'
    BY <1>1, <1>3, <2>2 DEF IInv, WaitInv, Alive
  <2>8. WireInv'
    BY <1>1, <2>2, WireFrame
  <2>9. Survives'
    BY <1>1 DEF Survives
  <2> QED BY <2>3, <2>4, <2>5, <2>6, <2>7, <2>8, <2>9 DEF IInv
<1> QED BY <1>2, <1>3

\* The end of the connection keeps the invariant.
LEMMA RecvFailsInv ==
    ASSUME IInv, NEW t \in Threads, RecvFails(t)
    PROVE  IInv'
<1>1. /\ pc[t] = "wait" /\ toClient = <<>> /\ ~up /\ Alive /\ Broken(t)
      /\ UNCHANGED <<od, async, amutex, arg, server, seen, early, assigned, ops>>
  BY DEF RecvFails
<1>2. \A u \in Threads \ {t} : pc[u] # "wait"
  BY <1>1 DEF IInv, WaitInv
<1> QED BY <1>1, <1>2, BrokenInv

\* What is added at the end of the requests.
LEMMA Appended ==
    ASSUME IInv, NEW m \in Message
    PROVE  /\ Append(toServer, m) \in Seq(Message)
           /\ Len(Append(toServer, m)) = Len(toServer) + 1
           /\ \A i \in 1..Len(toServer) : Append(toServer, m)[i] = toServer[i]
           /\ Append(toServer, m)[Len(toServer) + 1] = m
<1>1. toServer \in Seq(Message)
  BY DEF IInv, Types
<1> QED BY <1>1

\* Sending a request keeps the invariant.
LEMMA SendRequestInv ==
    ASSUME IInv, NEW t \in Threads, SendRequest(t)
    PROVE  IInv'
<1> DEFINE m == [by |-> t, op |-> op[t], arg |-> arg[t], enc |-> enc]
<1>1. /\ pc[t] = "lock" /\ crash = "none" /\ Alive /\ imutex = None
      /\ Threads = Users \cup {Alloc} /\ Alloc \notin Users /\ None \notin Threads
      /\ pc \in [Threads -> Busy \cup {"idle", "ended", "reaped", "failed"}]
      /\ op[t] \in Calls /\ (t = Alloc => op[t] \in {"status", "construct"})
      /\ UNCHANGED <<od, async, amutex, arg, server, seen, early, assigned, ops>>
  BY InterfaceAssumption DEF SendRequest, Alive, IInv, UserInv, AllocInv, Threads, Types, TypeOK, Calls
<1>2. \A u \in Threads : pc[u] # "wait"
  BY <1>1 DEF IInv, WaitInv
<1>3. CASE combox = "none" /\ op[t] \notin Stubs
  <2>1. Dies("null")
    BY <1>3 DEF SendRequest
  <2>2. early
    BY <1>1, <1>3 DEF IInv, EarlyInv, Types, TypeOK
  <2> QED BY <2>1, <2>2, DiesInv
<1>4. CASE ~(combox = "none" /\ op[t] \notin Stubs) /\ (combox # "connected" \/ (~up /\ op[t] # "post"))
  <2>1. Broken(t)
    BY <1>4 DEF SendRequest
  <2> QED BY <1>1, <1>2, <2>1, BrokenInv
<1>5. CASE combox = "connected" /\ (up \/ op[t] = "post")
  <2>1. /\ UNCHANGED <<joined, life, ap, combox, enc, op, todo, up, toClient, senc, proto, crash>>
        /\ toServer' = (IF up THEN Append(toServer, m) ELSE toServer)
        /\ imutex' = (IF op[t] = "post" THEN None ELSE t)
        /\ pc' = [pc EXCEPT ![t] = IF op[t] = "post" THEN "idle" ELSE "wait"]
    BY <1>1, <1>5 DEF SendRequest, ivars, Ends, Goto
  <2>2. m \in Message
    BY DEF Message, IInv, Types, TypeOK
  <2>3. /\ toClient = <<>>
        /\ up => \A i \in 1..Len(toServer) : toServer[i].op = "post"
    BY <1>2, Quiet
  <2>4. /\ \A u \in Threads : pc'[u] = IF u = t THEN (IF op[t] = "post" THEN "idle" ELSE "wait") ELSE pc[u]
        /\ pc' \in [Threads -> Busy \cup {"idle", "ended", "reaped", "failed"}]
    BY <1>1, <2>1 DEF Busy
  <2>5. toServer' \in Seq(Message)
    BY <2>1, <2>2, Appended DEF IInv, Types
  <2>6. Types'
    <3>1. TypeOK'
      BY <1>1, <2>1, <2>4 DEF IInv, Types, TypeOK
    <3> QED BY <1>1, <2>1, <2>5, <3>1 DEF IInv, Types
  <2>7. UserInv'
    BY <1>1, <2>1, <2>4 DEF IInv, UserInv, Busy
  <2>8. AllocInv'
    BY <1>1, <2>1, <2>4 DEF IInv, AllocInv
  <2>9. EarlyInv' /\ BoundInv'
    BY <1>1, <2>1, <2>4 DEF IInv, EarlyInv, BoundInv, Allocating
  <2>10. WaitInv'
    BY <1>1, <1>2, <2>1, <2>4 DEF IInv, WaitInv, Alive
  <2>11. WireInv'
    <3>1. up' /\ toClient' = <<>> => senc' = BrokerSide(enc)'
      BY <2>1, <2>3 DEF IInv, WireInv, BrokerSide
    <3>2. ASSUME up, NEW i \in 1..Len(toServer')
          PROVE  /\ toServer'[i].enc = enc'
                 /\ toServer'[i].op # "post" =>
                      /\ i = Len(toServer')
                      /\ pc'[toServer'[i].by] = "wait"
                      /\ toServer'[i].op = op'[toServer'[i].by]
                      /\ toServer'[i].arg = arg'[toServer'[i].by]
      <4>1. Len(toServer) \in Nat /\ Len(toServer') = Len(toServer) + 1
        BY <2>1, <2>2, <3>2, Appended, OnWire
      <4>2. CASE i \in 1..Len(toServer)
        <5>1. toServer'[i] = toServer[i]
          BY <2>1, <2>2, <3>2, <4>2, Appended
        <5> QED BY <2>1, <2>3, <3>2, <4>2, <5>1 DEF IInv, WireInv
      <4>3. CASE i = Len(toServer')
        <5>1. toServer'[i] = m
          BY <2>1, <2>2, <3>2, <4>1, <4>3, Appended
        <5> QED BY <1>1, <2>1, <2>4, <4>3, <5>1
      <4> QED BY <4>1, <4>2, <4>3
    <3> QED BY <2>1, <2>3, <3>1, <3>2 DEF WireInv
  <2>12. Survives'
    BY <1>1, <2>1 DEF Survives
  <2> QED BY <2>6, <2>7, <2>8, <2>9, <2>10, <2>11, <2>12 DEF IInv
<1> QED BY <1>3, <1>4, <1>5 DEF IInv, Types, TypeOK

\* Reading an answer keeps the invariant.
LEMMA RecvResponseInv ==
    ASSUME IInv, NEW t \in Threads, RecvResponse(t)
    PROVE  IInv'
<1> DEFINE r == Head(toClient)
           where == IF op[t] = "status" THEN "lock" ELSE IF t = Alloc THEN "ended" ELSE "idle"
           o == IF op[t] = "status" THEN "construct" ELSE op[t]
<1>1. /\ pc[t] = "wait" /\ toClient # <<>> /\ crash = "none" /\ Alive
      /\ Threads = Users \cup {Alloc} /\ Alloc \notin Users
      /\ pc \in [Threads -> Busy \cup {"idle", "ended", "reaped", "failed"}]
      /\ op \in [Threads -> Ops]
      /\ op[t] \in Calls /\ (t = Alloc => op[t] \in {"status", "construct"})
      /\ UNCHANGED <<od, async, amutex, arg, server, seen, early, assigned, ops>>
  BY InterfaceAssumption DEF RecvResponse, Alive, IInv, UserInv, AllocInv, Threads, Types, TypeOK, Calls
<1>2. \A u \in Threads \ {t} : pc[u] # "wait"
  BY <1>1 DEF IInv, WaitInv
<1>3. /\ r = toClient[1] /\ r \in Reply /\ r.by = t /\ r.op = op[t] /\ r.enc = enc /\ toServer = <<>>
      /\ up => senc = BrokerSide(IF r.op = "encoding" /\ r.ok THEN arg[t] ELSE enc)
      /\ toClient \in Seq(Reply) /\ Len(toClient) = 1
  <2>1. /\ Len(toClient) = 1 /\ toServer = <<>> /\ toClient \in Seq(Reply)
        /\ pc[toClient[1].by] = "wait" /\ toClient[1].op = op[toClient[1].by] /\ toClient[1].enc = enc
        /\ up => senc = BrokerSide(IF toClient[1].op = "encoding" /\ toClient[1].ok
                                   THEN arg[toClient[1].by] ELSE enc)
    BY <1>1 DEF IInv, WireInv, Types
  <2>2. toClient[1].by \in Threads /\ toClient[1] \in Reply
    BY <2>1, OnWire
  <2>3. r = toClient[1]
    BY <2>1
  <2> QED BY <1>2, <2>1, <2>2, <2>3
<1>4. CASE op[t] = "construct" /\ ~r.ok
  <2>1. Broken(t)
    BY <1>4 DEF RecvResponse
  <2> QED BY <1>1, <1>2, <1>4, <2>1, BrokenInv
<1>5. CASE ~(op[t] = "construct" /\ ~r.ok)
  <2>1. /\ toClient' = Tail(toClient) /\ imutex' = None
        /\ UNCHANGED <<joined, ap, combox, todo, up, toServer, senc, proto, crash>>
        /\ life' = (IF t # Alloc /\ op[t] = "construct" THEN "alive" ELSE life)
        /\ enc' = (IF op[t] = "encoding" /\ r.ok THEN arg[t] ELSE enc)
    BY <1>5 DEF RecvResponse
  <2>2. op' = [op EXCEPT ![t] = o] /\ pc' = [pc EXCEPT ![t] = where]
    BY <1>1, <1>5 DEF RecvResponse, Ends, Goto
  <2>3. toClient' = <<>>
    BY <1>3, <2>1
  <2>4. /\ \A u \in Threads : pc'[u] = IF u = t THEN where ELSE pc[u]
        /\ \A u \in Threads : op'[u] = IF u = t THEN o ELSE op[u]
        /\ pc' \in [Threads -> Busy \cup {"idle", "ended", "reaped", "failed"}]
        /\ op' \in [Threads -> Ops]
    BY <1>1, <2>2 DEF Busy, Ops, Alone, Building
  <2>5. t # Alloc /\ op[t] \in {"status", "construct"} =>
          /\ t \in Users /\ ~async /\ joined /\ pc[Alloc] = "idle" /\ life = "making"
          /\ \A u \in Users \ {t} : pc[u] = "idle"
    BY <1>1 DEF IInv, UserInv, AllocInv, Building, Alone
  <2>6. Types'
    <3>1. toClient' \in Seq(Reply)
      BY <2>3
    <3>2. enc' \in ClientEncodings
      BY <1>1, <2>1 DEF IInv, WaitInv, Types, TypeOK
    <3>3. life' \in {"none", "making", "alive", "dead"}
      BY <2>1 DEF IInv, Types, TypeOK
    <3>4. TypeOK'
      BY <1>1, <2>1, <2>4, <3>2, <3>3 DEF IInv, Types, TypeOK
    <3> QED BY <1>1, <2>1, <2>4, <3>1, <3>4 DEF IInv, Types
  <2>7. UserInv'
    BY <1>1, <2>1, <2>4, <2>5 DEF IInv, UserInv, Busy, Building, Calls, Alone
  <2>8. AllocInv'
    BY <1>1, <2>1, <2>4, <2>5 DEF IInv, AllocInv, Stubs
  <2>9. EarlyInv'
    BY <1>1, <2>1, <2>4, <2>5 DEF IInv, EarlyInv, Allocating, Stubs
  <2>10. BoundInv'
    BY <1>1, <2>1, <2>4, <2>5 DEF IInv, BoundInv
  <2>11. WaitInv'
    BY <1>1, <1>2, <2>1, <2>4 DEF IInv, WaitInv, Alive
  <2>12. WireInv'
    <3>1. up' => senc' = BrokerSide(enc)'
      BY <1>3, <2>1 DEF BrokerSide
    <3> QED BY <1>3, <2>1, <2>3, <3>1, WireEmpty
  <2>13. Survives'
    BY <1>1, <2>1 DEF Survives
  <2> QED BY <2>6, <2>7, <2>8, <2>9, <2>10, <2>11, <2>12, <2>13 DEF IInv
<1> QED BY <1>4, <1>5

-----------------------------------------------------------------------------
(* The object's process. *)

\* Serving a request keeps the invariant.
LEMMA ServeInv ==
    ASSUME IInv, NEW ok \in BOOLEAN, Serve(ok)
    PROVE  IInv'
<1> DEFINE m == Head(toServer)
<1>1. /\ UNCHANGED <<od, async, joined, life, ap, combox, enc, amutex, imutex, pc, op, arg, todo,
                     seen, crash, early, assigned, ops>>
      /\ up /\ toServer # <<>> /\ toServer' = Tail(toServer) /\ m.enc = senc
      /\ server \in {"started", "built"} /\ proto' = proto
  BY DEF Serve, ivars, mvars, tvars, Misread
<1>2. /\ m = toServer[1] /\ Len(toServer) \in Nat /\ Len(toServer) >= 1
      /\ m \in Message /\ m.by \in Threads /\ m.enc = enc
      /\ toServer' \in Seq(Message) /\ Len(toServer') = Len(toServer) - 1
      /\ \A i \in 1..Len(toServer') : toServer'[i] = toServer[i + 1]
  <2>1. toServer \in Seq(Message) /\ toServer # <<>>
    BY <1>1 DEF IInv, Types
  <2>2. /\ m = toServer[1] /\ Len(toServer) \in Nat /\ Len(toServer) >= 1
        /\ toServer' \in Seq(Message) /\ Len(toServer') = Len(toServer) - 1
        /\ \A i \in 1..Len(toServer') : toServer'[i] = toServer[i + 1]
    BY <1>1, <2>1
  <2>3. 1 \in 1..Len(toServer)
    BY <2>2
  <2> QED BY <1>1, <2>2, <2>3, OnWire DEF IInv, WireInv
<1>3. toClient = <<>> /\ senc = enc /\ senc = BrokerSide(senc)
  BY <1>1, <1>2 DEF IInv, WireInv, BrokerSide
<1>4. m.op # "post" => /\ Len(toServer) = 1 /\ pc[m.by] = "wait"
                       /\ m.op = op[m.by] /\ m.arg = arg[m.by]
  <2>1. 1 \in 1..Len(toServer)
    BY <1>2
  <2> QED BY <1>1, <1>2, <2>1 DEF IInv, WireInv
<1>5. m.op # "post" => m.op \in Calls
  BY <1>2, <1>4 DEF IInv, UserInv, AllocInv, Threads, Calls
<1>6. UserInv' /\ AllocInv' /\ BoundInv'
  BY <1>1 DEF IInv, UserInv, AllocInv, BoundInv
<1>7. EarlyInv' /\ WaitInv'
  BY <1>1 DEF IInv, EarlyInv, Allocating, WaitInv, Alive
<1>8. Survives'
  BY <1>1 DEF IInv, Survives, Allocator
<1>9. ASSUME toClient' = <<>>, senc' = senc, up' => server' \in {"started", "built"}
      PROVE  Types' /\ WireInv'
  <2>1. toClient' \in Seq(Reply)
    BY <1>9
  <2>2. TypeOK
    BY DEF IInv, Types
  <2>3. TypeOK'
    <3>1. /\ od' \in ODs /\ async' \in BOOLEAN /\ joined' \in BOOLEAN /\ early' \in BOOLEAN
          /\ assigned' \in BOOLEAN /\ ops' \in 0..MaxOps
      BY <1>1, <2>2 DEF TypeOK
    <3> QED BY <1>1, <1>9, <2>2, <3>1 DEF TypeOK
  <2>4. Types'
    BY <1>1, <1>2, <2>1, <2>3 DEF IInv, Types
  <2>5. ASSUME NEW i \in 1..Len(toServer')
        PROVE  /\ toServer'[i].enc = enc'
               /\ toServer'[i].op # "post" =>
                    /\ i = Len(toServer')
                    /\ pc'[toServer'[i].by] = "wait"
                    /\ toServer'[i].op = op'[toServer'[i].by]
                    /\ toServer'[i].arg = arg'[toServer'[i].by]
    <3>1. i + 1 \in 1..Len(toServer) /\ (i + 1 = Len(toServer) => i = Len(toServer'))
      BY <1>2
    <3> QED BY <1>1, <1>2, <3>1 DEF IInv, WireInv
  <2>6. WireInv'
    BY <1>1, <1>3, <1>9, <2>5 DEF WireInv, BrokerSide
  <2> QED BY <2>4, <2>6
<1>10. ASSUME NEW good \in BOOLEAN, Answer(m, good), m.op # "post",
              senc' = BrokerSide(IF m.op = "encoding" /\ good THEN m.arg ELSE senc), senc' \in ServerEncodings,
              up' => server' \in {"started", "built"}
       PROVE  Types' /\ WireInv'
  <2> DEFINE r == [by |-> m.by, op |-> m.op, ok |-> good, enc |-> m.enc]
  <2>1. r \in Reply
    BY <1>2 DEF Message, Reply
  <2>2. toClient' = <<r>>
    BY <1>3, <1>10 DEF Answer
  <2>3. toClient' \in Seq(Reply) /\ Len(toClient') = 1 /\ toClient'[1] = r /\ toClient' # <<>>
    BY <2>1, <2>2
  <2>4. toServer' = <<>>
    BY <1>2, <1>4, <1>10
  <2>5. TypeOK
    BY DEF IInv, Types
  <2>6. TypeOK'
    <3>1. /\ od' \in ODs /\ async' \in BOOLEAN /\ joined' \in BOOLEAN /\ early' \in BOOLEAN
          /\ assigned' \in BOOLEAN /\ ops' \in 0..MaxOps
      BY <1>1, <2>5 DEF TypeOK
    <3> QED BY <1>1, <1>10, <2>5, <3>1 DEF TypeOK
  <2>7. Types'
    BY <1>1, <1>2, <2>3, <2>6 DEF IInv, Types
  <2>8. r.by = m.by /\ r.op = m.op /\ r.ok = good /\ r.enc = m.enc
    OBVIOUS
  <2>9. Len(toServer') = 0
    BY <2>4
  <2>10. WireInv'
    <3>1. pc'[m.by] = "wait" /\ m.op = op'[m.by] /\ m.enc = enc'
      BY <1>1, <1>2, <1>4, <1>10
    <3>2. senc' = IF proto' = "uds" THEN "xdr"
                  ELSE IF m.op = "encoding" /\ good THEN arg'[m.by] ELSE enc'
      BY <1>1, <1>3, <1>4, <1>10 DEF BrokerSide
    <3> HIDE DEF r, m
    <3>3. /\ pc'[toClient'[1].by] = "wait" /\ toClient'[1].op = op'[toClient'[1].by]
          /\ toClient'[1].enc = enc'
          /\ senc' = IF proto' = "uds" THEN "xdr"
                     ELSE IF toClient'[1].op = "encoding" /\ toClient'[1].ok
                     THEN arg'[toClient'[1].by] ELSE enc'
      BY <2>3, <2>8, <3>1, <3>2
    <3>4. \A i \in 1..Len(toServer') : FALSE
      BY <2>9
    <3> QED BY <2>3, <2>4, <3>3, <3>4 DEF WireInv, BrokerSide
  <2> QED BY <2>7, <2>10
<1>11. Types' /\ WireInv'
  <2>1. CASE m.op \in {"status", "rebind", "call"}
    <3>1. Answer(m, TRUE) /\ UNCHANGED <<server, up, senc>>
      BY <2>1 DEF Serve
    <3>2. senc' \in ServerEncodings /\ (up' => server' \in {"started", "built"})
      BY <1>1, <3>1 DEF IInv, Types, TypeOK
    <3> QED BY <1>3, <1>10, <2>1, <3>1, <3>2
  <2>2. CASE m.op = "construct"
    <3>1. Answer(m, ok) /\ server' = (IF ok THEN "built" ELSE "dead") /\ up' = ok /\ UNCHANGED senc
      BY <2>2 DEF Serve
    <3>2. senc' \in ServerEncodings /\ (up' => server' \in {"started", "built"})
      BY <1>1, <3>1 DEF IInv, Types, TypeOK
    <3> QED BY <1>3, <1>10, <2>2, <3>1, <3>2
  <2>3. CASE m.op \in {"ref", "active"}
    <3>1. Answer(m, server = "built") /\ UNCHANGED <<server, up, senc>>
      BY <2>3 DEF Serve
    <3>2. senc' \in ServerEncodings /\ (up' => server' \in {"started", "built"})
      BY <1>1, <3>1 DEF IInv, Types, TypeOK
    <3>3. (server = "built") \in BOOLEAN
      OBVIOUS
    <3> QED BY <1>3, <1>10, <2>3, <3>1, <3>2, <3>3
  <2>4. CASE m.op = "encoding"
    <3>1. /\ Answer(m, m.arg \in ServerEncodings)
          /\ senc' = (IF proto = "uds" THEN senc ELSE IF m.arg \in ServerEncodings THEN m.arg ELSE senc)
          /\ UNCHANGED <<server, up>>
      BY <2>4 DEF Serve, SetBufferFactory
    <3>2. senc' \in ServerEncodings /\ (up' => server' \in {"started", "built"})
      BY <1>1, <3>1 DEF IInv, Types, TypeOK
    <3>3. (m.arg \in ServerEncodings) \in BOOLEAN
      OBVIOUS
    <3>4. senc' = BrokerSide(IF m.arg \in ServerEncodings THEN m.arg ELSE senc)
      BY <1>3, <3>1 DEF BrokerSide
    <3> QED BY <1>10, <2>4, <3>1, <3>2, <3>3, <3>4
  <2>5. CASE m.op = "kill"
    <3>1. /\ server' = (IF server = "built" /\ Killable THEN "dead" ELSE server)
          /\ up' = (server' # "dead") /\ UNCHANGED <<toClient, senc>>
      BY <2>5 DEF Serve
    <3> QED BY <1>1, <1>3, <1>9, <3>1
  <2>6. CASE m.op = "post"
    <3>1. UNCHANGED <<toClient, server, up, senc>>
      BY <2>6 DEF Serve
    <3> QED BY <1>1, <1>3, <1>9, <3>1
  <2> QED BY <1>5, <2>1, <2>2, <2>3, <2>4, <2>5, <2>6 DEF Calls, Stubs, CoreCalls
<1> QED BY <1>6, <1>7, <1>8, <1>11 DEF IInv

-----------------------------------------------------------------------------
(* The theorems. *)

\* Nothing is there at first.
LEMMA InitInv == Init => IInv
<1> SUFFICES ASSUME Init PROVE IInv
  OBVIOUS
<1>1. /\ od \in ODs /\ async \in BOOLEAN /\ joined = TRUE /\ life = "none" /\ ap = <<>>
      /\ combox = "none" /\ enc = "xdr" /\ senc = "xdr" /\ proto = "none" /\ amutex = None /\ imutex = None
      /\ up = FALSE /\ toServer = <<>> /\ toClient = <<>> /\ seen = None /\ crash = "none"
      /\ early = FALSE /\ assigned = FALSE /\ ops = 0
      /\ pc = [t \in Threads |-> "idle"] /\ op = [t \in Threads |-> "none"]
      /\ arg = [t \in Threads |-> "xdr"]
  BY DEF Init
<1>2. /\ \A t \in Threads : pc[t] = "idle"
      /\ Users \subseteq Threads /\ Alloc \in Threads
  BY <1>1 DEF Threads
<1>3. Types
  <2>1. toServer \in Seq(Message) /\ toClient \in Seq(Reply) /\ ops \in 0..MaxOps
    BY <1>1, InterfaceAssumption
  <2>2. /\ op \in [Threads -> Ops] /\ arg \in [Threads -> Args]
        /\ pc \in [Threads -> Busy \cup {"idle", "ended", "reaped", "failed"}]
    BY <1>1 DEF Ops, Args
  <2>3. enc \in ClientEncodings /\ senc \in ServerEncodings
    BY <1>1, InterfaceAssumption
  <2>4. TypeOK
    BY <1>1, <2>1, <2>2, <2>3 DEF TypeOK
  <2> QED BY <2>1, <2>2, <2>4 DEF Types
<1>4. UserInv /\ AllocInv /\ EarlyInv /\ BoundInv /\ WaitInv
  BY <1>1, <1>2 DEF UserInv, AllocInv, EarlyInv, BoundInv, WaitInv, Allocating
<1>5. WireInv
  BY <1>1 DEF WireInv
<1>6. Survives
  BY <1>1 DEF Survives
<1> QED BY <1>3, <1>4, <1>5, <1>6 DEF IInv

\* Every step keeps the invariant.
LEMMA NextInv == IInv /\ [Next]_vars => IInv'
<1> SUFFICES ASSUME IInv, [Next]_vars PROVE IInv'
  OBVIOUS
<1>1. CASE UNCHANGED vars
  <2>1. UNCHANGED <<od, async, joined, life, ap, combox, enc, amutex, imutex, pc, op, arg, todo,
                    up, toServer, toClient, senc, proto, server, seen, crash, early, assigned, ops>>
    BY <1>1 DEF vars, ivars, mvars, tvars, wire
  <2>2. Types'
    BY <2>1, TypesFrame DEF IInv, Types, TypeOK
  <2>3. UserInv' /\ AllocInv' /\ BoundInv'
    BY <2>1 DEF IInv, UserInv, AllocInv, BoundInv
  <2>4. EarlyInv' /\ WaitInv'
    BY <2>1 DEF IInv, EarlyInv, Allocating, WaitInv, Alive
  <2>5. WireInv' /\ Survives'
    BY <2>1 DEF IInv, WireInv, BrokerSide, Survives, Allocator
  <2> QED BY <2>2, <2>3, <2>4, <2>5 DEF IInv
<1>2. ASSUME NEW t \in Users, NEW started \in BOOLEAN, Create(t, started) PROVE IInv'
  BY <1>2, CreateInv
<1>3. ASSUME NEW t \in Users, NEW o \in Joining, Use(t, o) PROVE IInv'
  BY <1>3, UseInv
<1>4. ASSUME NEW t \in Users, NEW o \in CoreCalls \ {"encoding"}, UseCore(t, o, "xdr") PROVE IInv'
  <2>1. "xdr" \in Args
    BY DEF Args
  <2> QED BY <1>4, <2>1, UseCoreInv
<1>5. ASSUME NEW t \in Users, NEW e \in Encodings, UseCore(t, "encoding", e) PROVE IInv'
  <2>1. e \in Args /\ "encoding" \in CoreCalls
    BY DEF Args, CoreCalls
  <2> QED BY <1>5, <2>1, UseCoreInv
<1>6. ASSUME NEW t \in Users, NEW source \in {<<>>, Access}, Assign(t, source) PROVE IInv'
  BY <1>6, AssignInv
<1>7. ASSUME NEW t \in Threads, Steps(t) PROVE IInv'
  BY <1>7, AllocateInv, BindConnectInv, BindCreateInv, BindFailsInv, CheckInv, SendRequestInv,
     RecvResponseInv, RecvFailsInv, JoinLockInv, JoinInv, JoinedInv DEF Steps
<1>8. ASSUME NEW ok \in BOOLEAN, Serve(ok) PROVE IInv'
  BY <1>8, ServeInv
<1>9. ASSUME ServerDies PROVE IInv'
  BY <1>9, ServerDiesInv
<1> QED BY <1>1, <1>2, <1>3, <1>4, <1>5, <1>6, <1>7, <1>8, <1>9 DEF Next

\* The invariant holds in every state, whatever the number of threads and of
\* operations, the addresses and the encodings.
THEOREM Inductive == Spec => []IInv
<1>1. Init => IInv
  BY InitInv
<1>2. IInv /\ [Next]_vars => IInv'
  BY NextInv
<1> QED BY <1>1, <1>2, PTL DEF Spec

\* The program dies of its use of the interface only in the cases Survives
\* names: no two threads join the allocating thread, and unless it is used
\* during the allocation by what does not join, no thread uses a combox that
\* another one deletes or goes on without one.
THEOREM Survival == Spec => []Survives
<1>1. IInv => Survives
  BY DEF IInv
<1> QED BY <1>1, Inductive, PTL

\* What joins runs after the allocating thread, an interface that is gone is
\* not bound any more, and a copy has the final access point.
THEOREM JoinsFirst == Spec => []JoinedFirst
<1>1. IInv => JoinedFirst
  <2> SUFFICES ASSUME IInv, ~early PROVE JoinedFirst
    BY DEF JoinedFirst
  <2>1. Allocating => ~joined
    BY DEF IInv, EarlyInv
  <2>2. \A t \in Users : op[t] \in Stubs /\ pc[t] \in {"joined", "lock", "wait"} => joined
    BY DEF IInv, AllocInv
  <2>3. (life = "dead" => joined) /\ (seen # None => seen = ap)
    BY DEF IInv, AllocInv, EarlyInv
  <2> QED BY <2>1, <2>2, <2>3 DEF JoinedFirst
<1> QED BY <1>1, Inductive, PTL

\* Every answer goes to the thread that asked and is read in the encoding it was
\* written in; a request is misread only over uds, once the encoding was changed
\* from xdr; and every variable keeps its type.
THEOREM AnswersPaired == Spec => []Paired
<1>1. IInv => Paired
  <2> SUFFICES ASSUME IInv PROVE Paired
    OBVIOUS
  <2>1. TypeOK /\ toServer \in Seq(Message) /\ toClient \in Seq(Reply)
    BY DEF IInv, Types
  <2>2. ASSUME toClient # <<>>
        PROVE  /\ Head(toClient).enc = enc
               /\ \A t \in Threads : pc[t] = "wait" =>
                    Head(toClient).by = t /\ Head(toClient).op = op[t]
    <3>1. /\ Head(toClient) = toClient[1] /\ toClient[1].enc = enc /\ 1 \in 1..Len(toClient)
          /\ pc[toClient[1].by] = "wait" /\ toClient[1].op = op[toClient[1].by]
      BY <2>1, <2>2 DEF IInv, WireInv
    <3>2. toClient[1].by \in Threads
      BY <3>1, OnWire
    <3> QED BY <3>1, <3>2 DEF IInv, WaitInv
  <2>3. ASSUME up, toServer # <<>>, Head(toServer).enc # senc PROVE proto = "uds" /\ enc # "xdr"
    <3>1. Head(toServer) = toServer[1] /\ 1 \in 1..Len(toServer)
      BY <2>1, <2>3
    <3>2. toClient = <<>>
      BY <2>3 DEF IInv, WireInv
    <3> QED BY <2>3, <3>1, <3>2 DEF IInv, WireInv, BrokerSide
  <2> QED BY <2>1, <2>2, <2>3 DEF Paired, Misread
<1> QED BY <1>1, Inductive, PTL

=============================================================================
