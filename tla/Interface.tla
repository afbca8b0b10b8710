----------------------------- MODULE Interface ------------------------------
(***************************************************************************)
(* One interface of a program (lib/dynamic/interface.cc) and the generated *)
(* code around it (parser/classmember.cc): asynchronous allocation of the  *)
(* object by a thread of its own (APOA), binding to the addresses of an    *)
(* access point, and the calls of several threads that share the one       *)
(* connection and the one buffer of the interface.                         *)
(*                                                                         *)
(* The two mutexes are _popc_async_mutex (who joins the allocating thread) *)
(* and _pop_imutex (who uses the buffer).  Releasing or assigning an       *)
(* interface another thread is using is a fault of the program and does    *)
(* not happen here; that the allocating thread still uses it is something  *)
(* the program does not see.  The other end is the object's process,       *)
(* reduced to the order in which it reads requests and answers them:       *)
(* Broker has the rest.  Forwarding is left out, no broker answers it, and *)
(* so is POPC_COMM_PATTERN.                                                *)
(***************************************************************************)
EXTENDS Naturals, Sequences, FiniteSets, SequencesExt

CONSTANTS
    Users,          \* the threads of the program
    Alloc,          \* the allocating thread
    ODs,            \* object descriptions: [protocol, local]
    Access,         \* the protocols of the object's addresses, in order
    Registered,     \* the protocols of pop_combox_factory
    ClientEncodings, ServerEncodings,   \* what each side has a factory for
    Encodings,      \* what Encoding is called with
    Killable,       \* pop_object::CanKill
    MaxOps,         \* bound: the operations the program starts
    None

ASSUME InterfaceAssumption ==
    /\ Alloc \notin Users
    /\ None \notin Users \cup {Alloc}
    /\ "xdr" \in ClientEncodings \cap ServerEncodings
    /\ Killable \in BOOLEAN
    /\ MaxOps \in Nat

Threads == Users \cup {Alloc}

\* Calls of the generated stubs, calls of pop_interface itself (the core
\* calls), and what the program does with the interface as a whole.
Stubs == {"call", "post"}
CoreCalls == {"ref", "encoding", "active", "kill"}
Joining == Stubs \cup {"pack", "copy", "destroy"}

VARIABLES
    od,         \* the object description of the interface
    async,      \* _popc_async: allocated by a thread of its own
    joined,     \* _popc_async_joined
    life,       \* of the interface: none, making, alive, dead
    ap,         \* accesspoint
    combox,     \* __pop_combox and __pop_buf: none, made, connected
    enc,        \* the encoding of __pop_buf
    amutex,     \* the holder of _popc_async_mutex, or None
    imutex,     \* the holder of _pop_imutex, or None
    pc, op,     \* of every thread: where it is, and in what
    arg,        \* of every thread: the encoding it asks for
    todo,       \* of every thread that binds: the addresses left
    up,         \* the connection is open at the other end
    toServer, toClient, \* the messages on the connection
    senc,       \* the encoding of the broker's end
    proto,      \* the protocol of the combox
    server,     \* the object's process: none, started, built, dead
    seen,       \* the access point the last copy was made from
    crash,      \* why the program died, or none
    early,      \* the program used the interface during the allocation
    assigned,   \* the interface was the target of an assignment
    ops

ivars == <<joined, life, ap, combox, enc>>
mvars == <<amutex, imutex>>
tvars == <<pc, op, arg, todo>>
wire == <<up, toServer, toClient, senc, proto>>
vars == <<od, async, ivars, mvars, tvars, wire, server, seen, crash, early, assigned, ops>>

Init ==
    /\ od \in ODs
    /\ async \in BOOLEAN
    /\ joined = TRUE
    /\ life = "none"
    /\ ap = <<>>
    /\ combox = "none"
    /\ enc = "xdr"
    /\ amutex = None /\ imutex = None
    /\ pc = [t \in Threads |-> "idle"]
    /\ op = [t \in Threads |-> "none"]
    /\ arg = [t \in Threads |-> "xdr"]
    /\ todo = [t \in Threads |-> <<>>]
    /\ up = FALSE
    /\ toServer = <<>> /\ toClient = <<>>
    /\ senc = "xdr" /\ proto = "none"
    /\ server = "none"
    /\ seen = None
    /\ crash = "none"
    /\ early = FALSE /\ assigned = FALSE
    /\ ops = 0

Alive == crash = "none"
\* The allocating thread runs.
Allocating == pc[Alloc] \notin {"idle", "ended", "reaped", "failed"}
Goto(t, where) == pc' = [pc EXCEPT ![t] = where]
Dies(why) ==
    /\ crash' = why
    /\ UNCHANGED <<od, async, ivars, mvars, tvars, wire, server, seen, early, assigned, ops>>

-----------------------------------------------------------------------------
(* Choices of allocate_only and Bind. *)

\* The allocator: a protocol string it does not know, one with two protocols
\* included, gives none, and the null pointer is used.
Allocator(d) ==
    CASE d.protocol = <<"uds">> -> "UDS local"
      [] d.protocol \in {<<>>, <<"socket">>} -> IF d.local THEN "TCP local" ELSE "TCP service"
      [] OTHER -> "none"

\* The addresses Bind tries: those of the access point in their order, or for
\* every preferred protocol those that match it.
Candidates(addresses) ==
    IF od.protocol = <<>> THEN addresses
    ELSE FlattenSeq([i \in DOMAIN od.protocol |->
                        SelectSeq(addresses, LAMBDA a : a = od.protocol[i])])

\* Release: the combox and the buffer go, and with them the connection.
Release ==
    /\ combox' = "none"
    /\ up' = FALSE
    /\ toServer' = <<>> /\ toClient' = <<>>
    /\ UNCHANGED <<joined, ap, enc, senc, proto>>

-----------------------------------------------------------------------------
(* The program starts something. *)

Begin(t, o, where) ==
    /\ Alive
    /\ pc[t] = "idle"
    /\ ops < MaxOps
    /\ ops' = ops + 1
    /\ op' = [op EXCEPT ![t] = o]
    /\ Goto(t, where)

\* The generated constructor: allocates itself, or starts a thread for it; the
\* interface is there even if pthread_create fails.
Create(t, started) ==
    /\ life = "none"
    /\ Alive
    /\ ops < MaxOps
    /\ ops' = ops + 1
    /\ life' = IF async THEN "alive" ELSE "making"
    /\ joined' = ~async
    /\ LET b == IF async THEN Alloc ELSE t
       IN  /\ op' = [op EXCEPT ![b] = "create"]
           /\ Goto(b, IF started THEN "alloc" ELSE "failed")
    /\ ~async => started
    /\ UNCHANGED <<od, async, ap, combox, enc, mvars, arg, todo, wire, server, seen, crash, early, assigned>>

Others(t) == Users \ {t}
\* A method, a copy, a serialization, the destructor: all join first.
Use(t, o) ==
    /\ life = "alive"
    /\ \A u \in Others(t) : op[u] \notin {"destroy", "assign", "rebind"} \/ pc[u] = "idle"
    /\ o = "destroy" => \A u \in Others(t) : pc[u] = "idle"
    /\ Begin(t, o, "enter")
    /\ UNCHANGED <<od, async, ivars, mvars, arg, todo, wire, server, seen, crash, early, assigned>>

\* A core call does not.
UseCore(t, o, e) ==
    /\ life = "alive"
    /\ \A u \in Others(t) : op[u] \notin {"destroy", "assign", "rebind"} \/ pc[u] = "idle"
    /\ Begin(t, o, "check")
    /\ arg' = [arg EXCEPT ![t] = e]
    /\ early' = (early \/ Allocating)
    /\ UNCHANGED <<od, async, ivars, mvars, todo, wire, server, seen, crash, assigned>>

\* operator=: the target counts as joined and is released and bound again,
\* to the source's access point, which may be empty.
Assign(t, source) ==
    /\ life = "alive"
    /\ \A u \in Others(t) : pc[u] = "idle"
    /\ Begin(t, "assign", IF source = <<>> THEN "idle" ELSE "bind")
    /\ todo' = [todo EXCEPT ![t] = Candidates(source)]
    /\ joined' = TRUE
    /\ ap' = source
    /\ combox' = "none" /\ up' = FALSE
    /\ toServer' = <<>> /\ toClient' = <<>>
    /\ early' = (early \/ Allocating)
    /\ assigned' = TRUE
    /\ seen' = None
    /\ UNCHANGED <<od, async, life, enc, senc, proto, mvars, arg, server, crash>>

-----------------------------------------------------------------------------
(* Joining the allocating thread. *)

\* Mutant of JoinLock: a thread that finds the mutex taken goes on.
JoinLockTry(t) ==
    /\ Alive
    /\ pc[t] = "enter"
    /\ IF async /\ ~joined /\ amutex = None
       THEN amutex' = t /\ Goto(t, "join")
       ELSE amutex' = amutex /\ Goto(t, "joined")
    /\ UNCHANGED <<od, async, ivars, imutex, op, arg, todo, wire, server, seen, crash, early, assigned, ops>>

\* The join block, up to pthread_join: under the mutex, the first thread that
\* finds _popc_async_joined unset joins.
JoinLock(t) ==
    /\ Alive
    /\ pc[t] = "enter"
    /\ ~async \/ amutex = None
    /\ IF async /\ ~joined
       THEN amutex' = t /\ Goto(t, "join")
       ELSE amutex' = amutex /\ Goto(t, "joined")
    /\ UNCHANGED <<od, async, ivars, imutex, op, arg, todo, wire, server, seen, crash, early, assigned, ops>>

\* pthread_join; undefined for a thread that was never created and for one
\* that was joined before.
PthreadJoin(t) == pc[Alloc] = "ended" /\ pc' = [pc EXCEPT ![t] = "joined", ![Alloc] = "reaped"]

\* Mutant of Join: that the thread was joined is not noted.
JoinForgets(t) ==
    /\ Alive
    /\ pc[t] = "join"
    /\ IF pc[Alloc] \in {"failed", "reaped"} THEN Dies("join")
       ELSE /\ PthreadJoin(t)
            /\ amutex' = None
            /\ UNCHANGED <<od, async, ivars, imutex, op, arg, todo, wire, server, seen, crash, early, assigned, ops>>

Join(t) ==
    /\ Alive
    /\ pc[t] = "join"
    /\ IF pc[Alloc] \in {"failed", "reaped"} THEN Dies("join")
       ELSE /\ PthreadJoin(t)
            /\ joined' = TRUE
            /\ amutex' = None
            /\ UNCHANGED <<od, async, life, ap, combox, enc, imutex, op, arg, todo, wire,
                           server, seen, crash, early, assigned, ops>>

Ends(t) == IF t = Alloc THEN Goto(t, "ended") ELSE Goto(t, "idle")

\* What follows the join: a method that finds no combox returns, or reads
\* through a null pointer if it has a result; a copy takes the access point;
\* a serialization adds a reference; the destructor releases.
Joined(t) ==
    /\ Alive
    /\ pc[t] = "joined"
    /\ CASE op[t] \in Stubs ->
              IF async /\ combox = "none"
              THEN IF op[t] = "call" THEN Dies("no result")
                   ELSE Ends(t) /\ UNCHANGED <<ivars, op, wire, seen, crash>>
              ELSE Goto(t, "lock") /\ UNCHANGED <<ivars, op, wire, seen, crash>>
         [] op[t] = "copy" -> /\ Ends(t) /\ seen' = ap
                              /\ UNCHANGED <<ivars, op, wire, crash>>
         [] op[t] = "pack" -> /\ Goto(t, "check")
                              /\ op' = [op EXCEPT ![t] = "ref"]
                              /\ UNCHANGED <<ivars, wire, seen, crash>>
         [] op[t] = "destroy" -> /\ Ends(t) /\ life' = "dead"
                                 /\ Release
                                 /\ UNCHANGED <<op, seen, crash>>
    /\ UNCHANGED <<od, async, mvars, arg, todo, server, early, assigned, ops>>

-----------------------------------------------------------------------------
(* Allocation and binding, by the allocating thread or by the thread that
   constructs or assigns. *)

\* An exception leaves what t was doing.  Out of the constructor it takes the
\* interface with it; out of the allocating thread it ends the program, whose
\* handler catches pop_exception* and not pop_exception.
Throws(t) ==
    IF t = Alloc
    THEN crash' = "terminate" /\ UNCHANGED <<ivars, wire, pc>>
    ELSE /\ Goto(t, "idle")
         /\ UNCHANGED crash
         /\ IF op[t] = "create" THEN life' = "dead" /\ Release
            ELSE UNCHANGED <<ivars, wire>>

\* A thread of the program inside a call would go on with what is deleted.
InUse(t) == combox # "none" /\ \E u \in Threads \ {t} : pc[u] = "wait"

\* Allocate: the allocator starts the object's process and gives its
\* addresses, or throws.
Allocate(t, ok) ==
    /\ Alive
    /\ pc[t] = "alloc"
    /\ IF Allocator(od) = "none" THEN Dies("allocator")
       ELSE IF ok
       THEN /\ ap' = Access
            /\ server' = "started"
            /\ todo' = [todo EXCEPT ![t] = Candidates(Access)]
            /\ Goto(t, "bind")
            /\ UNCHANGED <<joined, life, combox, enc, wire, crash>>
       ELSE Throws(t) /\ UNCHANGED <<todo, server>>
    /\ UNCHANGED <<od, async, mvars, op, arg, seen, early, assigned, ops>>

\* Bind(dest): release what there is and create a combox of the protocol.
BindCreate(t) ==
    /\ Alive
    /\ pc[t] = "bind" /\ todo[t] # <<>>
    /\ IF InUse(t) THEN Dies("race")
       ELSE /\ up' = FALSE /\ toServer' = <<>> /\ toClient' = <<>>
            /\ IF Head(todo[t]) \in Registered
               THEN /\ combox' = "made" /\ proto' = Head(todo[t]) /\ Goto(t, "connect")
                    /\ UNCHANGED todo
               ELSE /\ combox' = "none" /\ todo' = [todo EXCEPT ![t] = Tail(@)]
                    /\ UNCHANGED <<pc, proto>>
            /\ UNCHANGED <<joined, life, ap, enc, senc, crash>>
    /\ UNCHANGED <<od, async, mvars, op, arg, server, seen, early, assigned, ops>>

\* Create and Connect of the combox, with a timeout; Create closes what the
\* combox had open.
BindConnect(t, ok) ==
    /\ Alive
    /\ pc[t] = "connect"
    /\ ok => server \in {"started", "built"}
    /\ IF combox = "none" \/ InUse(t) THEN Dies("race")
       ELSE /\ IF ok
               THEN /\ combox' = "connected" /\ up' = TRUE
                    /\ enc' = "xdr" /\ senc' = "xdr"
                    /\ op' = [op EXCEPT ![t] = IF @ = "create" THEN "status" ELSE "rebind"]
                    /\ Goto(t, "lock")
                    /\ UNCHANGED todo
               ELSE /\ combox' = "none" /\ up' = FALSE
                    /\ todo' = [todo EXCEPT ![t] = Tail(@)]
                    /\ Goto(t, "bind")
                    /\ UNCHANGED <<enc, senc, op>>
            /\ toServer' = <<>> /\ toClient' = <<>>
            /\ UNCHANGED <<joined, life, ap, proto, crash>>
    /\ UNCHANGED <<od, async, mvars, arg, server, seen, early, assigned, ops>>

\* No address is left: OBJECT_BIND_FAIL.
BindFails(t) ==
    /\ Alive
    /\ pc[t] = "bind" /\ todo[t] = <<>>
    /\ Throws(t)
    /\ UNCHANGED <<od, async, mvars, op, arg, todo, server, seen, early, assigned, ops>>

-----------------------------------------------------------------------------
(* Calls: the check, the mutex, Send, Recv. *)

\* The core calls look for a combox before they take the mutex.  Encoding also
\* looks for a factory.
Check(t) ==
    /\ Alive
    /\ pc[t] = "check"
    /\ IF combox = "none" \/ (op[t] = "encoding" /\ arg[t] \notin ClientEncodings)
       THEN Ends(t) ELSE Goto(t, "lock")
    /\ UNCHANGED <<od, async, ivars, mvars, op, arg, todo, wire, server, seen, crash, early, assigned, ops>>

\* The exception of Send and of Recv: out of BindStatus it is caught by Bind,
\* which goes on with the next address and leaves the combox to it.
Broken(t) ==
    /\ imutex' = None
    /\ IF op[t] \in {"status", "rebind"}
       THEN /\ Goto(t, "bind")
            /\ todo' = [todo EXCEPT ![t] = Tail(@)]
            /\ op' = [op EXCEPT ![t] = IF @ = "status" THEN "create" ELSE "assign"]
            /\ UNCHANGED <<ivars, wire, crash>>
       ELSE IF op[t] = "construct" /\ t # Alloc
       THEN Goto(t, "idle") /\ life' = "dead" /\ Release /\ UNCHANGED <<op, todo, crash>>
       ELSE Throws(t) /\ UNCHANGED <<op, todo>>

\* Mutant of SendRequest: without the mutex.
SendRequestUnlocked(t) ==
    /\ Alive
    /\ pc[t] = "lock"
    /\ IF combox = "none" /\ op[t] \notin Stubs THEN Dies("null")
       ELSE IF combox # "connected" \/ (~up /\ op[t] # "post")
       THEN Broken(t)
       ELSE /\ toServer' = IF up THEN Append(toServer, [by |-> t, op |-> op[t], arg |-> arg[t], enc |-> enc])
                           ELSE toServer
            /\ imutex' = IF op[t] = "post" THEN None ELSE t
            /\ IF op[t] = "post" THEN Ends(t) ELSE Goto(t, "wait")
            /\ UNCHANGED <<ivars, op, todo, up, toClient, senc, proto, crash>>
    /\ UNCHANGED <<od, async, amutex, arg, server, seen, early, assigned, ops>>

\* The request is marshalled and sent under the mutex.  A method without
\* result returns at once, whether or not the other end is there.
SendRequest(t) ==
    /\ Alive
    /\ pc[t] = "lock"
    /\ imutex = None
    /\ IF combox = "none" /\ op[t] \notin Stubs THEN Dies("null")
       ELSE IF combox # "connected" \/ (~up /\ op[t] # "post")
       THEN Broken(t)
       ELSE /\ toServer' = IF up THEN Append(toServer, [by |-> t, op |-> op[t], arg |-> arg[t], enc |-> enc])
                           ELSE toServer
            /\ imutex' = IF op[t] = "post" THEN None ELSE t
            /\ IF op[t] = "post" THEN Ends(t) ELSE Goto(t, "wait")
            /\ UNCHANGED <<ivars, op, todo, up, toClient, senc, proto, crash>>
    /\ UNCHANGED <<od, async, amutex, arg, server, seen, early, assigned, ops>>

\* The answer is read and the call returns: a bound interface goes on to the
\* remote constructor, Encoding exchanges the buffer.
RecvResponse(t) ==
    /\ Alive
    /\ pc[t] = "wait" /\ toClient # <<>>
    /\ LET r == Head(toClient)
       IN  IF op[t] = "construct" /\ ~r.ok THEN Broken(t)
           ELSE /\ toClient' = Tail(toClient)
                /\ imutex' = None
                /\ IF op[t] = "status"
                   THEN op' = [op EXCEPT ![t] = "construct"] /\ Goto(t, "lock")
                   ELSE UNCHANGED op /\ Ends(t)
                /\ IF t # Alloc /\ op[t] = "construct" THEN life' = "alive" ELSE UNCHANGED life
                /\ enc' = IF op[t] = "encoding" /\ r.ok THEN arg[t] ELSE enc
                /\ UNCHANGED <<joined, ap, combox, todo, up, toServer, senc, proto, crash>>
    /\ UNCHANGED <<od, async, amutex, arg, server, seen, early, assigned, ops>>

\* Mutant of RecvFails: the mutex stays locked.
RecvFailsHeld(t) ==
    /\ Alive
    /\ pc[t] = "wait" /\ toClient = <<>> /\ ~up
    /\ imutex' = imutex
    /\ Throws(t)
    /\ UNCHANGED <<op, todo>>
    /\ UNCHANGED <<od, async, amutex, arg, server, seen, early, assigned, ops>>

\* The other end closed the connection and everything was read.  Kill ends
\* like this as well: the process exits without the acknowledgement Kill waits
\* for, so Release after it is not reached.
RecvFails(t) ==
    /\ Alive
    /\ pc[t] = "wait" /\ toClient = <<>> /\ ~up
    /\ Broken(t)
    /\ UNCHANGED <<od, async, amutex, arg, server, seen, early, assigned, ops>>

-----------------------------------------------------------------------------
(* The object's process. *)

Answer(m, ok) == toClient' = Append(toClient, [by |-> m.by, op |-> m.op, ok |-> ok, enc |-> m.enc])

\* The first request is in another encoding than the one the broker reads.
\* The length in its header comes out wrong by many millions, and the receive
\* thread reads all that follows as the rest of it.
Misread == up /\ toServer # <<>> /\ Head(toServer).enc # senc

\* SetBufferFactory on the connection a request came from.  A socket keeps its
\* connections; uds makes a new one, with the default encoding, for every
\* message it finds, and this one is forgotten.
SetBufferFactory(e) == senc' = IF proto = "uds" THEN senc ELSE e

\* The broker reads one request and serves it.  A core call before the object
\* exists is answered with an exception; kill is never answered.
Serve(ok) ==
    /\ server \in {"started", "built"}
    /\ up /\ toServer # <<>> /\ ~Misread
    /\ LET m == Head(toServer)
       IN  /\ ~ok => m.op = "construct"
           /\ toServer' = Tail(toServer)
           /\ CASE m.op \in {"status", "rebind", "call"} -> Answer(m, TRUE) /\ UNCHANGED <<server, up, senc>>
                [] m.op = "construct" -> /\ Answer(m, ok)
                                         /\ server' = IF ok THEN "built" ELSE "dead"
                                         /\ up' = ok
                                         /\ UNCHANGED senc
                [] m.op \in {"ref", "active"} -> Answer(m, server = "built") /\ UNCHANGED <<server, up, senc>>
                [] m.op = "encoding" -> /\ Answer(m, m.arg \in ServerEncodings)
                                        /\ SetBufferFactory(IF m.arg \in ServerEncodings THEN m.arg ELSE senc)
                                        /\ UNCHANGED <<server, up>>
                [] m.op = "kill" -> /\ server' = IF server = "built" /\ Killable THEN "dead" ELSE server
                                    /\ up' = (server' # "dead")
                                    /\ UNCHANGED <<toClient, senc>>
                [] m.op = "post" -> UNCHANGED <<toClient, server, up, senc>>
    /\ UNCHANGED <<od, async, ivars, mvars, tvars, proto, seen, crash, early, assigned, ops>>

\* The object's process dies.
ServerDies ==
    /\ server \in {"started", "built"}
    /\ server' = "dead"
    /\ up' = FALSE
    /\ UNCHANGED <<od, async, ivars, mvars, tvars, toServer, toClient, senc, proto, seen, crash, early, assigned, ops>>

-----------------------------------------------------------------------------

Steps(t) ==
    \/ \E ok \in BOOLEAN : Allocate(t, ok) \/ BindConnect(t, ok)
    \/ BindCreate(t)
    \/ BindFails(t)
    \/ Check(t)
    \/ SendRequest(t)
    \/ RecvResponse(t)
    \/ RecvFails(t)
    \/ JoinLock(t)
    \/ Join(t)
    \/ Joined(t)

Next ==
    \/ \E t \in Users : \/ \E started \in BOOLEAN : Create(t, started)
                        \/ \E o \in Joining : Use(t, o)
                        \/ \E o \in CoreCalls \ {"encoding"} : UseCore(t, o, "xdr")
                        \/ \E e \in Encodings : UseCore(t, "encoding", e)
                        \/ \E source \in {<<>>, Access} : Assign(t, source)
    \/ \E t \in Threads : Steps(t)
    \/ \E ok \in BOOLEAN : Serve(ok)
    \/ ServerDies

Spec == Init /\ [][Next]_vars
\* Threads run, and a live process reads what is sent to it.
FairSpec ==
    /\ Spec
    /\ \A t \in Threads : WF_vars(Steps(t))
    /\ WF_vars(\E ok \in BOOLEAN : Serve(ok))

-----------------------------------------------------------------------------
(* Properties. *)

Busy == {"enter", "join", "joined", "check", "lock", "wait", "alloc", "bind", "connect"}
TypeOK ==
    /\ od \in ODs /\ async \in BOOLEAN /\ joined \in BOOLEAN /\ early \in BOOLEAN /\ assigned \in BOOLEAN
    /\ life \in {"none", "making", "alive", "dead"}
    /\ ap \in {<<>>, Access}
    /\ combox \in {"none", "made", "connected"}
    /\ enc \in ClientEncodings /\ senc \in ServerEncodings /\ proto \in Registered \cup {"none"}
    /\ amutex \in Users \cup {None} /\ imutex \in Threads \cup {None}
    /\ pc \in [Threads -> Busy \cup {"idle", "ended", "reaped", "failed"}]
    /\ crash \in {"none", "join", "no result", "terminate", "allocator", "race", "null"}
    /\ up => server \in {"started", "built"}
    /\ ops \in 0..MaxOps

\* The program dies of its use of the interface only where it is used during
\* the allocation by what does not join (a core call, an assignment), where
\* the allocating thread could not be created, where the allocation itself
\* failed, or where a method with a result is called on an interface that an
\* assignment left without an object: no two threads join, none uses a combox another one deletes, none
\* goes on without a combox it has seen (the join blocks, the checks before
\* the mutex, Release outside of it).
Survives ==
    \/ crash \in {"none", "terminate"}
    \/ crash = "allocator" /\ Allocator(od) = "none"
    \/ crash = "join" /\ pc[Alloc] = "failed"
    \/ crash \in {"race", "null"} /\ early
    \/ crash = "no result" /\ assigned

\* A thread of the program that is past the join block of a stub never runs
\* beside the allocating thread: the interface has one user of its combox at a
\* time although Allocate, Bind and Release take no mutex.  An interface that is
\* gone is not used any more by its allocating thread, and a copy or a
\* serialized reference has the access point the interface ends up with, not
\* the one it had before its allocation finished (the join blocks of the copy
\* constructor, operator= and Serialize).
JoinedFirst ==
    ~early =>
        /\ \A t \in Users :
             op[t] \in Stubs /\ pc[t] \in {"joined", "lock", "wait"} => ~Allocating
        /\ life = "dead" => ~Allocating
        /\ seen # None => seen = ap

\* The answer a thread reads is the one to its own request, although all
\* threads share one connection and one buffer, and it is read in the encoding
\* it was written in.  Over sockets every request is, too, across the change of
\* the encoding at the two ends by Encoding; over uds the broker's end never
\* changes (popc_combox_uds::Wait), so that requests are misread there from the
\* first Encoding that answers true for anything but xdr, and not before.
\* Every variable keeps its type.
Paired ==
    /\ TypeOK
    /\ \A t \in Threads : pc[t] = "wait" /\ toClient # <<>> =>
         Head(toClient).by = t /\ Head(toClient).op = op[t]
    /\ Misread => proto = "uds" /\ enc # "xdr"
    /\ toClient # <<>> => Head(toClient).enc = enc

\* Kill reached an object that does not let itself be killed, or no object
\* yet: nobody answers it.
KillIgnored == \E t \in Users : pc[t] = "wait" /\ op[t] = "kill" /\ up /\ toServer = <<>>

\* Whatever a thread does with the interface comes to an end, by a result or
\* an exception, whether the object's process lives or dies; but a Kill that
\* is ignored keeps its caller, and the mutex, for ever, and so does a call
\* over uds after its encoding was changed.
CallEnds ==
    \A t \in Threads :
        pc[t] \in Busy ~> (pc[t] \notin Busy \/ ~Alive \/ KillIgnored \/ Misread)
=============================================================================
