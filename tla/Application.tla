---------------------------- MODULE Application ----------------------------
(***************************************************************************)
(* The life of one application: the main process, the processes of the     *)
(* parallel objects it creates, the references (pop_interface) they hold   *)
(* to each other, and the application service with its ObjectMonitor.      *)
(*                                                                         *)
(* A reference is a connection.  Over sockets the broker counts            *)
(* connections: OnNewConnection and OnCloseConnection change refcount, and *)
(* a close is noticed by the receive thread some time after the client     *)
(* closed.  Over Unix domain sockets the combox never calls these, so only *)
(* AddRef and DecRef count.  A reference passed as an argument is counted  *)
(* when it is packed (AddRef) and given back once the receiver has bound   *)
(* its own connection (DecRef).  Every object also has the reference the   *)
(* compiler puts behind `this`: an interface of the object to itself,      *)
(* connected by its constructor and never deleted.                         *)
(*                                                                         *)
(* The scheduling of the calls inside an object is Broker's subject; here  *)
(* a call is queued, runs in the serving thread or in a thread of its own, *)
(* and ends.                                                               *)
(***************************************************************************)
EXTENDS Integers, Sequences, FiniteSets, SequencesExt

CONSTANTS
    Obj,         \* the parallel objects the application may create
    Main,        \* the main process
    None,
    Plans,       \* bounds: what the application does, see PlanType
    PingAfter,   \* Finalize pings when loop > PingAfter (5 in the code)
    ResetAt,     \* the loop at which timeout reaches 1800 and loop restarts
    Floor,       \* bound: counts below -Floor are not told apart
    MaxClosing   \* bound: closes still unnoticed when o accepts

Proc == Obj \cup {Main}

\* The protocol, the objects that may be created, those that may be passed in
\* calls, the calls that are issued, the references one process may hold to one
\* object, the objects whose access point in the monitor's list reads as marked
\* NoAddRef, whether main may end abnormally and whether the history of the pings
\* is recorded.
\* The copy constructor of pop_accesspoint reads its own, uninitialised flag
\* instead of the one it copies, so a copy may read as marked or not.
PlanType == [mode : {"socket", "uds"}, objs : SUBSET Obj, args : SUBSET Obj,
             calls : Nat, refs : Nat, marked : SUBSET Obj, abnormal : BOOLEAN,
             watch : BOOLEAN]

ASSUME ApplicationAssumption ==
    /\ Main \notin Obj
    /\ None \notin Proc
    /\ IsFiniteSet(Obj)
    /\ Plans \subseteq PlanType
    /\ PingAfter \in Nat /\ ResetAt \in Nat /\ PingAfter < ResetAt
    /\ Floor \in Nat /\ MaxClosing \in Nat

VARIABLES
    plan,        \* the bounds of this run, a member of Plans
    phase,       \* phase[o]: the process of o
    alloc,       \* alloc[p]: the object p is creating
    self,        \* the objects connected to themselves: __POPThis_X is set
    refcount,    \* obj->refcount of o
    refs,        \* refs[p][o]: comboxes of p connected to o, __POPThis_X aside
    closing,     \* closing[o]: closes the receive thread of o has not noticed
    pending,     \* pending[p][o]: references unpacked by p before its DecRef
    queued,      \* queued[o]: request_fifo of o, the reference each call carries
    serving,     \* serving[o]: the serving thread executes a call
    conc,        \* conc[o]: instanceCount
    calls,       \* calls issued so far
    managed,     \* ObjectMonitor::objects
    isActive,    \* ObjectMonitor::isActive
    toMon,       \* ManageObject and UnManageObject calls in flight
    mon,         \* the CheckObjects or KillAll in progress
    main,        \* the main program
    touched,     \* history: living objects the monitor dropped or reached too early
    orphans,     \* history: living objects with a count nobody will give back
    seen1,       \* history: active since before the last ping began
    seen2        \* history: active since before the ping before that began

life    == <<phase, alloc, self>>
count   == <<refcount, closing>>
inside  == <<queued, serving, conc, pending>>
monitor == <<managed, isActive, mon>>
marks   == <<touched, orphans>>
seen    == <<seen1, seen2>>
vars    == <<plan, life, refcount, refs, closing, inside, calls, monitor,
             toMon, main, marks, seen>>

Phases == {"none", "spawned", "ready", "building", "alive", "draining", "gone"}

\* Types; the list of the monitor never holds an object twice.
TypeOK ==
    /\ plan \in Plans
    /\ phase \in [Obj -> Phases]
    /\ alloc \in [Proc -> Obj \cup {None}]
    /\ self \subseteq Obj
    /\ refcount \in [Obj -> Int]
    /\ refs \in [Proc -> [Obj -> Nat]]
    /\ closing \in [Obj -> Nat]
    /\ pending \in [Obj -> [Obj -> Nat]]
    /\ queued \in [Obj -> Seq(Obj \cup {None})]
    /\ serving \in [Obj -> BOOLEAN]
    /\ conc \in [Obj -> Nat]
    /\ calls \in 0..plan.calls
    /\ managed \in Seq(Obj)
    /\ \A i, j \in 1..Len(managed) : managed[i] = managed[j] => i = j
    /\ isActive \in BOOLEAN
    /\ toMon \subseteq {"manage", "unmanage"} \X Obj
    /\ mon \in [pc : {"idle", "bind", "unref", "ask", "drop", "kill", "ack"},
                todo : Seq(Obj), active : BOOLEAN, killall : BOOLEAN]
    /\ main \in [pc : {"run", "finalize", "wait", "done"},
                 loop : 0..ResetAt, oldcount : Nat, normal : BOOLEAN]

Zero == [o \in Obj |-> 0]

Init ==
    /\ plan \in Plans
    /\ phase = [o \in Obj |-> "none"]
    /\ alloc = [p \in Proc |-> None]
    /\ self = {}
    /\ refcount = Zero
    /\ refs = [p \in Proc |-> Zero]
    /\ closing = Zero
    /\ pending = [p \in Obj |-> Zero]
    /\ queued = [o \in Obj |-> <<>>]
    /\ serving = [o \in Obj |-> FALSE]
    /\ conc = Zero
    /\ calls = 0
    /\ managed = <<>>
    /\ isActive = TRUE
    /\ toMon = {}
    /\ mon = [pc |-> "idle", todo |-> <<>>, active |-> FALSE, killall |-> FALSE]
    /\ main = [pc |-> "run", loop |-> 0, oldcount |-> 0, normal |-> TRUE]
    /\ touched = {}
    /\ orphans = {}
    /\ seen1 = {}
    /\ seen2 = {}

-----------------------------------------------------------------------------
(* Connections and counts. *)

\* The broker's obj is set once the generated constructor call returns.
Exists(o) == phase[o] \in {"alive", "draining"}

\* A combox of o accepts, and PopCall answers BindStatus without an object.
Reachable(o) == phase[o] \in {"ready", "building"} \/ Exists(o)

\* OnNewConnection: the connection is counted only once there is an object.
Opened(o) == IF plan.mode = "socket" /\ Exists(o) THEN 1 ELSE 0

\* DecRef.  Nothing keeps the count from going below zero; the monitor takes
\* one more away at every check while a call keeps the object from ending.
Less(o) == IF refcount[o] > -Floor THEN refcount[o] - 1 ELSE refcount[o]

\* Release and the destructor of an interface delete the combox: the close
\* reaches o's receive thread later, or never when there is none.
Closed(o) == IF plan.mode = "socket" /\ Reachable(o) THEN 1 ELSE 0

\* PopCall ObjectActive: instanceCount || request_fifo.size().
ObjectActive(o) == conc[o] > 0 \/ queued[o] # <<>>

Carried(o) == {queued[o][i] : i \in 1..Len(queued[o])} \ {None}

\* p's code runs: popmain, or a call some thread of the object executes.
Executing(p) == IF p = Main THEN main.pc = "run"
                ELSE Exists(p) /\ (serving[p] \/ conc[p] > 0)

Free(p) == Executing(p) /\ alloc[p] = None

\* The process of p ends: the system closes its connections, the calls it
\* held are lost, and with them the references packed into them.
ProcessEnds(p) ==
    /\ refs' = [refs EXCEPT ![p] = Zero]
    /\ closing' = [o \in Obj |-> IF o = p THEN 0 ELSE closing[o] + refs[p][o] * Closed(o)]
    /\ alloc' = [alloc EXCEPT ![p] = None]

ObjectEnds(o) ==
    /\ ProcessEnds(o)
    /\ phase' = [phase EXCEPT ![o] = "gone"]
    /\ self' = self \ {o}
    /\ refcount' = [refcount EXCEPT ![o] = 0]
    /\ queued' = [queued EXCEPT ![o] = <<>>]
    /\ serving' = [serving EXCEPT ![o] = FALSE]
    /\ conc' = [conc EXCEPT ![o] = 0]
    /\ pending' = [pending EXCEPT ![o] = Zero]
    /\ orphans' = (orphans \cup Carried(o) \cup {x \in Obj : pending[o][x] > 0}) \ {o}
    /\ touched' = touched \ {o}

-----------------------------------------------------------------------------
(* Creation. *)

\* allocate_only: the allocator starts the process and waits for its callback.
Allocate(p, o) ==
    /\ Free(p)
    /\ phase[o] = "none" /\ o \in plan.objs
    /\ phase' = [phase EXCEPT ![o] = "spawned"]
    /\ alloc' = [alloc EXCEPT ![p] = o]
    /\ UNCHANGED <<plan, self, count, refs, inside, calls, monitor, toMon, main,
                   marks>>

\* The main of the object's process: the broker is created, status and access
\* point go to the callback, and Run starts; or a step fails and it exits.
ObjMain(o) ==
    /\ phase[o] = "spawned"
    /\ phase' \in {[phase EXCEPT ![o] = "ready"], [phase EXCEPT ![o] = "gone"]}
    /\ UNCHANGED <<plan, alloc, self, count, refs, inside, calls, monitor, toMon,
                   main, marks>>

\* The creator got the address: it binds (the connection is not counted, there
\* is no object yet) and calls the constructor, whose base class sets refcount
\* to 1 and sends ManageObject before the broker's obj is assigned.
Construct(p, o) ==
    /\ alloc[p] = o
    /\ phase[o] = "ready"
    /\ refs' = [refs EXCEPT ![p][o] = 1]
    /\ phase' = [phase EXCEPT ![o] = "building"]
    /\ refcount' = [refcount EXCEPT ![o] = 1]
    /\ toMon' = toMon \cup {<<"manage", o>>}
    /\ UNCHANGED <<plan, alloc, self, closing, inside, calls, monitor, main, marks>>

\* What the compiler puts first in the constructor of every parclass:
\* __POPThis_X = new X(GetAccessPointForThis()).  The object binds to its own
\* process; the broker has no object yet, so this connection is not counted
\* either.  It closes when the process ends.
OpenThis(o) ==
    /\ phase[o] = "building"
    /\ o \notin self
    /\ self' = self \cup {o}
    /\ refcount' = [refcount EXCEPT ![o] = @ + Opened(o)]
    /\ UNCHANGED <<plan, phase, alloc, closing, refs, inside, calls, monitor, toMon,
                   main, marks>>

Built(o) ==
    /\ phase[o] = "building"
    /\ o \in self
    /\ phase' = [phase EXCEPT ![o] = "alive"]
    /\ alloc' = [p \in Proc |-> IF alloc[p] = o THEN None ELSE alloc[p]]
    /\ UNCHANGED <<plan, self, count, refs, inside, calls, monitor, toMon, main,
                   marks>>

\* The allocator's Recv fails or times out (ALLOC_TIMEOUT), or the call of the
\* constructor is cut: an exception, and the half-made interface is released.
AllocFails(p, o) ==
    /\ alloc[p] = o
    /\ phase[o] \in {"spawned", "gone"}
    /\ alloc' = [alloc EXCEPT ![p] = None]
    /\ refs' = [refs EXCEPT ![p][o] = 0]
    /\ UNCHANGED <<plan, phase, self, count, inside, calls, monitor, toMon, main,
                   marks>>

\* Run arms the alarm before the first request and disarms it after the
\* constructor; ExitHandler ends a process nobody constructs an object in.
Alarm(o) ==
    /\ phase[o] \in {"ready", "building"}
    /\ ObjectEnds(o)
    /\ UNCHANGED <<plan, calls, monitor, toMon, main>>

-----------------------------------------------------------------------------
(* References. *)

\* Copy constructor and assignment: Bind to the same access point.
CopyReference(p, o) ==
    /\ Free(p)
    /\ refs[p][o] \in 1..plan.refs - 1
    /\ closing[o] <= MaxClosing
    /\ Reachable(o)
    /\ refs' = [refs EXCEPT ![p][o] = @ + 1]
    /\ refcount' = [refcount EXCEPT ![o] = @ + Opened(o)]
    /\ UNCHANGED <<plan, life, closing, inside, calls, monitor, toMon, main, marks>>

Release(p, o) ==
    /\ Free(p)
    /\ refs[p][o] > 0
    /\ refs' = [refs EXCEPT ![p][o] = @ - 1]
    /\ closing' = [closing EXCEPT ![o] = @ + Closed(o)]
    /\ UNCHANGED <<plan, life, refcount, inside, calls, monitor, toMon, main, marks>>

\* OnCloseConnection: a close noticed before the object exists is not counted,
\* so the count the constructor starts with is nobody's.
OnCloseConnection(o) ==
    /\ closing[o] > 0
    /\ closing' = [closing EXCEPT ![o] = @ - 1]
    /\ refcount' = [refcount EXCEPT ![o] = IF Exists(o) THEN Less(o) ELSE @]
    /\ orphans' = IF phase[o] = "building" THEN orphans \cup {o} ELSE orphans
    /\ UNCHANGED <<plan, life, refs, inside, calls, monitor, toMon, main, touched>>

\* p can name x: an interface of its own, or `this` in a method of x, which
\* the compiler replaces by __POPThis_X.
Has(p, x) == refs[p][x] > 0 \/ (p = x /\ p \in self)

\* Mutant of Call: a packed reference is not counted while it travels.
CallNoAddRef(p, q, x) ==
    /\ Free(p)
    /\ calls < plan.calls
    /\ Has(p, q)
    /\ x # None => x \in plan.args /\ Has(p, x) /\ Exists(x)
    /\ calls' = calls + 1
    /\ queued' = [queued EXCEPT ![q] = IF Exists(q) THEN Append(@, x) ELSE @]
    /\ UNCHANGED <<plan, life, count, refs, serving, conc, pending, monitor,
                   toMon, main, marks>>

\* p calls q with the reference x as an argument, or none; q and x may be p
\* itself, and x may be q.  Packing the argument calls AddRef on x; when q is
\* gone the request is lost and the count with it.
Call(p, q, x) ==
    /\ Free(p)
    /\ calls < plan.calls
    /\ Has(p, q)
    /\ x # None => x \in plan.args /\ Has(p, x) /\ Exists(x)
    /\ calls' = calls + 1
    /\ refcount' = IF x = None THEN refcount ELSE [refcount EXCEPT ![x] = @ + 1]
    /\ queued' = [queued EXCEPT ![q] = IF Exists(q) THEN Append(@, x) ELSE @]
    /\ orphans' = IF x # None /\ ~Exists(q) THEN orphans \cup {x} ELSE orphans
    /\ UNCHANGED <<plan, life, refs, closing, serving, conc, pending, monitor,
                   toMon, main, touched>>

\* The broker takes the first call; a reference among its arguments is bound
\* (Serialize), or the bind throws and the call ends there.
Start(o) ==
    /\ phase[o] = "alive"
    /\ queued[o] # <<>>
    /\ ~serving[o]
    /\ LET x == Head(queued[o]) IN
       /\ queued' = [queued EXCEPT ![o] = Tail(@)]
       /\ IF x # None /\ ~Exists(x)
          THEN UNCHANGED <<refs, refcount, pending, serving, conc>>
          ELSE /\ \/ serving' = [serving EXCEPT ![o] = TRUE] /\ UNCHANGED conc
                  \/ conc' = [conc EXCEPT ![o] = @ + 1] /\ UNCHANGED serving
               /\ IF x = None THEN UNCHANGED <<refs, refcount, pending>>
                  ELSE /\ refs' = [refs EXCEPT ![o][x] = @ + 1]
                       /\ refcount' = [refcount EXCEPT ![x] = @ + Opened(x)]
                       /\ pending' = [pending EXCEPT ![o][x] = @ + 1]
    /\ UNCHANGED <<plan, life, closing, calls, monitor, toMon, main, marks>>

\* ... and the count of the packed reference is given back.
Unpacked(o, x) ==
    /\ pending[o][x] > 0
    /\ pending' = [pending EXCEPT ![o][x] = @ - 1]
    /\ refcount' = [refcount EXCEPT ![x] = IF Exists(x) THEN Less(x) ELSE @]
    /\ UNCHANGED <<plan, life, refs, closing, queued, serving, conc, calls,
                   monitor, toMon, main, marks>>

EndCall(o) ==
    /\ Exists(o)
    /\ pending[o] = Zero
    /\ alloc[o] = None
    /\ \/ /\ serving[o]
          /\ serving' = [serving EXCEPT ![o] = FALSE]
          /\ UNCHANGED conc
       \/ /\ conc[o] > 0
          /\ conc' = [conc EXCEPT ![o] = @ - 1]
          /\ UNCHANGED serving
    /\ UNCHANGED <<plan, life, count, refs, queued, pending, calls, monitor,
                   toMon, main, marks>>

\* GetRequest returns false: no request and no reference.  From here Run only
\* waits for the invocations.
Leave(o) ==
    /\ phase[o] = "alive"
    /\ refcount[o] <= 0
    /\ queued[o] = <<>>
    /\ ~serving[o]
    /\ phase' = [phase EXCEPT ![o] = "draining"]
    /\ UNCHANGED <<plan, alloc, self, count, refs, inside, calls, monitor, toMon,
                   main, marks>>

\* Run returns, the destructor of pop_object sends UnManageObject and the
\* process ends.
Exit(o) ==
    /\ phase[o] = "draining"
    /\ conc[o] = 0
    /\ queued[o] = <<>>
    /\ ObjectEnds(o)
    /\ toMon' = toMon \cup {<<"unmanage", o>>}
    /\ UNCHANGED <<plan, calls, monitor, main>>

-----------------------------------------------------------------------------
(* The object monitor.  Its methods exclude each other (mutex blocks); the   *)
(* registrations are asynchronous calls on connections of their own, so they *)
(* may arrive in any order.                                                  *)

\* The list has an object once at most, so there is one place to erase.
Without(s, o) ==
    IF o \in Range(s) THEN RemoveAt(s, CHOOSE i \in 1..Len(s) : s[i] = o) ELSE s

Deliver(op, o) ==
    /\ <<op, o>> \in toMon
    /\ mon.pc = "idle"
    /\ main.pc # "done"
    /\ toMon' = toMon \ {<<op, o>>}
    /\ managed' = IF op = "unmanage" THEN Without(managed, o)
                  ELSE IF o \in Range(managed) THEN managed
                  ELSE Append(managed, o)
    /\ UNCHANGED <<plan, life, count, refs, inside, calls, isActive, mon, main,
                   marks>>

\* One round of the loop of Finalize after CheckObjects returned n.
FinalizeRound(n) ==
    main' = IF n = 0 THEN [main EXCEPT !.pc = "done"]
            ELSE [main EXCEPT !.pc = "finalize", !.oldcount = n,
                      !.loop = IF main.oldcount = n /\ main.loop < ResetAt
                               THEN main.loop + 1 ELSE 0]

\* Finalize stops the service and the main process returns.
MainProcess == IF main'.pc = "done" /\ main.pc # "done" THEN ProcessEnds(Main)
               ELSE UNCHANGED <<refs, closing, alloc>>

\* CheckObjects(false) only counts; CheckObjects(true) starts pinging.
CheckObjects ==
    /\ main.pc = "finalize"
    /\ mon.pc = "idle"
    /\ IF main.loop > PingAfter
       THEN /\ mon' = [mon EXCEPT !.pc = "bind", !.todo = managed, !.active = FALSE]
            /\ main' = [main EXCEPT !.pc = "wait"]
       ELSE /\ FinalizeRound(Len(managed))
            /\ UNCHANGED mon
    /\ MainProcess
    /\ UNCHANGED <<plan, phase, self, refcount, inside, calls, managed, isActive,
                   toMon, marks>>

\* An exception while an object is asked: it is erased from the list.
Erased(o) ==
    /\ managed' = Without(managed, o)
    /\ mon' = [mon EXCEPT !.pc = "bind", !.todo = Tail(@)]
    /\ UNCHANGED <<count, touched>>

\* The probe goes out of scope: its connection closes.
ProbeClosed(o, active) ==
    /\ mon' = [mon EXCEPT !.pc = "bind", !.todo = Tail(@), !.active = active]
    /\ closing' = [closing EXCEPT ![o] = @ + Closed(o)]
    /\ UNCHANGED managed

\* pop_interface test(t).  An object still in its constructor answers
\* BindStatus, uncounted, and the close of this probe will be counted.
PingBind(o) ==
    /\ mon.pc = "bind"
    /\ mon.todo # <<>> /\ o = Head(mon.todo)
    /\ IF ~Reachable(o) THEN Erased(o)
       ELSE /\ closing[o] <= MaxClosing
            /\ mon' = [mon EXCEPT !.pc = IF o \in plan.marked THEN "unref" ELSE "ask"]
            /\ refcount' = [refcount EXCEPT ![o] = @ + Opened(o)]
            /\ touched' = IF Exists(o) THEN touched ELSE touched \cup {o}
            /\ UNCHANGED <<closing, managed>>
    /\ UNCHANGED <<plan, life, refs, inside, calls, isActive, toMon, main, orphans>>

\* The constructor of test ends with DecRef when t reads as marked NoAddRef.
PingUnref(o) ==
    /\ mon.pc = "unref"
    /\ o = Head(mon.todo)
    /\ IF ~Reachable(o) THEN Erased(o)
       ELSE /\ Exists(o)
            /\ mon' = [mon EXCEPT !.pc = "ask"]
            /\ refcount' = [refcount EXCEPT ![o] = Less(o)]
            /\ touched' = touched \cup {o}
            /\ UNCHANGED <<closing, managed>>
    /\ UNCHANGED <<plan, life, refs, inside, calls, isActive, toMon, main, orphans>>

\* test.ObjectActive(), not called once an active object was found.  Without
\* an object the request waits in the fifo for the end of the constructor.
PingAsk(o) ==
    /\ mon.pc = "ask"
    /\ o = Head(mon.todo)
    /\ IF ~Reachable(o) THEN Erased(o)
       ELSE /\ mon.active \/ Exists(o)
            /\ IF ~mon.active /\ ~ObjectActive(o) /\ ~isActive
               THEN /\ mon' = [mon EXCEPT !.pc = "drop"]
                    /\ UNCHANGED <<closing, managed>>
               ELSE ProbeClosed(o, mon.active \/ ObjectActive(o))
            /\ UNCHANGED <<refcount, touched>>
    /\ UNCHANGED <<plan, life, refs, inside, calls, isActive, toMon, main, orphans>>

\* Mutant of PingDrop: inactive objects are only reported.
PingReport(o) ==
    /\ mon.pc = "drop"
    /\ o = Head(mon.todo)
    /\ IF ~Exists(o) THEN Erased(o)
       ELSE ProbeClosed(o, FALSE) /\ UNCHANGED <<refcount, touched>>
    /\ UNCHANGED <<plan, life, refs, inside, calls, isActive, toMon, main, orphans>>

\* test.DecRef() on an object found inactive by two checks in a row.
PingDrop(o) ==
    /\ mon.pc = "drop"
    /\ o = Head(mon.todo)
    /\ IF ~Exists(o) THEN Erased(o)
       ELSE /\ refcount' = [refcount EXCEPT ![o] = Less(o)]
            /\ touched' = touched \cup {o}
            /\ ProbeClosed(o, FALSE)
    /\ UNCHANGED <<plan, life, refs, inside, calls, isActive, toMon, main, orphans>>

\* Mutant of CheckReturns: what this check found is forgotten.
CheckForgets ==
    /\ mon.pc = "bind"
    /\ mon.todo = <<>>
    /\ isActive' = FALSE
    /\ mon' = [mon EXCEPT !.pc = "idle"]
    /\ IF main.pc = "wait" THEN FinalizeRound(Len(managed)) ELSE UNCHANGED main
    /\ MainProcess
    /\ UNCHANGED <<plan, phase, self, refcount, inside, calls, managed, toMon, marks>>

CheckReturns ==
    /\ mon.pc = "bind"
    /\ mon.todo = <<>>
    /\ isActive' = mon.active
    /\ mon' = [mon EXCEPT !.pc = "idle"]
    /\ IF main.pc = "wait" THEN FinalizeRound(Len(managed)) ELSE UNCHANGED main
    /\ MainProcess
    /\ UNCHANGED <<plan, phase, self, refcount, inside, calls, managed, toMon, marks>>

KillAll ==
    /\ mon.killall
    /\ mon.pc = "idle"
    /\ mon' = [mon EXCEPT !.pc = "kill", !.todo = managed, !.killall = FALSE]
    /\ UNCHANGED <<plan, life, count, refs, inside, calls, managed, isActive,
                   toMon, main, marks>>

\* tmp.Kill() and RecvAck: the object's process exits; an object in its
\* constructor ignores the call and never acknowledges it, unless the DecRef of
\* a marked access point waited for the end of the constructor first.
KillNext(o) ==
    /\ mon.pc \in {"kill", "ack"}
    /\ mon.todo # <<>> /\ o = Head(mon.todo)
    /\ \/ /\ ~Reachable(o)
          /\ mon' = [mon EXCEPT !.pc = "kill", !.todo = Tail(@)]
          /\ UNCHANGED <<life, count, refs, inside, marks>>
       \/ /\ Exists(o) /\ mon.pc = "kill"
          /\ mon' = [mon EXCEPT !.todo = Tail(@)]
          /\ ObjectEnds(o)
       \/ /\ phase[o] = "building" /\ mon.pc = "kill" /\ o \notin plan.marked
          /\ mon' = [mon EXCEPT !.pc = "ack"]
          /\ UNCHANGED <<life, count, refs, inside, marks>>
    /\ UNCHANGED <<plan, calls, managed, isActive, toMon, main>>

KillReturns ==
    /\ mon.pc = "kill"
    /\ mon.todo = <<>>
    /\ mon' = [mon EXCEPT !.pc = "idle"]
    /\ managed' = <<>>
    /\ UNCHANGED <<plan, life, count, refs, inside, calls, isActive, toMon,
                   main, marks>>

-----------------------------------------------------------------------------
(* The main program. *)

\* popmain returned 0: Finalize(true).
MainReturns ==
    /\ main.pc = "run"
    /\ alloc[Main] = None
    /\ main' = [main EXCEPT !.pc = "finalize"]
    /\ UNCHANGED <<plan, life, count, refs, inside, calls, monitor, toMon, marks>>

\* An exception, an error code or a signal: Finalize(false) asks for KillAll,
\* an asynchronous call, stops the service and the process ends.
MainFails ==
    /\ plan.abnormal
    /\ main.pc # "done"
    /\ main' = [main EXCEPT !.pc = "done", !.normal = FALSE]
    /\ mon' = [mon EXCEPT !.killall = TRUE]
    /\ ProcessEnds(Main)
    /\ UNCHANGED <<plan, phase, self, refcount, inside, calls, managed, isActive,
                   toMon, marks>>

-----------------------------------------------------------------------------
PingStarts == mon.pc = "idle" /\ mon'.pc = "bind"

\* The objects of the list that are active; history of the pings.
Lively == {o \in Range(managed) : Exists(o) /\ ObjectActive(o)}
Track ==
  IF ~plan.watch THEN UNCHANGED seen ELSE
    /\ seen1' = IF PingStarts THEN Lively' ELSE seen1 \cap Lively'
    /\ seen2' = IF PingStarts THEN seen1 \cap Lively' ELSE seen2 \cap Lively'

UserStep(p) ==
    \E o \in Obj : \/ Allocate(p, o)
                   \/ CopyReference(p, o)
                   \/ Release(p, o)
                   \/ \E x \in Obj \cup {None} : Call(p, o, x)

CreateStep(p) == \E o \in Obj : Construct(p, o) \/ AllocFails(p, o)

ObjectStep(o) ==
    \/ Start(o)
    \/ EndCall(o)
    \/ \E x \in Obj : Unpacked(o, x)
    \/ Leave(o)
    \/ Exit(o)

\* The process of o starts, ends its constructor or gives up waiting for one.
LifeStep(o) == ObjMain(o) \/ OpenThis(o) \/ Built(o) \/ (phase[o] = "ready" /\ Alarm(o))

DeliverStep(o) == \E op \in {"manage", "unmanage"} : Deliver(op, o)

MonitorStep ==
    \/ \E o \in Obj : \/ PingBind(o) \/ PingUnref(o) \/ PingAsk(o) \/ PingDrop(o)
                     \/ KillNext(o)
    \/ CheckReturns
    \/ KillAll
    \/ KillReturns

Step ==
    \/ \E p \in Proc : UserStep(p) \/ CreateStep(p)
    \/ \E o \in Obj : ObjMain(o) \/ OpenThis(o) \/ Built(o) \/ Alarm(o)
                      \/ OnCloseConnection(o) \/ ObjectStep(o) \/ DeliverStep(o)
    \/ MonitorStep
    \/ CheckObjects
    \/ MainReturns
    \/ MainFails

Next == Step /\ Track

Spec == Init /\ [][Next]_vars

\* The threads of an object run, processes start or fail, constructors end and
\* registrations arrive, and the monitor and Finalize go on.  Nobody has to create,
\* copy, release or call anything.
Fairness ==
    /\ \A o \in Obj : /\ WF_vars(OnCloseConnection(o) /\ Track)
                      /\ WF_vars(ObjectStep(o) /\ Track)
    /\ WF_vars(((\E o \in Obj : LifeStep(o) \/ DeliverStep(o))
                   \/ \E p \in Proc : CreateStep(p)) /\ Track)
    /\ WF_vars((MonitorStep \/ CheckObjects) /\ Track)

FairSpec == Spec /\ Fairness

-----------------------------------------------------------------------------
(* Properties. *)

\* The sum of the values of f, and how often x is in s.
SumOver(f) == Cardinality(UNION {{x} \X (1..f[x]) : x \in DOMAIN f})
Occurs(s, x) == Cardinality({i \in 1..Len(s) : s[i] = x})
Held(o) == SumOver([p \in Proc |-> refs[p][o]])
Travelling(o) ==
    SumOver([q \in Obj |-> pending[q][o] + Occurs(queued[q], o)])
Unreferenced(o) == /\ \A p \in Proc : refs[p][o] = 0
                   /\ \A q \in Obj : pending[q][o] = 0 /\ o \notin Carried(q)
Probing(o) == mon.pc \in {"unref", "ask", "drop"} /\ Head(mon.todo) = o

\* Every variable keeps its type.  Over sockets, refcount is the number of
\* connections the broker has not seen closed plus the references travelling in
\* calls, whatever the order in which closes, calls and binds reach the object.
\* The connection of the object to itself, opened before the broker had an
\* object, is never among them: it keeps no object alive, while a reference to
\* itself that a call brought back does.
\* GetRequest may let an object leave its serving loop (refcount <= 0) only
\* while no process holds a reference to it and none travels to one, unless the
\* monitor gave its counts away.
RefExact ==
    /\ TypeOK
    /\ plan.mode = "socket" =>
         \A o \in Obj : Exists(o) /\ o \notin touched \cup orphans =>
             refcount[o] = Held(o) + closing[o] + Travelling(o)
                           + (IF Probing(o) THEN 1 ELSE 0)
    /\ \A o \in Obj \ touched : phase[o] = "alive" /\ refcount[o] <= 0 =>
         plan.mode = "socket" /\ Unreferenced(o)

\* The monitor gives references away only when no object of the application
\* has been active, in the sense of ObjectActive, since before the previous
\* ping began; the DecRef of a marked access point (PingUnref) is not its doing.
DropsOnlyIdle == [][mon.pc = "drop" /\ touched' # touched => seen2 = {}]_vars

\* A call reached the object after it left its serving loop.
Stuck(o) == phase[o] = "draining" /\ queued[o] # <<>>

\* The loop of Finalize ends: the monitor gives away the references of idle
\* objects until they end, lost counts and cycles included.  The exception is
\* an object that got a call after it left its serving loop, see Broker's CleanExit.
FinalizeEnds ==
    main.pc \in {"finalize", "wait"} ~> (main.pc = "done" \/ \E o \in Obj : Stuck(o))

=============================================================================
