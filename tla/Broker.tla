------------------------------- MODULE Broker -------------------------------
(***************************************************************************)
(* The broker of one parallel object (lib/core/broker.cc,                  *)
(* lib/core/broker_serve.cc, lib/dynamic/broker_receive.cc).               *)
(*                                                                         *)
(* Three kinds of threads share the broker:                                *)
(*  - one receive thread per combox (pop_receivethread), which accepts     *)
(*    connections, answers the core calls (PopCall) and registers the      *)
(*    method calls (RegisterRequest);                                      *)
(*  - the serving thread (Run), which takes requests from request_fifo     *)
(*    (GetRequest) and serves them (ServeRequest);                         *)
(*  - one detached pop_invokethread per concurrent invocation.             *)
(*                                                                         *)
(* execCond and mutexCond are recursive mutexes with a condition.  Only    *)
(* the serving thread ever sleeps on execCond, and nobody on mutexCond.    *)
(* Who holds a mutex between two steps is a function of the control        *)
(* states: see ExecFree and MutexFree.                                     *)
(***************************************************************************)
EXTENDS Integers, Sequences, FiniteSets

CONSTANTS
    Rcv,           \* the receive threads, one per combox
    Conn,          \* the connections clients may open
    Via,           \* Via[c]: the receive thread whose combox accepts c
    Req,           \* the requests clients may send, each at most once
    Kind,          \* Kind[q]: "seq", "conc" or "mutex" (methodId[2])
    Call,          \* Call[q]: what methodId[1] designates
    From,          \* From[q]: the connection q is sent on
    Sync,          \* the requests with INVOKE_SYNC
    Throws,        \* the requests whose method may throw
    AppService,    \* TRUE iff pop_system::appservice is set
    CreateMayFail, \* TRUE iff pthread_create may fail until ServeRequest gives up
    QueueMax,      \* POP_QUEUE_MAX
    Batches,       \* bound: the sets of requests that one behaviour may mix
    None

Kinds == {"seq", "conc", "mutex"}
Calls == {"method", "constructor", "AddRef", "DecRef", "Kill"}

ASSUME BrokerAssumption ==
    /\ Via \in [Conn -> Rcv]
    /\ Kind \in [Req -> Kinds]
    /\ Call \in [Req -> Calls]
    /\ From \in [Req -> Conn]
    /\ Sync \subseteq Req
    /\ Throws \subseteq Req
    /\ AppService \in BOOLEAN
    /\ CreateMayFail \in BOOLEAN
    /\ QueueMax \in Nat
    /\ Batches \subseteq SUBSET Req
    /\ None \notin Req
    /\ IsFiniteSet(Req)
    \* classmember.cc:862: the compiler makes every constructor a
    \* synchronous mutex call; the core calls carry no semantics bit
    /\ \A q \in Req : Call[q] = "constructor" => q \in Sync /\ Kind[q] = "mutex"
    /\ \A q \in Req : Call[q] \notin {"method", "constructor"} => Kind[q] = "seq"

VARIABLES
    rpc,           \* control state of each receive thread
    rreq,          \* the request a receive thread is registering
    rcount,        \* its local variable count (RegisterRequest)
    rtmp,          \* concPendings as loaded by its concPendings++
    fifo,          \* request_fifo
    mutexCount,    \* mutex calls registered and not finished
    concPendings,
    instanceCount, \* live pop_invokethread objects
    spc,           \* control state of the serving thread
    sreq,          \* the request it has taken
    stmp,          \* concPendings as loaded by its concPendings--
    ipc,           \* ipc[q]: the pop_invokethread of q
    obj,           \* obj != nullptr
    refcount,      \* obj->refcount
    state,         \* POP_STATE_RUNNING, _EXIT, _ABORT
    conn,          \* state of each connection
    received,      \* requests that reached the broker
    finished,      \* requests whose pop_request has been deleted
    answer,        \* answer[q]: what was sent back for q
    alive,         \* the process has neither returned from Run nor been ended
    pushed         \* history: the order in which requests entered the fifo

rlocals  == <<rreq, rcount, rtmp>>
rvars    == <<rpc, rreq, rcount, rtmp>>
svars    == <<spc, sreq, stmp>>
queue    == <<fifo, pushed>>
counters == <<mutexCount, concPendings, instanceCount>>
object   == <<obj, refcount, state, alive>>
requests == <<conn, received, finished, answer>>
vars     == <<rvars, svars, queue, counters, ipc, object, requests>>

RPC == {"recv", "reg", "new", "create", "push", "load", "store", "throttle",
        "bcast", "exit"}
SPC == {"top", "get", "prewait", "getwait", "dec", "mutexget", "mutexwait",
        "serve", "create", "exec", "done", "drain", "draining", "drainwait",
        "gone"}
IPC == {"none", "new", "running", "ended", "deleted"}

\* Types of the state; the counters, signed integers that GetRequest tests for
\* zero, never go below it.
TypeOK ==
    /\ rpc \in [Rcv -> RPC]
    /\ rreq \in [Rcv -> Req \cup {None}]
    /\ rcount \in [Rcv -> Nat]
    /\ rtmp \in [Rcv -> Nat]
    /\ fifo \in Seq(Req)
    /\ mutexCount \in Nat
    /\ concPendings \in Nat
    /\ instanceCount \in Nat
    /\ spc \in SPC
    /\ sreq \in Req \cup {None}
    /\ stmp \in Int
    /\ ipc \in [Req -> IPC]
    /\ obj \in BOOLEAN
    /\ refcount \in Int
    /\ state \in {"running", "exit", "abort"}
    /\ conn \in [Conn -> {"new", "open", "closed"}]
    /\ received \subseteq Req
    /\ finished \subseteq Req
    /\ answer \in [Req -> {"none", "return", "exception"}]
    /\ alive \in BOOLEAN
    /\ pushed \in Seq(Req)

\* Run creates the receive threads before it serves.  The object exists
\* already when Initialize was given -constructor.
Init ==
    /\ rpc = [r \in Rcv |-> "recv"]
    /\ rreq = [r \in Rcv |-> None]
    /\ rcount = [r \in Rcv |-> 0]
    /\ rtmp = [r \in Rcv |-> 0]
    /\ fifo = <<>>
    /\ mutexCount = 0
    /\ concPendings = 0
    /\ instanceCount = 0
    /\ spc = "top"
    /\ sreq = None
    /\ stmp = 0
    /\ ipc = [q \in Req |-> "none"]
    /\ obj \in BOOLEAN
    /\ refcount = IF obj THEN 1 ELSE 0
    /\ state = "running"
    /\ conn = [c \in Conn |-> "new"]
    /\ received = {}
    /\ finished = {}
    /\ answer = [q \in Req |-> "none"]
    /\ alive = TRUE
    /\ pushed = <<>>

-----------------------------------------------------------------------------
(* Locks and the condition execCond. *)

\* execCond is held between two steps only by the serving thread: when it is
\* about to wait, and between the two halves of concPendings--.
ExecFree == spc \notin {"prewait", "dec"}

\* mutexCond is held between two steps only by a receive thread that
\* registers a concurrent call.
HoldsMutex(r) ==
    \/ rpc[r] \in {"new", "create", "load", "store"}
    \/ rpc[r] = "push" /\ Kind[rreq[r]] = "conc"
MutexFree == \A r \in Rcv : ~HoldsMutex(r)

\* Mutant of Woken: a mutex call that waits is not woken.
WokenExceptMutex == IF spc = "getwait" THEN "get"
                    ELSE IF spc = "drainwait" THEN "draining" ELSE spc

\* The control state of the serving thread after execCond.broadcast().
Woken == IF spc = "getwait" THEN "get"
         ELSE IF spc = "mutexwait" THEN "mutexget"
         ELSE IF spc = "drainwait" THEN "draining" ELSE spc

-----------------------------------------------------------------------------
(* Invocation: DoInvoke and UnhandledException. *)

\* What a method may do: return, or throw if it is one that throws.
Outcome(q) == IF q \in Throws THEN {"return", "exception"} ELSE {"return"}

\* The answer goes to the saved connection of a synchronous call; an
\* asynchronous call that throws aborts the object of an application.
UnhandledException == IF AppService THEN "abort" ELSE state

Conclude(q, out) ==
    /\ answer' = IF q \in Sync THEN [answer EXCEPT ![q] = out] ELSE answer
    /\ state' = IF q \notin Sync /\ out = "exception"
                THEN UnhandledException ELSE state

-----------------------------------------------------------------------------
(* The receive threads. *)

\* Accepting a connection runs OnNewConnection in the receive thread.
OnNewConnection(r, c) ==
    /\ rpc[r] = "recv"
    /\ Via[c] = r
    /\ conn[c] = "new"
    /\ conn' = [conn EXCEPT ![c] = "open"]
    /\ refcount' = IF obj THEN refcount + 1 ELSE refcount
    /\ UNCHANGED <<rvars, svars, queue, counters, ipc, obj, state, received,
                   finished, answer, alive>>

\* The client released its interface, or died: OnCloseConnection.  The
\* broadcast that follows DecRef is a step of its own: no lock covers both.
OnCloseConnection(r, c) ==
    /\ rpc[r] = "recv"
    /\ Via[c] = r
    /\ conn[c] = "open"
    /\ conn' = [conn EXCEPT ![c] = "closed"]
    /\ refcount' = IF obj THEN refcount - 1 ELSE refcount
    /\ rpc' = [rpc EXCEPT ![r] = IF obj /\ refcount <= 1 THEN "bcast" ELSE "recv"]
    /\ UNCHANGED <<rlocals, svars, queue, counters, ipc, obj, state, received,
                   finished, answer, alive>>

\* What a client may send: nothing while it waits for the answer to a
\* synchronous call; methods once the constructor has returned.
Sendable(q) ==
    /\ q \notin received
    /\ \E b \in Batches : received \cup {q} \subseteq b
    /\ conn[From[q]] = "open"
    /\ \A p \in received \cap Sync : From[p] = From[q] => answer[p] # "none"
    /\ Call[q] = "method" => obj
    /\ Call[q] = "constructor" => ~obj

\* ReceiveRequest returned q to receive thread r.
ReceiveRequest(r, q) ==
    /\ rpc[r] = "recv"
    /\ Via[From[q]] = r
    /\ Sendable(q)
    /\ received' = received \cup {q}

\* The loop test of ReceiveThread at the end of an iteration.
NextIteration(r) ==
    [rpc EXCEPT ![r] = IF state = "running" THEN "recv" ELSE "exit"]

\* PopCall serves the core calls at once: AddRef and DecRef ...
PopCallRef(r, q) ==
    /\ ReceiveRequest(r, q)
    /\ Call[q] \in {"AddRef", "DecRef"}
    /\ obj
    /\ refcount' = IF Call[q] = "AddRef" THEN refcount + 1 ELSE refcount - 1
    /\ answer' = IF q \in Sync THEN [answer EXCEPT ![q] = "return"] ELSE answer
    /\ finished' = finished \cup {q}
    /\ rpc' = [rpc EXCEPT ![r] = "bcast"]
    /\ UNCHANGED <<rlocals, svars, queue, counters, ipc, obj, state, conn,
                   alive>>

\* ... and Kill, which ends the process unless there is no object yet or the
\* class overrides CanKill.
PopCallKill(r, q) ==
    /\ ReceiveRequest(r, q)
    /\ Call[q] = "Kill"
    /\ finished' = finished \cup {q}
    /\ alive' \in {TRUE, ~obj}
    /\ UNCHANGED <<rvars, svars, queue, counters, ipc, obj, refcount, state,
                   conn, answer>>

\* execCond.broadcast() after a core call, without the lock.
Broadcast(r) ==
    /\ rpc[r] = "bcast"
    /\ spc' = Woken
    /\ rpc' = NextIteration(r)
    /\ UNCHANGED <<rlocals, queue, counters, object, requests, sreq, stmp,
                   ipc>>

\* PopCall returned false: the request is registered.  A reference call that
\* meets no object is registered too.
RegisterRequest(r, q) ==
    /\ ReceiveRequest(r, q)
    /\ \/ Call[q] \in {"method", "constructor"}
       \/ Call[q] \in {"AddRef", "DecRef"} /\ ~obj
    /\ rreq' = [rreq EXCEPT ![r] = q]
    /\ rpc' = [rpc EXCEPT ![r] = IF Kind[q] = "seq" THEN "push" ELSE "reg"]
    /\ UNCHANGED <<svars, queue, counters, object, rcount, rtmp, ipc, conn,
                   finished, answer>>

\* Mutant of RegisterConc: mutexCount is not looked at.
RegisterConcUnchecked(r) ==
    /\ rpc[r] = "reg"
    /\ Kind[rreq[r]] = "conc"
    /\ MutexFree
    /\ rpc' = [rpc EXCEPT ![r] = "new"]
    /\ UNCHANGED <<rlocals, svars, queue, counters, object, requests, ipc>>

\* A concurrent call takes mutexCond and keeps it; without a mutex call
\* pending it is served by the receive thread itself.
RegisterConc(r) ==
    /\ rpc[r] = "reg"
    /\ Kind[rreq[r]] = "conc"
    /\ MutexFree
    /\ rpc' = [rpc EXCEPT ![r] = IF mutexCount <= 0 THEN "new" ELSE "push"]
    /\ UNCHANGED <<rlocals, svars, queue, counters, object, requests, ipc>>

RegisterMutex(r) ==
    /\ rpc[r] = "reg"
    /\ Kind[rreq[r]] = "mutex"
    /\ MutexFree
    /\ mutexCount' = mutexCount + 1
    /\ rpc' = [rpc EXCEPT ![r] = "push"]
    /\ UNCHANGED <<rlocals, svars, queue, object, requests, concPendings,
                   instanceCount, ipc>>

\* ServeRequest in the receive thread: the constructor of pop_invokethread ...
ReceiveNewThread(r) ==
    /\ rpc[r] = "new"
    /\ ExecFree
    /\ instanceCount' = instanceCount + 1
    /\ ipc' = [ipc EXCEPT ![rreq[r]] = "new"]
    /\ rpc' = [rpc EXCEPT ![r] = "create"]
    /\ UNCHANGED <<rlocals, svars, queue, object, requests, mutexCount,
                   concPendings>>

\* ... then create(), after which RegisterRequest unlocks mutexCond and returns.
ReceiveCreate(r) ==
    /\ rpc[r] = "create"
    /\ ipc' = [ipc EXCEPT ![rreq[r]] = "running"]
    /\ rreq' = [rreq EXCEPT ![r] = None]
    /\ rpc' = NextIteration(r)
    /\ UNCHANGED <<svars, queue, counters, object, requests, rcount, rtmp>>

\* create() failed until the retries ran out: the caller gets an exception and
\* the thread object is deleted.
CreateFailed(q) ==
    /\ CreateMayFail
    /\ ExecFree
    /\ instanceCount' = instanceCount - 1
    /\ ipc' = [ipc EXCEPT ![q] = "deleted"]
    /\ answer' = IF q \in Sync THEN [answer EXCEPT ![q] = "exception"] ELSE answer
    /\ finished' = finished \cup {q}

ReceiveCreateFail(r) ==
    /\ rpc[r] = "create"
    /\ CreateFailed(rreq[r])
    /\ spc' = Woken
    /\ rreq' = [rreq EXCEPT ![r] = None]
    /\ rpc' = NextIteration(r)
    /\ UNCHANGED <<queue, object, rcount, rtmp, mutexCount, concPendings, sreq,
                   stmp, conn, received>>

\* The queue step of RegisterRequest, under execCond.
PushRequest(r) ==
    /\ rpc[r] = "push"
    /\ ExecFree
    /\ fifo' = Append(fifo, rreq[r])
    /\ pushed' = Append(pushed, rreq[r])
    /\ rcount' = [rcount EXCEPT ![r] = Len(fifo) + 1]
    /\ spc' = Woken
    /\ IF Kind[rreq[r]] = "conc"
       THEN rpc' = [rpc EXCEPT ![r] = "load"] /\ UNCHANGED rreq
       ELSE /\ rpc' = [rpc EXCEPT ![r] = "throttle"]
            /\ rreq' = [rreq EXCEPT ![r] = None]
    /\ UNCHANGED <<counters, object, requests, rtmp, sreq, stmp, ipc>>

\* concPendings++ after execCond is released: it races with the serving
\* thread's concPendings--, so it is a load and a store.
ConcLoad(r) ==
    /\ rpc[r] = "load"
    /\ rtmp' = [rtmp EXCEPT ![r] = concPendings]
    /\ rpc' = [rpc EXCEPT ![r] = "store"]
    /\ UNCHANGED <<svars, queue, counters, object, requests, rreq, rcount,
                   ipc>>

ConcStore(r) ==
    /\ rpc[r] = "store"
    /\ concPendings' = rtmp[r] + 1
    /\ rreq' = [rreq EXCEPT ![r] = None]
    /\ rpc' = [rpc EXCEPT ![r] = "throttle"]
    /\ UNCHANGED <<svars, queue, object, requests, rcount, rtmp, mutexCount,
                   instanceCount, ipc>>

\* The slowdown at the end of RegisterRequest: a thread that saw more than
\* POP_QUEUE_MAX requests polls until the queue is shorter.
Throttle(r) ==
    /\ rpc[r] = "throttle"
    /\ rcount[r] <= QueueMax \/ Len(fifo) <= QueueMax
    /\ rpc' = NextIteration(r)
    /\ UNCHANGED <<rlocals, svars, queue, counters, object, requests, ipc>>

\* The loop test seen late: state changed while r was about to wait.
StopReceiving(r) ==
    /\ rpc[r] = "recv"
    /\ state # "running"
    /\ rpc' = [rpc EXCEPT ![r] = "exit"]
    /\ UNCHANGED <<rlocals, svars, queue, counters, object, requests, ipc>>

-----------------------------------------------------------------------------
(* The serving thread: Run, GetRequest, ServeRequest. *)

\* The loop test of Run.
RunLoop ==
    /\ spc = "top"
    /\ spc' = IF state = "running" THEN "get" ELSE "drain"
    /\ UNCHANGED <<rvars, queue, counters, object, requests, sreq, stmp, ipc>>

\* GetRequest finds the queue empty: it gives up when the object is no longer
\* referenced or the broker has been stopped, and otherwise goes to wait.
GetRequestEmpty ==
    /\ spc = "get"
    /\ fifo = <<>>
    /\ spc' = IF (obj /\ refcount <= 0) \/ state # "running"
              THEN "drain" ELSE "prewait"
    /\ UNCHANGED <<rvars, queue, counters, object, requests, sreq, stmp, ipc>>

\* pthread_cond_wait releases execCond and sleeps, atomically.
WaitRequest ==
    /\ spc = "prewait"
    /\ spc' = "getwait"
    /\ UNCHANGED <<rvars, queue, counters, object, requests, sreq, stmp, ipc>>

\* Mutant of ConcAhead: a mutex request does not stop the scan.
ConcAnywhere == {i \in 1..Len(fifo) :
                   /\ Kind[fifo[i]] = "conc"
                   /\ \A j \in 1..(i-1) : Kind[fifo[j]] # "conc"}

\* The positions of concurrent requests with no mutex request before them.
ConcAhead == {i \in 1..Len(fifo) :
                /\ Kind[fifo[i]] = "conc"
                /\ \A j \in 1..(i-1) : Kind[fifo[j]] = "seq"}

\* Mutant of Erase: the request stays in the queue.
KeepAt(s, i) == s

\* request_fifo.erase.
Erase(s, i) == [k \in 1..(Len(s) - 1) |-> IF k < i THEN s[k] ELSE s[k + 1]]

\* GetRequest takes the first concurrent request that no mutex precedes.
GetRequestConc ==
    /\ spc = "get"
    /\ concPendings # 0
    /\ \E i \in ConcAhead :
         /\ sreq' = fifo[i]
         /\ fifo' = Erase(fifo, i)
    /\ stmp' = concPendings
    /\ spc' = "dec"
    /\ UNCHANGED <<rvars, counters, object, requests, ipc, pushed>>

ConcDecrement ==
    /\ spc = "dec"
    /\ concPendings' = stmp - 1
    /\ spc' = "serve"
    /\ UNCHANGED <<rvars, queue, object, requests, mutexCount, instanceCount,
                   sreq, stmp, ipc>>

\* GetRequest takes the request at the front.
GetRequestFront ==
    /\ spc = "get"
    /\ fifo # <<>>
    /\ concPendings = 0 \/ ConcAhead = {}
    /\ sreq' = Head(fifo)
    /\ fifo' = Tail(fifo)
    /\ spc' = IF Kind[Head(fifo)] = "mutex" THEN "mutexget" ELSE "serve"
    /\ UNCHANGED <<rvars, counters, object, requests, stmp, ipc, pushed>>

\* Mutant of GetRequestMutex: the mutex request does not wait.
GetRequestMutexNoWait ==
    /\ spc = "mutexget"
    /\ spc' = "serve"
    /\ UNCHANGED <<rvars, queue, counters, object, requests, sreq, stmp, ipc>>

\* A mutex request waits until the concurrent invocations have ended.
GetRequestMutex ==
    /\ spc = "mutexget"
    /\ spc' = IF instanceCount > 0 THEN "mutexwait" ELSE "serve"
    /\ UNCHANGED <<rvars, queue, counters, object, requests, sreq, stmp, ipc>>

\* ServeRequest in the serving thread: a concurrent request gets a thread ...
ServeConc ==
    /\ spc = "serve"
    /\ Kind[sreq] = "conc"
    /\ instanceCount' = instanceCount + 1
    /\ ipc' = [ipc EXCEPT ![sreq] = "new"]
    /\ spc' = "create"
    /\ UNCHANGED <<rvars, queue, object, requests, mutexCount, concPendings,
                   sreq, stmp>>

ServeCreate ==
    /\ spc = "create"
    /\ ipc' = [ipc EXCEPT ![sreq] = "running"]
    /\ sreq' = None
    /\ spc' = "top"
    /\ UNCHANGED <<rvars, queue, counters, object, requests, stmp>>

ServeCreateFail ==
    /\ spc = "create"
    /\ CreateFailed(sreq)
    /\ sreq' = None
    /\ spc' = "top"
    /\ UNCHANGED <<rvars, queue, object, mutexCount, concPendings, stmp, conn,
                   received>>

\* ... and any other request is invoked by the serving thread.
ServeInvoke ==
    /\ spc = "serve"
    /\ Kind[sreq] # "conc"
    /\ spc' = "exec"
    /\ UNCHANGED <<rvars, queue, counters, object, requests, sreq, stmp, ipc>>

\* DoInvoke on a method or constructor.  A constructor that returns has made
\* the object, with one reference.
InvokeMethod ==
    /\ spc = "exec"
    /\ Call[sreq] \in {"method", "constructor"}
    /\ \E out \in Outcome(sreq) :
         /\ Conclude(sreq, out)
         /\ IF Call[sreq] = "constructor" /\ out = "return"
            THEN obj' = TRUE /\ refcount' = 1
            ELSE UNCHANGED <<obj, refcount>>
    /\ spc' = "done"
    /\ UNCHANGED <<rvars, queue, counters, sreq, stmp, ipc, conn, received,
                   finished, alive>>

\* DoInvoke on a reference call that was registered before the object
\* existed: Invoke falls back to PopCall, and a call that still meets no
\* object is a mismatched method.
InvokePopCall ==
    /\ spc = "exec"
    /\ Call[sreq] \in {"AddRef", "DecRef"}
    /\ refcount' = IF ~obj THEN refcount
                   ELSE IF Call[sreq] = "AddRef" THEN refcount + 1 ELSE refcount - 1
    /\ Conclude(sreq, IF obj THEN "return" ELSE "exception")
    /\ spc' = "done"
    /\ UNCHANGED <<rvars, queue, counters, sreq, stmp, ipc, obj, conn,
                   received, finished, alive>>

\* The end of ServeRequest: a mutex call is no longer pending, the request is
\* deleted; Run leaves its loop after a constructor that made no object.
ServeDone ==
    /\ spc = "done"
    /\ Kind[sreq] = "mutex" => MutexFree
    /\ mutexCount' = IF Kind[sreq] = "mutex" THEN mutexCount - 1 ELSE mutexCount
    /\ finished' = finished \cup {sreq}
    /\ sreq' = None
    /\ spc' = IF Call[sreq] = "constructor" /\ ~obj THEN "drain" ELSE "top"
    /\ UNCHANGED <<rvars, queue, object, concPendings, instanceCount, stmp,
                   ipc, conn, received, answer>>

\* After the loop, a broker that is still running waits for the invocations.
DrainStart ==
    /\ spc = "drain"
    /\ obj
    /\ state = "running"
    /\ spc' = "draining"
    /\ UNCHANGED <<rvars, queue, counters, object, requests, sreq, stmp, ipc>>

Drain ==
    /\ spc = "draining"
    /\ instanceCount > 0 \/ fifo # <<>>
    /\ spc' = "drainwait"
    /\ UNCHANGED <<rvars, queue, counters, object, requests, sreq, stmp, ipc>>

\* Mutant of Exit: running invocations are not waited for.
ExitEarly ==
    /\ \/ spc = "drain" /\ (~obj \/ state # "running")
       \/ spc = "draining" /\ fifo = <<>>
    /\ state' = "exit"
    /\ spc' = "gone"
    /\ alive' = FALSE
    /\ UNCHANGED <<rvars, queue, counters, requests, sreq, stmp, ipc, obj,
                   refcount>>

\* Run cancels the receive threads (WakeupReceiveThread never succeeds) and
\* returns; main deletes the broker and the process ends.
Exit ==
    /\ \/ spc = "drain" /\ (~obj \/ state # "running")
       \/ spc = "draining" /\ instanceCount <= 0 /\ fifo = <<>>
    /\ state' = "exit"
    /\ spc' = "gone"
    /\ alive' = FALSE
    /\ UNCHANGED <<rvars, queue, counters, requests, sreq, stmp, ipc, obj,
                   refcount>>

-----------------------------------------------------------------------------
(* The invocation threads. *)

\* pop_invokethread::start: DoInvoke on a concurrent method.
InvokeConc(q) ==
    /\ ipc[q] = "running"
    /\ \E out \in Outcome(q) : Conclude(q, out)
    /\ ipc' = [ipc EXCEPT ![q] = "ended"]
    /\ UNCHANGED <<rvars, svars, queue, counters, obj, refcount, conn,
                   received, finished, alive>>

\* pop_invokethread::~pop_invokethread, run by the thread's cleanup handler.
InvokeThreadEnd(q) ==
    /\ ipc[q] = "ended"
    /\ ExecFree
    /\ instanceCount' = instanceCount - 1
    /\ ipc' = [ipc EXCEPT ![q] = "deleted"]
    /\ finished' = finished \cup {q}
    /\ spc' = Woken
    /\ UNCHANGED <<rvars, queue, object, mutexCount, concPendings, sreq, stmp,
                   conn, received, answer>>

-----------------------------------------------------------------------------
\* Run arms an alarm when there is no object yet and disarms it after the
\* constructor call; SIGALRM ends the process.
Alarm ==
    /\ ~obj \/ \E q \in received : Call[q] = "constructor"
    /\ \A q \in finished : Call[q] # "constructor"
    /\ alive' = FALSE
    /\ UNCHANGED <<rvars, svars, queue, counters, requests, ipc, obj, refcount,
                   state>>

-----------------------------------------------------------------------------
\* What a receive thread does with the request it has.
ReceiveStep(r) ==
    \/ Broadcast(r) \/ RegisterConc(r) \/ RegisterMutex(r)
    \/ ReceiveNewThread(r) \/ ReceiveCreate(r) \/ ReceiveCreateFail(r)
    \/ PushRequest(r) \/ ConcLoad(r) \/ ConcStore(r)
    \/ Throttle(r) \/ StopReceiving(r)

\* What clients make a receive thread do.
ClientStep(r) ==
    \/ \E c \in Conn : OnNewConnection(r, c) \/ OnCloseConnection(r, c)
    \/ \E q \in Req :
         PopCallRef(r, q) \/ PopCallKill(r, q) \/ RegisterRequest(r, q)

ServeStep ==
    \/ RunLoop \/ GetRequestEmpty \/ WaitRequest \/ GetRequestConc
    \/ ConcDecrement \/ GetRequestFront \/ GetRequestMutex \/ ServeConc
    \/ ServeCreate \/ ServeCreateFail \/ ServeInvoke \/ InvokeMethod
    \/ InvokePopCall \/ ServeDone \/ DrainStart \/ Drain \/ Exit

InvokeStep(q) == InvokeConc(q) \/ InvokeThreadEnd(q)

Next ==
    /\ alive
    /\ \/ \E r \in Rcv : ReceiveStep(r) \/ ClientStep(r)
       \/ ServeStep
       \/ \E q \in Req : InvokeStep(q)
       \/ Alarm

Spec == Init /\ [][Next]_vars

\* Threads are scheduled and methods return; clients need not do anything.
Fairness ==
    /\ \A r \in Rcv : WF_vars(alive /\ ReceiveStep(r))
    /\ WF_vars(alive /\ ServeStep)
    /\ \A q \in Req : WF_vars(alive /\ InvokeStep(q))

FairSpec == Spec /\ Fairness

-----------------------------------------------------------------------------
(* Properties. *)

Executing(q) == ipc[q] = "running" \/ (spc = "exec" /\ sreq = q)

\* No other method of the object executes while a mutex method does, whichever
\* threads registered and started them (RegisterRequest, GetRequest).
MutexExclusion ==
    \A p, q \in Req : Executing(p) /\ Executing(q) /\ p # q => Kind[p] # "mutex"

\* The broker implements the invocation semantics of a parallel object: each
\* step starts, ends or refuses one invocation the way Invocation allows, or
\* does none of these.
Active == {q \in Req : Executing(q)}
HasEnded(q) == \/ q \in finished
               \/ ipc[q] \in {"ended", "deleted"}
               \/ spc = "done" /\ sreq = q
Ended == {q \in Req : HasEnded(q)}
Abstract == INSTANCE Invocation WITH active <- Active, ended <- Ended
ImplementsInvocation == Abstract!Spec

\* The threads whose pop_invokethread object exists, and the mutex calls
\* counted by RegisterRequest and not yet by ServeRequest.
Instances == {q \in Req : ipc[q] \in {"new", "running", "ended"}}
Pushing == {q \in Req : \E r \in Rcv : rpc[r] = "push" /\ rreq[r] = q}
Queued == {q \in Req : \E i \in 1..Len(fifo) : fifo[i] = q}
PendingMutex == {q \in Pushing \cup Queued \cup {sreq} : q \in Req /\ Kind[q] = "mutex"}

\* The two counters that decide who may run count what their comments say,
\* across the threads that increment and decrement them.
InstanceExact == instanceCount = Cardinality(Instances)
MutexExact == mutexCount = Cardinality(PendingMutex)
CountersExact == InstanceExact /\ MutexExact

\* A received request is in exactly one place: with its receive thread, in
\* the queue, with the serving thread, with a thread of its own, or finished.
Places(q) ==
    {<<"receive", r>> : r \in {r \in Rcv : rreq[r] = q /\ rpc[r] \in {"reg", "new", "push"}}}
    \cup {<<"fifo", i>> : i \in {i \in 1..Len(fifo) : fifo[i] = q}}
    \cup {<<"serve", p>> : p \in {p \in {q} : sreq = p /\ spc # "create"}}
    \cup {<<"thread", p>> : p \in {q} \cap Instances}
    \cup {<<"finished", p>> : p \in {q} \cap finished}
Conservation ==
    \A q \in Req : Cardinality(Places(q)) = IF q \in received THEN 1 ELSE 0

\* Every variable keeps its type, no request is lost or handled twice, and the
\* counters that order the handling stay exact, however the receiving, serving
\* and invocation threads interleave and whichever thread creations fail.
Accounted == TypeOK /\ Conservation /\ CountersExact

\* A queued request does not overtake a mutex request queued before it, a
\* mutex request overtakes nothing, and the requests that are not concurrent
\* execute in queue order (the scan of GetRequest and its mutex wait).
Barrier(p, q) == "mutex" \in {Kind[p], Kind[q]} \/ "conc" \notin {Kind[p], Kind[q]}
FifoBarrier ==
    \A i, j \in 1..Len(pushed) :
        /\ i < j
        /\ Barrier(pushed[i], pushed[j])
        /\ Executing(pushed[j])
        => pushed[i] \in finished

\* A broker that ends without abort or kill leaves no invocation running and
\* no request in the queue behind (the final wait of Run).
CleanExit ==
    [][(spc' = "gone" /\ spc # "gone" /\ obj /\ state = "running")
       => Instances = {} /\ fifo = <<>>]_vars

Draining == spc \in {"draining", "drainwait"}

\* The received requests are eventually all finished, unless the broker leaves
\* its loop because nobody references the object any more.
RequestServed ==
    (received # finished) ~> (received = finished \/ ~alive \/ Draining)

-----------------------------------------------------------------------------
(* The inductive invariant behind MutexExclusion, CountersExact and the      *)
(* refinement.  BrokerProofs proves that every step preserves it.               *)

\* Which request each thread has, and of which kind it is.
Registering(r) == rpc[r] \in {"reg", "new", "push"}
Serving == spc \in {"dec", "mutexget", "mutexwait", "serve", "create", "exec", "done"}

ReceiveInv ==
    \A r \in Rcv :
        /\ rpc[r] \in {"reg", "new", "create", "push", "load", "store"} <=> rreq[r] # None
        /\ rpc[r] = "reg" => Kind[rreq[r]] # "seq"
        /\ rpc[r] \in {"new", "create", "load", "store"} => Kind[rreq[r]] = "conc"
        /\ rpc[r] \in {"new", "create"} => mutexCount = 0

ServeInv ==
    /\ Serving <=> sreq # None
    /\ spc = "dec" => Kind[sreq] = "conc" /\ stmp > 0
    /\ spc \in {"mutexget", "mutexwait"} => Kind[sreq] = "mutex"
    /\ spc = "create" => Kind[sreq] = "conc"
    /\ spc \in {"exec", "done"} => Kind[sreq] # "conc"
    /\ spc \in {"serve", "exec", "done"} /\ Kind[sreq] = "mutex" => instanceCount = 0

\* mutexCond is a mutex.
LockInv == \A r1, r2 \in Rcv : HoldsMutex(r1) /\ HoldsMutex(r2) => r1 = r2

\* No request is in two places: with a receive thread, in the queue, with the
\* serving thread, with a thread of its own, or finished.
RegisteringInv ==
    \A r \in Rcv : Registering(r) =>
        /\ \A r2 \in Rcv : Registering(r2) /\ rreq[r2] = rreq[r] => r2 = r
        /\ rreq[r] \in received
        /\ rreq[r] \notin finished
        /\ rreq[r] \notin Queued
        /\ sreq # rreq[r]
        /\ ipc[rreq[r]] = "none"
CreatingInv ==
    \A r \in Rcv : rpc[r] = "create" => ipc[rreq[r]] = "new" /\ sreq # rreq[r]
FifoInv ==
    /\ \A i, j \in 1..Len(fifo) : fifo[i] = fifo[j] => i = j
    /\ \A q \in Queued :
          q \in received /\ q \notin finished /\ q # sreq /\ ipc[q] = "none"
ServingInv ==
    sreq # None =>
        /\ sreq \in received
        /\ sreq \notin finished
        /\ ipc[sreq] = IF spc = "create" THEN "new" ELSE "none"
ThreadInv ==
    /\ \A q \in Req : ipc[q] # "none" => q \in received /\ Kind[q] = "conc"
    /\ \A q \in Req : ipc[q] \in {"new", "running", "ended"} => q \notin finished
    /\ finished \subseteq received
UniqueInv == RegisteringInv /\ CreatingInv /\ FifoInv /\ ServingInv /\ ThreadInv

IInv == TypeOK /\ ReceiveInv /\ ServeInv /\ LockInv /\ UniqueInv /\ CountersExact

=============================================================================
