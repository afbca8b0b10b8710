---------------------------- MODULE BrokerProofs ----------------------------
(***************************************************************************)
(* Proofs about Broker, for every set of receive threads, connections and  *)
(* requests.  IInv is inductive; mutual exclusion, the exactness of the    *)
(* two counters and the refinement of Invocation follow from it.  With the *)
(* order of the queue, OrderInv, it shows that no request overtakes a      *)
(* barrier, that every request is accounted for, and that a normal end     *)
(* leaves nothing behind.                                                  *)
(***************************************************************************)
EXTENDS Broker, FiniteSetTheorems, TLAPS

(* The conjuncts of IInv, one by one. *)
Parts == /\ TypeOK /\ ReceiveInv /\ ServeInv /\ LockInv
         /\ RegisteringInv /\ CreatingInv /\ FifoInv /\ ServingInv /\ ThreadInv
         /\ InstanceExact /\ MutexExact

\* IInv is the conjunction of its parts.
LEMMA IInvParts == IInv <=> Parts
  BY DEF IInv, UniqueInv, CountersExact, Parts

-----------------------------------------------------------------------------
(* Cardinalities. *)

\* A set of requests with one request more, or one less.
LEMMA CountRequests ==
    ASSUME NEW S \in SUBSET Req, NEW q \in Req
    PROVE  /\ Cardinality(S) \in Nat
           /\ q \notin S => Cardinality(S \cup {q}) = Cardinality(S) + 1
           /\ q \in S => Cardinality(S \ {q}) = Cardinality(S) - 1
           /\ q \in S => Cardinality(S) > 0
<1>1. IsFiniteSet(S)
  BY BrokerAssumption, FS_Subset
<1>2. Cardinality(S) \in Nat
  BY <1>1, FS_CardinalityType
<1>3. q \notin S => Cardinality(S \cup {q}) = Cardinality(S) + 1
  BY <1>1, FS_AddElement
<1>4. q \in S => Cardinality(S \ {q}) = Cardinality(S) - 1
  BY <1>1, FS_RemoveElement
<1>5. q \in S => Cardinality(S) > 0
  BY <1>1, <1>2, FS_EmptySet
<1> QED BY <1>2, <1>3, <1>4, <1>5

\* Without instances there is no thread.
LEMMA NoInstance == InstanceExact /\ instanceCount = 0 => Instances = {}
<1>1. IsFiniteSet(Instances)
  BY BrokerAssumption, FS_Subset DEF Instances
<1> QED BY <1>1, FS_EmptySet DEF InstanceExact

\* While the serving thread has a mutex request, mutexCount is not zero.
LEMMA ServedMutexCounted ==
    ASSUME Parts, sreq # None, Kind[sreq] = "mutex"
    PROVE  mutexCount > 0
<1>1. sreq \in Req
  BY DEF Parts, TypeOK
<1>2. PendingMutex \in SUBSET Req /\ sreq \in PendingMutex
  BY <1>1 DEF PendingMutex
<1> QED BY <1>1, <1>2, CountRequests DEF Parts, MutexExact

\* The mutex requests do not change when neither the pushing receive threads
\* nor the queue nor the serving thread do.
LEMMA MutexSame ==
    MutexExact /\ Pushing' = Pushing /\ Queued' = Queued /\ UNCHANGED <<sreq, mutexCount>>
    => MutexExact'
  BY DEF MutexExact, PendingMutex

-----------------------------------------------------------------------------
(* Each part is preserved when the variables it speaks of do not change. *)

\* What the receive threads hold.
LEMMA ReceiveInvFrame ==
    ReceiveInv /\ UNCHANGED <<rpc, rreq, mutexCount>> => ReceiveInv'
  BY DEF ReceiveInv

\* What the serving thread holds.
LEMMA ServeInvFrame ==
    ServeInv /\ UNCHANGED <<spc, sreq, stmp, instanceCount>> => ServeInv'
  BY DEF ServeInv, Serving

\* Who holds mutexCond.
LEMMA LockInvFrame ==
    LockInv /\ UNCHANGED <<rpc, rreq>> => LockInv'
  BY DEF LockInv, HoldsMutex

\* The requests being registered.
LEMMA RegisteringInvFrame ==
    RegisteringInv /\ UNCHANGED <<rpc, rreq, received, finished, fifo, sreq, ipc>> => RegisteringInv'
  BY DEF RegisteringInv, Registering, Queued

\* The threads being created by receive threads.
LEMMA CreatingInvFrame ==
    CreatingInv /\ UNCHANGED <<rpc, rreq, ipc, sreq>> => CreatingInv'
  BY DEF CreatingInv

\* The queued requests.
LEMMA FifoInvFrame ==
    FifoInv /\ UNCHANGED <<fifo, received, finished, sreq, ipc>> => FifoInv'
  BY DEF FifoInv, Queued

\* The request being served.
LEMMA ServingInvFrame ==
    ServingInv /\ UNCHANGED <<sreq, spc, received, finished, ipc>> => ServingInv'
  BY DEF ServingInv

\* The invocation threads.
LEMMA ThreadInvFrame ==
    ThreadInv /\ UNCHANGED <<ipc, received, finished>> => ThreadInv'
  BY DEF ThreadInv

\* The count of threads.
LEMMA InstanceExactFrame ==
    InstanceExact /\ UNCHANGED <<instanceCount, ipc>> => InstanceExact'
  BY DEF InstanceExact, Instances

\* The count of mutex requests.
LEMMA MutexExactFrame ==
    MutexExact /\ UNCHANGED <<mutexCount, rpc, rreq, fifo, sreq>> => MutexExact'
  BY DEF MutexExact, PendingMutex, Pushing, Queued

-----------------------------------------------------------------------------
(* The receive threads. *)

\* OnNewConnection preserves the invariant.
LEMMA OnNewConnectionInv ==
    ASSUME NEW r \in Rcv, NEW c \in Conn, Parts, OnNewConnection(r, c)
    PROVE  Parts'
<1>1. UNCHANGED <<rpc, rreq, fifo, mutexCount, instanceCount, spc, sreq, stmp, ipc, received, finished>>
  BY DEF OnNewConnection, rvars, svars, queue, counters
<1>2. ReceiveInv' /\ ServeInv' /\ LockInv' /\ RegisteringInv' /\ CreatingInv' /\ FifoInv' /\ ServingInv' /\ ThreadInv' /\ InstanceExact' /\ MutexExact'
  BY <1>1, ReceiveInvFrame, ServeInvFrame, LockInvFrame, RegisteringInvFrame, CreatingInvFrame, FifoInvFrame, ServingInvFrame, ThreadInvFrame, InstanceExactFrame, MutexExactFrame DEF Parts
<1>20. TypeOK'
  BY BrokerAssumption DEF Parts, OnNewConnection, TypeOK, RPC, SPC, IPC, rvars, svars, queue, counters
<1> QED BY <1>1, <1>2, <1>20 DEF Parts

\* OnCloseConnection preserves the invariant.
LEMMA OnCloseConnectionInv ==
    ASSUME NEW r \in Rcv, NEW c \in Conn, Parts, OnCloseConnection(r, c)
    PROVE  Parts'
<1>1. UNCHANGED <<rreq, fifo, mutexCount, instanceCount, spc, sreq, stmp, ipc, received, finished>>
  BY DEF OnCloseConnection, rlocals, svars, queue, counters
<1>0. Queued' = Queued
  BY <1>1 DEF Queued
<1>2. ServeInv' /\ FifoInv' /\ ServingInv' /\ ThreadInv' /\ InstanceExact'
  BY <1>1, ServeInvFrame, FifoInvFrame, ServingInvFrame, ThreadInvFrame, InstanceExactFrame DEF Parts
<1>3. rpc[r] = "recv"
  BY DEF OnCloseConnection
<1>4. /\ rpc'[r] \in {"recv", "bcast"}
      /\ \A x \in Rcv : x # r => rpc'[x] = rpc[x]
  BY DEF Parts, TypeOK, OnCloseConnection
<1>20. ReceiveInv'
  BY <1>1, <1>3, <1>4 DEF Parts, ReceiveInv
<1>21. LockInv'
  BY <1>1, <1>3, <1>4 DEF Parts, LockInv, HoldsMutex
<1>22. RegisteringInv'
  BY <1>1, <1>3, <1>4, <1>0 DEF Parts, RegisteringInv, Registering
<1>23. CreatingInv'
  BY <1>1, <1>3, <1>4 DEF Parts, CreatingInv
<1>24. MutexExact'
  <2>1. Pushing' = Pushing
    BY <1>1, <1>3, <1>4 DEF Pushing
  <2> QED BY <1>1, <2>1, MutexSame DEF Parts, Queued
<1>25. TypeOK'
  BY BrokerAssumption DEF Parts, OnCloseConnection, TypeOK, RPC, SPC, IPC, rlocals, svars, queue, counters
<1> QED BY <1>1, <1>2, <1>20, <1>21, <1>22, <1>23, <1>24, <1>25 DEF Parts

\* PopCallRef preserves the invariant.
LEMMA PopCallRefInv ==
    ASSUME NEW r \in Rcv, NEW q \in Req, Parts, PopCallRef(r, q)
    PROVE  Parts'
<1>1. UNCHANGED <<rreq, fifo, mutexCount, instanceCount, spc, sreq, stmp, ipc>>
  BY DEF PopCallRef, rlocals, svars, queue, counters
<1>0. Queued' = Queued
  BY <1>1 DEF Queued
<1>2. ServeInv' /\ InstanceExact'
  BY <1>1, ServeInvFrame, InstanceExactFrame DEF Parts
<1>3. rpc[r] = "recv"
  BY DEF PopCallRef, ReceiveRequest
<1>4. /\ rpc'[r] \in {"bcast"}
      /\ \A x \in Rcv : x # r => rpc'[x] = rpc[x]
  BY DEF Parts, TypeOK, PopCallRef
<1>6. q \notin received /\ received' = received \cup {q}
  BY DEF PopCallRef, ReceiveRequest, Sendable
<1>13. /\ q \notin finished /\ q \notin Queued /\ sreq # q /\ ipc[q] = "none"
      /\ \A x \in Rcv : Registering(x) => rreq[x] # q
  BY <1>6, BrokerAssumption DEF Parts, TypeOK, ThreadInv, FifoInv, ServingInv, RegisteringInv
<1>7. finished' = finished \cup {q}
  BY DEF PopCallRef
<1>20. ReceiveInv'
  BY <1>1, <1>3, <1>4 DEF Parts, ReceiveInv
<1>21. LockInv'
  BY <1>1, <1>3, <1>4 DEF Parts, LockInv, HoldsMutex
<1>22. RegisteringInv'
  BY <1>1, <1>3, <1>4, <1>6, <1>13, <1>7, <1>0 DEF Parts, RegisteringInv, Registering
<1>23. CreatingInv'
  BY <1>1, <1>3, <1>4 DEF Parts, CreatingInv
<1>24. FifoInv'
  BY <1>1, <1>3, <1>4, <1>6, <1>13, <1>7, <1>0 DEF Parts, FifoInv, TypeOK, RegisteringInv, Registering, ThreadInv, ServingInv
<1>25. ServingInv'
  BY <1>1, <1>3, <1>4, <1>6, <1>13, <1>7, BrokerAssumption DEF Parts, ServingInv, RegisteringInv, Registering, CreatingInv, TypeOK, ReceiveInv, ServeInv, Serving, ThreadInv
<1>26. ThreadInv'
  BY <1>1, <1>3, <1>4, <1>6, <1>13, <1>7, BrokerAssumption DEF Parts, ThreadInv, RegisteringInv, Registering, CreatingInv, TypeOK, ReceiveInv
<1>27. MutexExact'
  <2>1. Pushing' = Pushing
    BY <1>1, <1>3, <1>4 DEF Pushing
  <2> QED BY <1>1, <2>1, MutexSame DEF Parts, Queued
<1>28. TypeOK'
  BY BrokerAssumption DEF Parts, PopCallRef, TypeOK, RPC, SPC, IPC, rlocals, svars, queue, counters, ReceiveRequest, Sendable
<1> QED BY <1>1, <1>2, <1>20, <1>21, <1>22, <1>23, <1>24, <1>25, <1>26, <1>27, <1>28 DEF Parts

\* PopCallKill preserves the invariant.
LEMMA PopCallKillInv ==
    ASSUME NEW r \in Rcv, NEW q \in Req, Parts, PopCallKill(r, q)
    PROVE  Parts'
<1>1. UNCHANGED <<rpc, rreq, fifo, mutexCount, instanceCount, spc, sreq, stmp, ipc>>
  BY DEF PopCallKill, rvars, svars, queue, counters
<1>0. Queued' = Queued
  BY <1>1 DEF Queued
<1>2. ReceiveInv' /\ ServeInv' /\ LockInv' /\ CreatingInv' /\ InstanceExact' /\ MutexExact'
  BY <1>1, ReceiveInvFrame, ServeInvFrame, LockInvFrame, CreatingInvFrame, InstanceExactFrame, MutexExactFrame DEF Parts
<1>6. q \notin received /\ received' = received \cup {q}
  BY DEF PopCallKill, ReceiveRequest, Sendable
<1>13. /\ q \notin finished /\ q \notin Queued /\ sreq # q /\ ipc[q] = "none"
      /\ \A x \in Rcv : Registering(x) => rreq[x] # q
  BY <1>6, BrokerAssumption DEF Parts, TypeOK, ThreadInv, FifoInv, ServingInv, RegisteringInv
<1>7. finished' = finished \cup {q}
  BY DEF PopCallKill
<1>20. RegisteringInv'
  BY <1>1, <1>6, <1>13, <1>7, <1>0 DEF Parts, RegisteringInv, Registering
<1>21. FifoInv'
  BY <1>1, <1>6, <1>13, <1>7, <1>0 DEF Parts, FifoInv, TypeOK, RegisteringInv, Registering, ThreadInv, ServingInv
<1>22. ServingInv'
  BY <1>1, <1>6, <1>13, <1>7, BrokerAssumption DEF Parts, ServingInv, RegisteringInv, Registering, CreatingInv, TypeOK, ReceiveInv, ServeInv, Serving, ThreadInv
<1>23. ThreadInv'
  BY <1>1, <1>6, <1>13, <1>7, BrokerAssumption DEF Parts, ThreadInv, RegisteringInv, Registering, CreatingInv, TypeOK, ReceiveInv
<1>24. TypeOK'
  BY BrokerAssumption DEF Parts, PopCallKill, TypeOK, RPC, SPC, IPC, rvars, svars, queue, counters, ReceiveRequest, Sendable
<1> QED BY <1>1, <1>2, <1>20, <1>21, <1>22, <1>23, <1>24 DEF Parts

\* Broadcast preserves the invariant.
LEMMA BroadcastInv ==
    ASSUME NEW r \in Rcv, Parts, Broadcast(r)
    PROVE  Parts'
<1>1. UNCHANGED <<rreq, fifo, mutexCount, instanceCount, sreq, stmp, ipc, received, finished>>
  BY DEF Broadcast, rlocals, queue, counters, object, requests
<1>0. Queued' = Queued
  BY <1>1 DEF Queued
<1>2. FifoInv' /\ ThreadInv' /\ InstanceExact'
  BY <1>1, FifoInvFrame, ThreadInvFrame, InstanceExactFrame DEF Parts
<1>3. rpc[r] = "bcast"
  BY DEF Broadcast
<1>4. /\ rpc'[r] \in {"recv", "exit"}
      /\ \A x \in Rcv : x # r => rpc'[x] = rpc[x]
  BY DEF Parts, TypeOK, Broadcast, NextIteration
<1>8. spc' = Woken
  BY DEF Broadcast
<1>20. ReceiveInv'
  BY <1>1, <1>3, <1>4 DEF Parts, ReceiveInv
<1>21. ServeInv'
  BY <1>1, <1>3, <1>4, <1>8, BrokerAssumption DEF Parts, ServeInv, Serving, Woken
<1>22. LockInv'
  BY <1>1, <1>3, <1>4 DEF Parts, LockInv, HoldsMutex
<1>23. RegisteringInv'
  BY <1>1, <1>3, <1>4, <1>8, <1>0 DEF Parts, RegisteringInv, Registering
<1>24. CreatingInv'
  BY <1>1, <1>3, <1>4 DEF Parts, CreatingInv
<1>25. ServingInv'
  BY <1>1, <1>3, <1>4, <1>8, BrokerAssumption DEF Parts, ServingInv, Woken, RegisteringInv, Registering, CreatingInv, TypeOK, ReceiveInv, ServeInv, Serving, ThreadInv
<1>26. MutexExact'
  <2>1. Pushing' = Pushing
    BY <1>1, <1>3, <1>4 DEF Pushing
  <2> QED BY <1>1, <2>1, MutexSame DEF Parts, Queued
<1>27. TypeOK'
  BY BrokerAssumption DEF Parts, Broadcast, TypeOK, RPC, SPC, IPC, rlocals, queue, counters, object, requests, NextIteration, Woken
<1> QED BY <1>1, <1>2, <1>20, <1>21, <1>22, <1>23, <1>24, <1>25, <1>26, <1>27 DEF Parts

\* RegisterRequest preserves the invariant.
LEMMA RegisterRequestInv ==
    ASSUME NEW r \in Rcv, NEW q \in Req, Parts, RegisterRequest(r, q)
    PROVE  Parts'
<1>1. UNCHANGED <<fifo, mutexCount, instanceCount, spc, sreq, stmp, ipc, finished>>
  BY DEF RegisterRequest, svars, queue, counters, object
<1>0. Queued' = Queued
  BY <1>1 DEF Queued
<1>2. ServeInv' /\ InstanceExact'
  BY <1>1, ServeInvFrame, InstanceExactFrame DEF Parts
<1>3. rpc[r] = "recv"
  BY DEF RegisterRequest, ReceiveRequest
<1>4. /\ rpc'[r] \in {"reg", "push"}
      /\ \A x \in Rcv : x # r => rpc'[x] = rpc[x]
      /\ rreq'[r] = q
      /\ \A x \in Rcv : x # r => rreq'[x] = rreq[x]
  BY DEF Parts, TypeOK, RegisterRequest
<1>6. q \notin received /\ received' = received \cup {q}
  BY DEF RegisterRequest, ReceiveRequest, Sendable
<1>13. /\ q \notin finished /\ q \notin Queued /\ sreq # q /\ ipc[q] = "none"
      /\ \A x \in Rcv : Registering(x) => rreq[x] # q
  BY <1>6, BrokerAssumption DEF Parts, TypeOK, ThreadInv, FifoInv, ServingInv, RegisteringInv
<1>9. (rpc'[r] = "push" <=> Kind[q] = "seq")
  BY BrokerAssumption DEF Parts, TypeOK, Kinds, RegisterRequest
<1>20. ReceiveInv'
  BY <1>1, <1>3, <1>4, <1>6, <1>13, <1>9, BrokerAssumption DEF Parts, ReceiveInv, TypeOK
<1>21. LockInv'
  BY <1>1, <1>3, <1>4, <1>9 DEF Parts, LockInv, HoldsMutex
<1>22. RegisteringInv'
  BY <1>1, <1>3, <1>4, <1>6, <1>13, <1>9, <1>0 DEF Parts, RegisteringInv, Registering
<1>23. CreatingInv'
  BY <1>1, <1>3, <1>4 DEF Parts, CreatingInv
<1>24. FifoInv'
  BY <1>1, <1>3, <1>4, <1>6, <1>13, <1>9, <1>0 DEF Parts, FifoInv, TypeOK, RegisteringInv, Registering, ThreadInv, ServingInv
<1>25. ServingInv'
  BY <1>1, <1>3, <1>4, <1>6, <1>13, <1>9, BrokerAssumption DEF Parts, ServingInv, RegisteringInv, Registering, CreatingInv, TypeOK, ReceiveInv, ServeInv, Serving, ThreadInv
<1>26. ThreadInv'
  BY <1>1, <1>3, <1>4, <1>6, <1>13, <1>9, BrokerAssumption DEF Parts, ThreadInv, RegisteringInv, Registering, CreatingInv, TypeOK, ReceiveInv
<1>27. MutexExact'
  <2>1. Pushing' = Pushing \/ (Pushing' = Pushing \cup {q} /\ Kind[q] = "seq")
    BY <1>1, <1>3, <1>4, <1>9 DEF Pushing
  <2>2. PendingMutex' = PendingMutex
    BY <1>0, <1>1, <2>1 DEF PendingMutex
  <2> QED BY <1>1, <2>2 DEF Parts, MutexExact
<1>28. TypeOK'
  BY BrokerAssumption DEF Parts, RegisterRequest, TypeOK, RPC, SPC, IPC, svars, queue, counters, object, ReceiveRequest, Sendable
<1> QED BY <1>1, <1>2, <1>20, <1>21, <1>22, <1>23, <1>24, <1>25, <1>26, <1>27, <1>28 DEF Parts

\* RegisterConc preserves the invariant.
LEMMA RegisterConcInv ==
    ASSUME NEW r \in Rcv, Parts, RegisterConc(r)
    PROVE  Parts'
<1>1. UNCHANGED <<rreq, fifo, mutexCount, instanceCount, spc, sreq, stmp, ipc, received, finished>>
  BY DEF RegisterConc, rlocals, svars, queue, counters, object, requests
<1>0. Queued' = Queued
  BY <1>1 DEF Queued
<1>2. ServeInv' /\ FifoInv' /\ ServingInv' /\ ThreadInv' /\ InstanceExact'
  BY <1>1, ServeInvFrame, FifoInvFrame, ServingInvFrame, ThreadInvFrame, InstanceExactFrame DEF Parts
<1>3. rreq[r] \in Req /\ rpc[r] = "reg"
  BY DEF Parts, TypeOK, ReceiveInv, RegisterConc
<1>4. /\ rpc'[r] \in {"new", "push"}
      /\ \A x \in Rcv : x # r => rpc'[x] = rpc[x]
  BY DEF Parts, TypeOK, RegisterConc
<1>9. Kind[rreq[r]] = "conc" /\ (rpc'[r] = "new" => mutexCount = 0)
  BY <1>3, BrokerAssumption DEF Parts, TypeOK, Kinds, RegisterConc
<1>10. \A x \in Rcv : ~HoldsMutex(x)
  BY DEF RegisterConc, MutexFree
<1>20. ReceiveInv'
  BY <1>1, <1>3, <1>4, <1>9 DEF Parts, ReceiveInv
<1>21. LockInv'
  BY <1>1, <1>3, <1>4, <1>9, <1>10 DEF Parts, LockInv, HoldsMutex
<1>22. RegisteringInv'
  BY <1>1, <1>3, <1>4, <1>9, <1>10, <1>0 DEF Parts, RegisteringInv, Registering
<1>23. CreatingInv'
  BY <1>1, <1>3, <1>4 DEF Parts, CreatingInv
<1>24. MutexExact'
  <2>1. Pushing \subseteq Pushing' /\ Pushing' \subseteq Pushing \cup {rreq[r]}
    BY <1>1, <1>3, <1>4 DEF Pushing
  <2>2. PendingMutex' = PendingMutex
    BY <1>1, <1>9, <2>1, BrokerAssumption DEF PendingMutex, Queued
  <2> QED BY <1>1, <2>2 DEF Parts, MutexExact
<1>25. TypeOK'
  BY <1>3, BrokerAssumption DEF Parts, RegisterConc, TypeOK, RPC, SPC, IPC, rlocals, svars, queue, counters, object, requests, MutexFree
<1> QED BY <1>1, <1>2, <1>20, <1>21, <1>22, <1>23, <1>24, <1>25 DEF Parts

\* RegisterMutex preserves the invariant.
LEMMA RegisterMutexInv ==
    ASSUME NEW r \in Rcv, Parts, RegisterMutex(r)
    PROVE  Parts'
<1>1. UNCHANGED <<rreq, fifo, instanceCount, spc, sreq, stmp, ipc, received, finished>>
  BY DEF RegisterMutex, rlocals, svars, queue, object, requests
<1>0. Queued' = Queued
  BY <1>1 DEF Queued
<1>2. ServeInv' /\ FifoInv' /\ ServingInv' /\ ThreadInv' /\ InstanceExact'
  BY <1>1, ServeInvFrame, FifoInvFrame, ServingInvFrame, ThreadInvFrame, InstanceExactFrame DEF Parts
<1>3. rreq[r] \in Req /\ rpc[r] = "reg"
  BY DEF Parts, TypeOK, ReceiveInv, RegisterMutex
<1>4. /\ rpc'[r] \in {"push"}
      /\ \A x \in Rcv : x # r => rpc'[x] = rpc[x]
  BY DEF Parts, TypeOK, RegisterMutex
<1>9. Kind[rreq[r]] = "mutex" /\ mutexCount' = mutexCount + 1
  BY <1>3, BrokerAssumption DEF Parts, TypeOK, Kinds, RegisterMutex
<1>10. \A x \in Rcv : ~HoldsMutex(x)
  BY DEF RegisterMutex, MutexFree
<1>20. ReceiveInv'
  BY <1>1, <1>3, <1>4, <1>9, <1>10 DEF Parts, ReceiveInv, HoldsMutex
<1>21. LockInv'
  BY <1>1, <1>3, <1>4, <1>9, <1>10 DEF Parts, LockInv, HoldsMutex
<1>22. RegisteringInv'
  BY <1>1, <1>3, <1>4, <1>9, <1>10, <1>0 DEF Parts, RegisteringInv, Registering
<1>23. CreatingInv'
  BY <1>1, <1>3, <1>4 DEF Parts, CreatingInv
<1>24. MutexExact'
  <2>1. PendingMutex' = PendingMutex \cup {rreq[r]}
    BY <1>1, <1>3, <1>4, <1>9 DEF PendingMutex, Pushing, Queued
  <2>2. rreq[r] \notin PendingMutex
    BY <1>3 DEF Parts, PendingMutex, Pushing, RegisteringInv, Registering
  <2>3. PendingMutex \in SUBSET Req
    BY DEF PendingMutex
  <2> QED BY <1>3, <1>9, <2>1, <2>2, <2>3, CountRequests DEF Parts, MutexExact
<1>25. TypeOK'
  BY <1>3, BrokerAssumption DEF Parts, RegisterMutex, TypeOK, RPC, SPC, IPC, rlocals, svars, queue, object, requests, MutexFree
<1> QED BY <1>1, <1>2, <1>20, <1>21, <1>22, <1>23, <1>24, <1>25 DEF Parts

\* ReceiveNewThread preserves the invariant.
LEMMA ReceiveNewThreadInv ==
    ASSUME NEW r \in Rcv, Parts, ReceiveNewThread(r)
    PROVE  Parts'
<1>1. UNCHANGED <<rreq, fifo, mutexCount, spc, sreq, stmp, received, finished>>
  BY DEF ReceiveNewThread, rlocals, svars, queue, object, requests
<1>0. Queued' = Queued
  BY <1>1 DEF Queued
<1>3. rreq[r] \in Req /\ rpc[r] = "new"
  BY DEF Parts, TypeOK, ReceiveInv, ReceiveNewThread
<1>4. /\ rpc'[r] \in {"create"}
      /\ \A x \in Rcv : x # r => rpc'[x] = rpc[x]
  BY DEF Parts, TypeOK, ReceiveNewThread
<1>5. /\ ipc[rreq[r]] = "none" /\ ipc'[rreq[r]] = "new"
      /\ \A p \in Req : p # rreq[r] => ipc'[p] = ipc[p]
  BY <1>3 DEF Parts, TypeOK, CreatingInv, RegisteringInv, Registering, ServingInv, ReceiveNewThread
<1>14. /\ \A x \in Rcv : Registering(x) /\ x # r => rreq[x] \in Req /\ rreq[x] # rreq[r]
      /\ \A x \in Rcv : x # r => rpc[x] # "create"
  BY <1>3 DEF Parts, TypeOK, ReceiveInv, RegisteringInv, CreatingInv, LockInv, HoldsMutex, Registering
<1>12. instanceCount' = instanceCount + 1
  BY DEF ReceiveNewThread
<1>20. ReceiveInv'
  BY <1>1, <1>3, <1>4 DEF Parts, ReceiveInv
<1>21. ServeInv'
  BY <1>1, <1>3, ServedMutexCounted DEF Parts, ServeInv, Serving, ReceiveInv
<1>22. LockInv'
  BY <1>1, <1>3, <1>4 DEF Parts, LockInv, HoldsMutex
<1>23. RegisteringInv'
  BY <1>1, <1>3, <1>4, <1>5, <1>14, <1>12, <1>0 DEF Parts, RegisteringInv, Registering, TypeOK, ReceiveInv
<1>24. CreatingInv'
  BY <1>1, <1>3, <1>4, <1>5, <1>14 DEF Parts, CreatingInv, TypeOK, ReceiveInv, RegisteringInv, Registering
<1>25. FifoInv'
  BY <1>1, <1>3, <1>4, <1>5, <1>14, <1>12, <1>0 DEF Parts, FifoInv, TypeOK, RegisteringInv, Registering, ThreadInv, ServingInv
<1>26. ServingInv'
  BY <1>1, <1>3, <1>4, <1>5, <1>14, <1>12, BrokerAssumption DEF Parts, ServingInv, RegisteringInv, Registering, CreatingInv, TypeOK, ReceiveInv, ServeInv, Serving, ThreadInv
<1>27. ThreadInv'
  BY <1>1, <1>3, <1>4, <1>5, <1>14, <1>12, BrokerAssumption DEF Parts, ThreadInv, RegisteringInv, Registering, CreatingInv, TypeOK, ReceiveInv
<1>28. InstanceExact'
  <2>1. Instances' = Instances \cup {rreq[r]}
    BY <1>3, <1>5 DEF Instances
  <2>2. rreq[r] \notin Instances
    BY <1>3, <1>5 DEF Instances
  <2>3. Instances \in SUBSET Req
    BY DEF Instances
  <2> QED BY <1>3, <1>12, <2>1, <2>2, <2>3, CountRequests DEF Parts, InstanceExact
<1>29. MutexExact'
  <2>1. Pushing' = Pushing
    BY <1>1, <1>3, <1>4 DEF Pushing
  <2> QED BY <1>1, <2>1, MutexSame DEF Parts, Queued
<1>30. instanceCount' \in Nat
  BY <1>28, BrokerAssumption, FS_Subset, FS_CardinalityType DEF InstanceExact, Instances
<1>31. TypeOK'
  BY <1>30, <1>3, BrokerAssumption DEF Parts, ReceiveNewThread, TypeOK, RPC, SPC, IPC, rlocals, svars, queue, object, requests, ExecFree
<1> QED BY <1>1, <1>20, <1>21, <1>22, <1>23, <1>24, <1>25, <1>26, <1>27, <1>28, <1>29, <1>31 DEF Parts

\* ReceiveCreate preserves the invariant.
LEMMA ReceiveCreateInv ==
    ASSUME NEW r \in Rcv, Parts, ReceiveCreate(r)
    PROVE  Parts'
<1>1. UNCHANGED <<fifo, mutexCount, instanceCount, spc, sreq, stmp, received, finished>>
  BY DEF ReceiveCreate, svars, queue, counters, object, requests
<1>0. Queued' = Queued
  BY <1>1 DEF Queued
<1>2. ServeInv'
  BY <1>1, ServeInvFrame DEF Parts
<1>3. rreq[r] \in Req /\ rpc[r] = "create"
  BY DEF Parts, TypeOK, ReceiveInv, ReceiveCreate
<1>4. /\ rpc'[r] \in {"recv", "exit"}
      /\ \A x \in Rcv : x # r => rpc'[x] = rpc[x]
      /\ rreq'[r] = None
      /\ \A x \in Rcv : x # r => rreq'[x] = rreq[x]
  BY DEF Parts, TypeOK, ReceiveCreate, NextIteration
<1>5. /\ ipc[rreq[r]] = "new" /\ ipc'[rreq[r]] = "running"
      /\ \A p \in Req : p # rreq[r] => ipc'[p] = ipc[p]
  BY <1>3 DEF Parts, TypeOK, CreatingInv, RegisteringInv, Registering, ServingInv, ReceiveCreate
<1>14. /\ \A x \in Rcv : Registering(x) /\ x # r => rreq[x] \in Req /\ rreq[x] # rreq[r]
      /\ \A x \in Rcv : x # r => rpc[x] # "create"
  BY <1>3 DEF Parts, TypeOK, ReceiveInv, RegisteringInv, CreatingInv, LockInv, HoldsMutex, Registering
<1>20. ReceiveInv'
  BY <1>1, <1>3, <1>4 DEF Parts, ReceiveInv
<1>21. LockInv'
  BY <1>1, <1>3, <1>4 DEF Parts, LockInv, HoldsMutex
<1>22. RegisteringInv'
  BY <1>0, <1>1, <1>4, <1>5, <1>14 DEF Parts, RegisteringInv, Registering
<1>23. CreatingInv'
  BY <1>4, <1>14 DEF CreatingInv
<1>24. FifoInv'
  BY <1>1, <1>3, <1>4, <1>5, <1>14, <1>0 DEF Parts, FifoInv, TypeOK, RegisteringInv, Registering, ThreadInv, ServingInv
<1>25. ServingInv'
  BY <1>1, <1>3, <1>4, <1>5, <1>14, BrokerAssumption DEF Parts, ServingInv, RegisteringInv, Registering, CreatingInv, TypeOK, ReceiveInv, ServeInv, Serving, ThreadInv
<1>26. ThreadInv'
  BY <1>1, <1>3, <1>4, <1>5, <1>14, BrokerAssumption DEF Parts, ThreadInv, RegisteringInv, Registering, CreatingInv, TypeOK, ReceiveInv
<1>27. InstanceExact'
  <2>1. Instances' = Instances
    BY <1>3, <1>5 DEF Instances
  <2> QED BY <1>1, <2>1 DEF Parts, InstanceExact
<1>28. MutexExact'
  <2>1. Pushing' = Pushing
    BY <1>1, <1>3, <1>4 DEF Pushing
  <2> QED BY <1>1, <2>1, MutexSame DEF Parts, Queued
<1>29. TypeOK'
  BY <1>3, BrokerAssumption DEF Parts, ReceiveCreate, TypeOK, RPC, SPC, IPC, svars, queue, counters, object, requests, NextIteration
<1> QED BY <1>1, <1>2, <1>20, <1>21, <1>22, <1>23, <1>24, <1>25, <1>26, <1>27, <1>28, <1>29 DEF Parts

\* ReceiveCreateFail preserves the invariant.
LEMMA ReceiveCreateFailInv ==
    ASSUME NEW r \in Rcv, Parts, ReceiveCreateFail(r)
    PROVE  Parts'
<1>1. UNCHANGED <<fifo, mutexCount, sreq, stmp, received>>
  BY DEF ReceiveCreateFail, queue, object
<1>0. Queued' = Queued
  BY <1>1 DEF Queued
<1>3. rreq[r] \in Req /\ rpc[r] = "create"
  BY DEF Parts, TypeOK, ReceiveInv, ReceiveCreateFail
<1>4. /\ rpc'[r] \in {"recv", "exit"}
      /\ \A x \in Rcv : x # r => rpc'[x] = rpc[x]
      /\ rreq'[r] = None
      /\ \A x \in Rcv : x # r => rreq'[x] = rreq[x]
  BY DEF Parts, TypeOK, ReceiveCreateFail, NextIteration
<1>5. /\ ipc[rreq[r]] = "new" /\ ipc'[rreq[r]] = "deleted"
      /\ \A p \in Req : p # rreq[r] => ipc'[p] = ipc[p]
  BY <1>3 DEF Parts, TypeOK, CreatingInv, RegisteringInv, Registering, ServingInv, ReceiveCreateFail, CreateFailed
<1>14. /\ \A x \in Rcv : Registering(x) /\ x # r => rreq[x] \in Req /\ rreq[x] # rreq[r]
      /\ \A x \in Rcv : x # r => rpc[x] # "create"
  BY <1>3 DEF Parts, TypeOK, ReceiveInv, RegisteringInv, CreatingInv, LockInv, HoldsMutex, Registering
<1>7. finished' = finished \cup {rreq[r]}
  BY DEF ReceiveCreateFail, CreateFailed
<1>8. spc' = Woken
  BY DEF ReceiveCreateFail
<1>12. instanceCount' = instanceCount - 1
  BY DEF ReceiveCreateFail, CreateFailed
<1>20. ReceiveInv'
  BY <1>1, <1>3, <1>4 DEF Parts, ReceiveInv
<1>21. ServeInv'
  BY <1>1, <1>3, <1>4, <1>5, <1>14, <1>7, <1>8, <1>12, NoInstance DEF Parts, ServeInv, Serving, Woken, Instances
<1>22. LockInv'
  BY <1>1, <1>3, <1>4 DEF Parts, LockInv, HoldsMutex
<1>23. RegisteringInv'
  BY <1>0, <1>1, <1>4, <1>5, <1>7, <1>14 DEF Parts, RegisteringInv, Registering
<1>24. CreatingInv'
  BY <1>4, <1>14 DEF CreatingInv
<1>25. FifoInv'
  BY <1>1, <1>3, <1>4, <1>5, <1>14, <1>7, <1>8, <1>12, <1>0 DEF Parts, FifoInv, TypeOK, RegisteringInv, Registering, ThreadInv, ServingInv
<1>26. ServingInv'
  BY <1>1, <1>3, <1>4, <1>5, <1>14, <1>7, <1>8, <1>12, BrokerAssumption DEF Parts, ServingInv, Woken, RegisteringInv, Registering, CreatingInv, TypeOK, ReceiveInv, ServeInv, Serving, ThreadInv
<1>27. ThreadInv'
  BY <1>1, <1>3, <1>4, <1>5, <1>14, <1>7, <1>8, <1>12, BrokerAssumption DEF Parts, ThreadInv, RegisteringInv, Registering, CreatingInv, TypeOK, ReceiveInv
<1>28. InstanceExact'
  <2>1. Instances' = Instances \ {rreq[r]}
    BY <1>3, <1>5 DEF Instances
  <2>2. rreq[r] \in Instances
    BY <1>3, <1>5 DEF Instances
  <2>3. Instances \in SUBSET Req
    BY DEF Instances
  <2> QED BY <1>3, <1>12, <2>1, <2>2, <2>3, CountRequests DEF Parts, InstanceExact
<1>29. MutexExact'
  <2>1. Pushing' = Pushing
    BY <1>1, <1>3, <1>4 DEF Pushing
  <2> QED BY <1>1, <2>1, MutexSame DEF Parts, Queued
<1>30. instanceCount' \in Nat
  BY <1>28, BrokerAssumption, FS_Subset, FS_CardinalityType DEF InstanceExact, Instances
<1>31. TypeOK'
  BY <1>30, <1>3, BrokerAssumption DEF Parts, ReceiveCreateFail, TypeOK, RPC, SPC, IPC, queue, object, NextIteration, Woken, CreateFailed, ExecFree
<1> QED BY <1>1, <1>20, <1>21, <1>22, <1>23, <1>24, <1>25, <1>26, <1>27, <1>28, <1>29, <1>31 DEF Parts

\* PushRequest preserves the invariant.
LEMMA PushRequestInv ==
    ASSUME NEW r \in Rcv, Parts, PushRequest(r)
    PROVE  Parts'
<1>1. UNCHANGED <<mutexCount, instanceCount, sreq, stmp, ipc, received, finished>>
  BY DEF PushRequest, counters, requests
<1>2. ThreadInv' /\ InstanceExact'
  BY <1>1, ThreadInvFrame, InstanceExactFrame DEF Parts
<1>3. rreq[r] \in Req /\ rpc[r] = "push"
  BY DEF Parts, TypeOK, ReceiveInv, PushRequest
<1>4. /\ rpc'[r] \in {"load", "throttle"}
      /\ rpc'[r] = "load" <=> Kind[rreq[r]] = "conc"
      /\ rreq'[r] = IF rpc'[r] = "load" THEN rreq[r] ELSE None
      /\ \A x \in Rcv : x # r => rpc'[x] = rpc[x] /\ rreq'[x] = rreq[x]
  BY DEF Parts, TypeOK, PushRequest
<1>5. /\ rreq[r] \notin Queued /\ sreq # rreq[r] /\ ipc[rreq[r]] = "none"
      /\ rreq[r] \in received /\ rreq[r] \notin finished
  BY <1>3 DEF Parts, Registering, RegisteringInv
<1>6. fifo \in Seq(Req) /\ Len(fifo) \in Nat
  BY DEF Parts, TypeOK
<1>7. /\ fifo' \in Seq(Req) /\ Len(fifo') = Len(fifo) + 1
      /\ \A i \in 1..Len(fifo) : fifo'[i] = fifo[i]
      /\ fifo'[Len(fifo) + 1] = rreq[r]
  BY <1>3, <1>6 DEF PushRequest
<1>8. Queued' = Queued \cup {rreq[r]}
  BY <1>3, <1>6, <1>7 DEF Queued
<1>9. spc' = Woken
  BY DEF PushRequest
<1>20. ReceiveInv'
  BY <1>1, <1>3, <1>4, BrokerAssumption DEF Parts, ReceiveInv
<1>21. ServeInv'
  BY <1>1, <1>9 DEF Parts, ServeInv, Serving, Woken
<1>22. LockInv'
  BY <1>3, <1>4 DEF Parts, LockInv, HoldsMutex
<1>23. RegisteringInv'
  BY <1>1, <1>3, <1>4, <1>8 DEF Parts, RegisteringInv, Registering
<1>24. CreatingInv'
  BY <1>1, <1>4 DEF Parts, CreatingInv
<1>25. FifoInv'
  <2>1. \A i, j \in 1..Len(fifo') : fifo'[i] = fifo'[j] => i = j
    BY <1>5, <1>6, <1>7 DEF Parts, FifoInv, Queued
  <2> QED BY <1>1, <1>5, <1>8, <2>1 DEF Parts, FifoInv
<1>26. ServingInv'
  BY <1>1, <1>9 DEF Parts, ServingInv, Woken, Serving, ServeInv
<1>27. MutexExact'
  <2>1. Pushing = Pushing' \cup {rreq[r]}
    BY <1>3, <1>4 DEF Pushing
  <2>2. PendingMutex' = PendingMutex
    BY <1>1, <1>8, <2>1 DEF PendingMutex
  <2> QED BY <1>1, <2>2 DEF Parts, MutexExact
<1>28. TypeOK'
  <2>1. rpc' \in [Rcv -> RPC] /\ rreq' \in [Rcv -> Req \cup {None}]
    BY DEF Parts, TypeOK, PushRequest, RPC
  <2>2. rcount' \in [Rcv -> Nat]
    BY <1>6 DEF Parts, TypeOK, PushRequest
  <2>3. pushed' \in Seq(Req)
    BY <1>3 DEF Parts, TypeOK, PushRequest
  <2>4. spc' \in SPC
    BY <1>9 DEF Parts, TypeOK, Woken, SPC
  <2>5. UNCHANGED <<counters, object, requests, rtmp, sreq, stmp, ipc>>
    BY DEF PushRequest
  <2> QED BY <1>7, <2>1, <2>2, <2>3, <2>4, <2>5
          DEF Parts, TypeOK, counters, object, requests
<1> QED BY <1>2, <1>20, <1>21, <1>22, <1>23, <1>24, <1>25, <1>26, <1>27, <1>28 DEF Parts

\* ConcLoad preserves the invariant.
LEMMA ConcLoadInv ==
    ASSUME NEW r \in Rcv, Parts, ConcLoad(r)
    PROVE  Parts'
<1>1. UNCHANGED <<rreq, fifo, mutexCount, instanceCount, spc, sreq, stmp, ipc, received, finished>>
  BY DEF ConcLoad, svars, queue, counters, object, requests
<1>0. Queued' = Queued
  BY <1>1 DEF Queued
<1>2. ServeInv' /\ FifoInv' /\ ServingInv' /\ ThreadInv' /\ InstanceExact'
  BY <1>1, ServeInvFrame, FifoInvFrame, ServingInvFrame, ThreadInvFrame, InstanceExactFrame DEF Parts
<1>3. rreq[r] \in Req /\ rpc[r] = "load"
  BY DEF Parts, TypeOK, ReceiveInv, ConcLoad
<1>4. /\ rpc'[r] \in {"store"}
      /\ \A x \in Rcv : x # r => rpc'[x] = rpc[x]
  BY DEF Parts, TypeOK, ConcLoad
<1>20. ReceiveInv'
  BY <1>1, <1>3, <1>4 DEF Parts, ReceiveInv
<1>21. LockInv'
  BY <1>1, <1>3, <1>4 DEF Parts, LockInv, HoldsMutex
<1>22. RegisteringInv'
  BY <1>1, <1>3, <1>4, <1>0 DEF Parts, RegisteringInv, Registering
<1>23. CreatingInv'
  BY <1>1, <1>3, <1>4 DEF Parts, CreatingInv
<1>24. MutexExact'
  <2>1. Pushing' = Pushing
    BY <1>1, <1>3, <1>4 DEF Pushing
  <2> QED BY <1>1, <2>1, MutexSame DEF Parts, Queued
<1>25. TypeOK'
  BY <1>3, BrokerAssumption DEF Parts, ConcLoad, TypeOK, RPC, SPC, IPC, svars, queue, counters, object, requests
<1> QED BY <1>1, <1>2, <1>20, <1>21, <1>22, <1>23, <1>24, <1>25 DEF Parts

\* ConcStore preserves the invariant.
LEMMA ConcStoreInv ==
    ASSUME NEW r \in Rcv, Parts, ConcStore(r)
    PROVE  Parts'
<1>1. UNCHANGED <<fifo, mutexCount, instanceCount, spc, sreq, stmp, ipc, received, finished>>
  BY DEF ConcStore, svars, queue, object, requests
<1>0. Queued' = Queued
  BY <1>1 DEF Queued
<1>2. ServeInv' /\ FifoInv' /\ ServingInv' /\ ThreadInv' /\ InstanceExact'
  BY <1>1, ServeInvFrame, FifoInvFrame, ServingInvFrame, ThreadInvFrame, InstanceExactFrame DEF Parts
<1>3. rreq[r] \in Req /\ rpc[r] = "store"
  BY DEF Parts, TypeOK, ReceiveInv, ConcStore
<1>4. /\ rpc'[r] \in {"throttle"}
      /\ \A x \in Rcv : x # r => rpc'[x] = rpc[x]
      /\ rreq'[r] = None
      /\ \A x \in Rcv : x # r => rreq'[x] = rreq[x]
  BY DEF Parts, TypeOK, ConcStore
<1>20. ReceiveInv'
  BY <1>1, <1>3, <1>4 DEF Parts, ReceiveInv
<1>21. LockInv'
  BY <1>1, <1>3, <1>4 DEF Parts, LockInv, HoldsMutex
<1>22. RegisteringInv'
  BY <1>1, <1>3, <1>4, <1>0 DEF Parts, RegisteringInv, Registering
<1>23. CreatingInv'
  BY <1>1, <1>3, <1>4 DEF Parts, CreatingInv
<1>24. MutexExact'
  <2>1. Pushing' = Pushing
    BY <1>1, <1>3, <1>4 DEF Pushing
  <2> QED BY <1>1, <2>1, MutexSame DEF Parts, Queued
<1>25. TypeOK'
  BY <1>3, BrokerAssumption DEF Parts, ConcStore, TypeOK, RPC, SPC, IPC, svars, queue, object, requests
<1> QED BY <1>1, <1>2, <1>20, <1>21, <1>22, <1>23, <1>24, <1>25 DEF Parts

\* Throttle preserves the invariant.
LEMMA ThrottleInv ==
    ASSUME NEW r \in Rcv, Parts, Throttle(r)
    PROVE  Parts'
<1>1. UNCHANGED <<rreq, fifo, mutexCount, instanceCount, spc, sreq, stmp, ipc, received, finished>>
  BY DEF Throttle, rlocals, svars, queue, counters, object, requests
<1>0. Queued' = Queued
  BY <1>1 DEF Queued
<1>2. ServeInv' /\ FifoInv' /\ ServingInv' /\ ThreadInv' /\ InstanceExact'
  BY <1>1, ServeInvFrame, FifoInvFrame, ServingInvFrame, ThreadInvFrame, InstanceExactFrame DEF Parts
<1>3. rpc[r] = "throttle"
  BY DEF Throttle
<1>4. /\ rpc'[r] \in {"recv", "exit"}
      /\ \A x \in Rcv : x # r => rpc'[x] = rpc[x]
  BY DEF Parts, TypeOK, Throttle, NextIteration
<1>20. ReceiveInv'
  BY <1>1, <1>3, <1>4 DEF Parts, ReceiveInv
<1>21. LockInv'
  BY <1>1, <1>3, <1>4 DEF Parts, LockInv, HoldsMutex
<1>22. RegisteringInv'
  BY <1>1, <1>3, <1>4, <1>0 DEF Parts, RegisteringInv, Registering
<1>23. CreatingInv'
  BY <1>1, <1>3, <1>4 DEF Parts, CreatingInv
<1>24. MutexExact'
  <2>1. Pushing' = Pushing
    BY <1>1, <1>3, <1>4 DEF Pushing
  <2> QED BY <1>1, <2>1, MutexSame DEF Parts, Queued
<1>25. TypeOK'
  BY BrokerAssumption DEF Parts, Throttle, TypeOK, RPC, SPC, IPC, rlocals, svars, queue, counters, object, requests, NextIteration
<1> QED BY <1>1, <1>2, <1>20, <1>21, <1>22, <1>23, <1>24, <1>25 DEF Parts

\* StopReceiving preserves the invariant.
LEMMA StopReceivingInv ==
    ASSUME NEW r \in Rcv, Parts, StopReceiving(r)
    PROVE  Parts'
<1>1. UNCHANGED <<rreq, fifo, mutexCount, instanceCount, spc, sreq, stmp, ipc, received, finished>>
  BY DEF StopReceiving, rlocals, svars, queue, counters, object, requests
<1>0. Queued' = Queued
  BY <1>1 DEF Queued
<1>2. ServeInv' /\ FifoInv' /\ ServingInv' /\ ThreadInv' /\ InstanceExact'
  BY <1>1, ServeInvFrame, FifoInvFrame, ServingInvFrame, ThreadInvFrame, InstanceExactFrame DEF Parts
<1>3. rpc[r] = "recv"
  BY DEF StopReceiving
<1>4. /\ rpc'[r] \in {"exit"}
      /\ \A x \in Rcv : x # r => rpc'[x] = rpc[x]
  BY DEF Parts, TypeOK, StopReceiving
<1>20. ReceiveInv'
  BY <1>1, <1>3, <1>4 DEF Parts, ReceiveInv
<1>21. LockInv'
  BY <1>1, <1>3, <1>4 DEF Parts, LockInv, HoldsMutex
<1>22. RegisteringInv'
  BY <1>1, <1>3, <1>4, <1>0 DEF Parts, RegisteringInv, Registering
<1>23. CreatingInv'
  BY <1>1, <1>3, <1>4 DEF Parts, CreatingInv
<1>24. MutexExact'
  <2>1. Pushing' = Pushing
    BY <1>1, <1>3, <1>4 DEF Pushing
  <2> QED BY <1>1, <2>1, MutexSame DEF Parts, Queued
<1>25. TypeOK'
  BY BrokerAssumption DEF Parts, StopReceiving, TypeOK, RPC, SPC, IPC, rlocals, svars, queue, counters, object, requests
<1> QED BY <1>1, <1>2, <1>20, <1>21, <1>22, <1>23, <1>24, <1>25 DEF Parts

\* RunLoop preserves the invariant.
LEMMA RunLoopInv ==
    ASSUME Parts, RunLoop
    PROVE  Parts'
<1>1. UNCHANGED <<rpc, rreq, fifo, mutexCount, instanceCount, sreq, stmp, ipc, received, finished>>
  BY DEF RunLoop, rvars, queue, counters, object, requests
<1>2. ReceiveInv' /\ LockInv' /\ RegisteringInv' /\ CreatingInv' /\ FifoInv' /\ ThreadInv' /\ InstanceExact' /\ MutexExact'
  BY <1>1, ReceiveInvFrame, LockInvFrame, RegisteringInvFrame, CreatingInvFrame, FifoInvFrame, ThreadInvFrame, InstanceExactFrame, MutexExactFrame DEF Parts
<1>20. ServeInv'
  BY BrokerAssumption DEF Parts, RunLoop, ServeInv, TypeOK, RPC, SPC, IPC, ReceiveInv, Serving, rvars, queue, counters, object, requests
<1>21. ServingInv'
  BY BrokerAssumption DEF Parts, RunLoop, ServingInv, TypeOK, RPC, SPC, IPC, ReceiveInv, ServeInv, Serving, rvars, queue, counters, object, requests
<1>22. TypeOK'
  BY BrokerAssumption DEF Parts, RunLoop, TypeOK, RPC, SPC, IPC, rvars, queue, counters, object, requests
<1> QED BY <1>1, <1>2, <1>20, <1>21, <1>22 DEF Parts

\* GetRequestEmpty preserves the invariant.
LEMMA GetRequestEmptyInv ==
    ASSUME Parts, GetRequestEmpty
    PROVE  Parts'
<1>1. UNCHANGED <<rpc, rreq, fifo, mutexCount, instanceCount, sreq, stmp, ipc, received, finished>>
  BY DEF GetRequestEmpty, rvars, queue, counters, object, requests
<1>2. ReceiveInv' /\ LockInv' /\ RegisteringInv' /\ CreatingInv' /\ FifoInv' /\ ThreadInv' /\ InstanceExact' /\ MutexExact'
  BY <1>1, ReceiveInvFrame, LockInvFrame, RegisteringInvFrame, CreatingInvFrame, FifoInvFrame, ThreadInvFrame, InstanceExactFrame, MutexExactFrame DEF Parts
<1>20. ServeInv'
  BY BrokerAssumption DEF Parts, GetRequestEmpty, ServeInv, TypeOK, RPC, SPC, IPC, ReceiveInv, Serving, rvars, queue, counters, object, requests
<1>21. ServingInv'
  BY BrokerAssumption DEF Parts, GetRequestEmpty, ServingInv, TypeOK, RPC, SPC, IPC, ReceiveInv, ServeInv, Serving, rvars, queue, counters, object, requests
<1>22. TypeOK'
  BY BrokerAssumption DEF Parts, GetRequestEmpty, TypeOK, RPC, SPC, IPC, rvars, queue, counters, object, requests
<1> QED BY <1>1, <1>2, <1>20, <1>21, <1>22 DEF Parts

\* WaitRequest preserves the invariant.
LEMMA WaitRequestInv ==
    ASSUME Parts, WaitRequest
    PROVE  Parts'
<1>1. UNCHANGED <<rpc, rreq, fifo, mutexCount, instanceCount, sreq, stmp, ipc, received, finished>>
  BY DEF WaitRequest, rvars, queue, counters, object, requests
<1>2. ReceiveInv' /\ LockInv' /\ RegisteringInv' /\ CreatingInv' /\ FifoInv' /\ ThreadInv' /\ InstanceExact' /\ MutexExact'
  BY <1>1, ReceiveInvFrame, LockInvFrame, RegisteringInvFrame, CreatingInvFrame, FifoInvFrame, ThreadInvFrame, InstanceExactFrame, MutexExactFrame DEF Parts
<1>20. ServeInv'
  BY BrokerAssumption DEF Parts, WaitRequest, ServeInv, TypeOK, RPC, SPC, IPC, ReceiveInv, Serving, rvars, queue, counters, object, requests
<1>21. ServingInv'
  BY BrokerAssumption DEF Parts, WaitRequest, ServingInv, TypeOK, RPC, SPC, IPC, ReceiveInv, ServeInv, Serving, rvars, queue, counters, object, requests
<1>22. TypeOK'
  BY BrokerAssumption DEF Parts, WaitRequest, TypeOK, RPC, SPC, IPC, rvars, queue, counters, object, requests
<1> QED BY <1>1, <1>2, <1>20, <1>21, <1>22 DEF Parts

\* Erase removes exactly the request at position i.
LEMMA EraseRequest ==
    ASSUME NEW s \in Seq(Req), NEW i \in 1..Len(s)
    PROVE  /\ Erase(s, i) \in Seq(Req)
           /\ Len(Erase(s, i)) = Len(s) - 1
           /\ \A k \in 1..(Len(s) - 1) :
                 Erase(s, i)[k] = IF k < i THEN s[k] ELSE s[k + 1]
<1>1. Len(s) \in Nat /\ Len(s) - 1 \in Nat
  OBVIOUS
<1>2. \A k \in 1..(Len(s) - 1) : (IF k < i THEN s[k] ELSE s[k + 1]) \in Req
  BY <1>1
<1> QED BY <1>1, <1>2 DEF Erase

\* GetRequest took the request at position i out of the queue.
Taken(i) ==
    /\ i \in 1..Len(fifo)
    /\ sreq' = fifo[i]
    /\ fifo' \in Seq(Req)
    /\ Len(fifo') = Len(fifo) - 1
    /\ \A k \in 1..(Len(fifo) - 1) : fifo'[k] = IF k < i THEN fifo[k] ELSE fifo[k + 1]

\* What taking a request out of the queue preserves.
LEMMA TakeRequest ==
    ASSUME Parts, sreq = None, NEW i \in Nat, Taken(i), spc' # "create",
           UNCHANGED <<rvars, mutexCount, received, finished, ipc>>
    PROVE  /\ sreq' \in Req
           /\ RegisteringInv' /\ CreatingInv' /\ FifoInv' /\ ServingInv' /\ MutexExact'
<1>1. fifo \in Seq(Req) /\ Len(fifo) \in Nat /\ i \in 1..Len(fifo) /\ fifo[i] \in Req
  BY DEF Parts, TypeOK, Taken
<1>2. /\ sreq' = fifo[i] /\ Len(fifo') = Len(fifo) - 1
      /\ \A k \in 1..(Len(fifo) - 1) : fifo'[k] = IF k < i THEN fifo[k] ELSE fifo[k + 1]
  BY DEF Taken
<1>3. \A j, k \in 1..Len(fifo) : fifo[j] = fifo[k] => j = k
  BY DEF Parts, FifoInv
<1>4. \A k \in 1..Len(fifo') : \E j \in 1..Len(fifo) : j # i /\ fifo'[k] = fifo[j]
  <2> SUFFICES ASSUME NEW k \in 1..Len(fifo')
               PROVE  \E j \in 1..Len(fifo) : j # i /\ fifo'[k] = fifo[j]
    OBVIOUS
  <2>1. CASE k < i
    BY <1>1, <1>2, <2>1
  <2>2. CASE ~(k < i)
    <3>1. k + 1 \in 1..Len(fifo) /\ k + 1 # i /\ fifo'[k] = fifo[k + 1]
      BY <1>1, <1>2, <2>2
    <3> QED BY <3>1
  <2> QED BY <2>1, <2>2
<1>5. \A j \in 1..Len(fifo) : j # i => \E k \in 1..Len(fifo') : fifo'[k] = fifo[j]
  <2> SUFFICES ASSUME NEW j \in 1..Len(fifo), j # i
               PROVE  \E k \in 1..Len(fifo') : fifo'[k] = fifo[j]
    OBVIOUS
  <2>1. CASE j < i
    BY <1>1, <1>2, <2>1
  <2>2. CASE j > i
    <3>1. j - 1 \in 1..Len(fifo') /\ fifo'[j - 1] = fifo[j]
      BY <1>1, <1>2, <2>2
    <3> QED BY <3>1
  <2> QED BY <1>1, <2>1, <2>2
<1>6. Queued = Queued' \cup {fifo[i]} /\ fifo[i] \notin Queued'
  <2>1. \A q \in Req : q \in Queued <=> q \in Queued' \/ q = fifo[i]
    BY <1>1, <1>4, <1>5 DEF Queued
  <2>2. fifo[i] \notin Queued'
    BY <1>1, <1>3, <1>4 DEF Queued
  <2>3. Queued \subseteq Req /\ Queued' \subseteq Req
    BY DEF Queued
  <2> QED BY <1>1, <2>1, <2>2, <2>3
<1>7. /\ fifo[i] \in received /\ fifo[i] \notin finished /\ ipc[fifo[i]] = "none"
      /\ \A x \in Rcv : Registering(x) => rreq[x] # fifo[i]
  BY <1>6 DEF Parts, FifoInv, RegisteringInv
<1>8. RegisteringInv'
  BY <1>2, <1>6, <1>7 DEF Parts, RegisteringInv, Registering, rvars
<1>9. CreatingInv'
  BY <1>2, <1>7 DEF Parts, CreatingInv, rvars
<1>10. FifoInv'
  <2>1. \A j, k \in 1..Len(fifo') : fifo'[j] = fifo'[k] => j = k
    <3> SUFFICES ASSUME NEW j \in 1..Len(fifo'), NEW k \in 1..Len(fifo'), fifo'[j] = fifo'[k]
                 PROVE  j = k
      OBVIOUS
    <3>1. CASE j < i /\ k < i
      BY <1>1, <1>2, <1>3, <3>1
    <3>2. CASE j < i /\ ~(k < i)
      BY <1>1, <1>2, <1>3, <3>2
    <3>3. CASE ~(j < i) /\ k < i
      BY <1>1, <1>2, <1>3, <3>3
    <3>4. CASE ~(j < i) /\ ~(k < i)
      BY <1>1, <1>2, <1>3, <3>4
    <3> QED BY <3>1, <3>2, <3>3, <3>4
  <2> QED BY <1>2, <1>6, <2>1 DEF Parts, FifoInv
<1>11. ServingInv'
  BY <1>1, <1>2, <1>7 DEF Parts, ServingInv
<1>12. MutexExact'
  <2>1. Pushing' = Pushing
    BY DEF Pushing, rvars
  <2>2. PendingMutex' = PendingMutex
    BY <1>1, <1>2, <1>6, <2>1, BrokerAssumption DEF PendingMutex
  <2> QED BY <2>2 DEF Parts, MutexExact
<1> QED BY <1>1, <1>2, <1>8, <1>9, <1>10, <1>11, <1>12

\* GetRequestConc preserves the invariant.
LEMMA GetRequestConcInv ==
    ASSUME Parts, GetRequestConc
    PROVE  Parts'
<1>1. UNCHANGED <<rvars, mutexCount, concPendings, instanceCount, ipc, object, conn, received, finished, answer, pushed>>
  BY DEF GetRequestConc, counters, requests
<1>2. ReceiveInv' /\ LockInv' /\ ThreadInv' /\ InstanceExact'
  BY <1>1, ReceiveInvFrame, LockInvFrame, ThreadInvFrame, InstanceExactFrame DEF Parts, rvars
<1>3. /\ spc = "get" /\ spc' = "dec" /\ concPendings # 0 /\ stmp' = concPendings
      /\ \E i \in ConcAhead : sreq' = fifo[i] /\ fifo' = Erase(fifo, i)
  BY DEF GetRequestConc
<1>4. PICK i \in ConcAhead : sreq' = fifo[i] /\ fifo' = Erase(fifo, i)
  BY <1>3
<1>5. i \in 1..Len(fifo) /\ Kind[fifo[i]] = "conc" /\ i \in Nat /\ fifo \in Seq(Req)
  BY DEF ConcAhead, Parts, TypeOK
<1>6. Taken(i)
  BY <1>4, <1>5, EraseRequest DEF Taken
<1>7. sreq = None
  BY <1>3 DEF Parts, ServeInv, Serving
<1>8. sreq' \in Req /\ RegisteringInv' /\ CreatingInv' /\ FifoInv' /\ ServingInv' /\ MutexExact'
  BY <1>1, <1>3, <1>5, <1>6, <1>7, TakeRequest
<1>9. ServeInv'
  BY <1>1, <1>3, <1>4, <1>5, <1>8, BrokerAssumption DEF Parts, ServeInv, Serving, TypeOK
<1>10. TypeOK'
  BY <1>1, <1>3, <1>6, <1>8 DEF Parts, TypeOK, Taken, SPC, rvars, object
<1> QED BY <1>2, <1>8, <1>9, <1>10 DEF Parts

\* ConcDecrement preserves the invariant.
LEMMA ConcDecrementInv ==
    ASSUME Parts, ConcDecrement
    PROVE  Parts'
<1>1. UNCHANGED <<rpc, rreq, fifo, mutexCount, instanceCount, sreq, stmp, ipc, received, finished>>
  BY DEF ConcDecrement, rvars, queue, object, requests
<1>2. ReceiveInv' /\ LockInv' /\ RegisteringInv' /\ CreatingInv' /\ FifoInv' /\ ThreadInv' /\ InstanceExact' /\ MutexExact'
  BY <1>1, ReceiveInvFrame, LockInvFrame, RegisteringInvFrame, CreatingInvFrame, FifoInvFrame, ThreadInvFrame, InstanceExactFrame, MutexExactFrame DEF Parts
<1>20. ServeInv'
  BY BrokerAssumption DEF Parts, ConcDecrement, ServeInv, TypeOK, RPC, SPC, IPC, ReceiveInv, Serving, rvars, queue, object, requests
<1>21. ServingInv'
  BY BrokerAssumption DEF Parts, ConcDecrement, ServingInv, TypeOK, RPC, SPC, IPC, ReceiveInv, ServeInv, Serving, rvars, queue, object, requests
<1>22. TypeOK'
  BY BrokerAssumption DEF Parts, ConcDecrement, TypeOK, RPC, SPC, IPC, rvars, queue, object, requests, ServeInv
<1> QED BY <1>1, <1>2, <1>20, <1>21, <1>22 DEF Parts

\* GetRequestFront preserves the invariant.
LEMMA GetRequestFrontInv ==
    ASSUME Parts, GetRequestFront
    PROVE  Parts'
<1>1. UNCHANGED <<rvars, stmp, mutexCount, concPendings, instanceCount, ipc, object, conn, received, finished, answer, pushed>>
  BY DEF GetRequestFront, counters, requests
<1>2. ReceiveInv' /\ LockInv' /\ ThreadInv' /\ InstanceExact'
  BY <1>1, ReceiveInvFrame, LockInvFrame, ThreadInvFrame, InstanceExactFrame DEF Parts, rvars
<1>3. /\ spc = "get" /\ fifo # <<>> /\ sreq' = Head(fifo) /\ fifo' = Tail(fifo)
      /\ spc' = IF Kind[Head(fifo)] = "mutex" THEN "mutexget" ELSE "serve"
  BY DEF GetRequestFront
<1>4. fifo \in Seq(Req) /\ Len(fifo) \in Nat /\ Len(fifo) > 0 /\ Head(fifo) = fifo[1]
  BY <1>3 DEF Parts, TypeOK
<1>5. Taken(1)
  BY <1>3, <1>4 DEF Taken
<1>6. sreq = None
  BY <1>3 DEF Parts, ServeInv, Serving
<1>7. sreq' \in Req /\ RegisteringInv' /\ CreatingInv' /\ FifoInv' /\ ServingInv' /\ MutexExact'
  BY <1>1, <1>3, <1>5, <1>6, TakeRequest
<1>8. ServeInv'
  BY <1>1, <1>3, <1>7, BrokerAssumption DEF Parts, ServeInv, Serving, TypeOK
<1>9. TypeOK'
  BY <1>1, <1>3, <1>5, <1>7 DEF Parts, TypeOK, Taken, SPC, rvars, object
<1> QED BY <1>2, <1>7, <1>8, <1>9 DEF Parts

\* GetRequestMutex preserves the invariant.
LEMMA GetRequestMutexInv ==
    ASSUME Parts, GetRequestMutex
    PROVE  Parts'
<1>1. UNCHANGED <<rpc, rreq, fifo, mutexCount, instanceCount, sreq, stmp, ipc, received, finished>>
  BY DEF GetRequestMutex, rvars, queue, counters, object, requests
<1>2. ReceiveInv' /\ LockInv' /\ RegisteringInv' /\ CreatingInv' /\ FifoInv' /\ ThreadInv' /\ InstanceExact' /\ MutexExact'
  BY <1>1, ReceiveInvFrame, LockInvFrame, RegisteringInvFrame, CreatingInvFrame, FifoInvFrame, ThreadInvFrame, InstanceExactFrame, MutexExactFrame DEF Parts
<1>20. ServeInv'
  BY BrokerAssumption DEF Parts, GetRequestMutex, ServeInv, TypeOK, RPC, SPC, IPC, ReceiveInv, Serving, rvars, queue, counters, object, requests
<1>21. ServingInv'
  BY BrokerAssumption DEF Parts, GetRequestMutex, ServingInv, TypeOK, RPC, SPC, IPC, ReceiveInv, ServeInv, Serving, rvars, queue, counters, object, requests
<1>22. TypeOK'
  BY BrokerAssumption DEF Parts, GetRequestMutex, TypeOK, RPC, SPC, IPC, rvars, queue, counters, object, requests
<1> QED BY <1>1, <1>2, <1>20, <1>21, <1>22 DEF Parts

\* ServeConc preserves the invariant.
LEMMA ServeConcInv ==
    ASSUME Parts, ServeConc
    PROVE  Parts'
<1>1. UNCHANGED <<rpc, rreq, fifo, mutexCount, sreq, stmp, received, finished>>
  BY DEF ServeConc, rvars, queue, object, requests
<1>0. Queued' = Queued
  BY <1>1 DEF Queued
<1>2. ReceiveInv' /\ LockInv' /\ MutexExact'
  BY <1>1, ReceiveInvFrame, LockInvFrame, MutexExactFrame DEF Parts
<1>3. sreq \in Req /\ spc = "serve" /\ Kind[sreq] = "conc" /\ spc' = "create"
  BY DEF Parts, TypeOK, ServeInv, Serving, ServeConc
<1>5. /\ ipc[sreq] = "none" /\ ipc'[sreq] = "new"
      /\ \A p \in Req : p # sreq => ipc'[p] = ipc[p]
  BY BrokerAssumption, <1>3 DEF Parts, TypeOK, CreatingInv, RegisteringInv, Registering, ServingInv, ServeConc
<1>15. sreq \in received /\ Queued \subseteq Req
  BY <1>3, BrokerAssumption DEF Parts, ServingInv, Queued
<1>12. instanceCount' = instanceCount + 1
  BY DEF ServeConc
<1>20. ServeInv'
  BY <1>1, <1>3, <1>5, <1>15, <1>12, BrokerAssumption DEF Parts, ServeInv, Serving
<1>21. RegisteringInv'
  BY <1>1, <1>3, <1>5, <1>15, <1>12, <1>0 DEF Parts, RegisteringInv, Registering, TypeOK, ReceiveInv
<1>22. CreatingInv'
  BY <1>1, <1>3, <1>5, <1>15, <1>12, BrokerAssumption DEF Parts, CreatingInv, RegisteringInv, Registering, TypeOK, ReceiveInv
<1>23. FifoInv'
  BY <1>1, <1>3, <1>5, <1>15, <1>12, <1>0 DEF Parts, FifoInv, TypeOK, RegisteringInv, Registering, ThreadInv, ServingInv
<1>24. ServingInv'
  BY <1>1, <1>3, <1>5, <1>15, <1>12, BrokerAssumption DEF Parts, ServingInv, RegisteringInv, Registering, CreatingInv, TypeOK, ReceiveInv, ServeInv, Serving, ThreadInv
<1>16. sreq \notin finished
  BY <1>3, BrokerAssumption DEF Parts, ServingInv
<1>25. ThreadInv'
  BY <1>1, <1>3, <1>5, <1>15, <1>16 DEF Parts, ThreadInv
<1>26. InstanceExact'
  <2>1. Instances' = Instances \cup {sreq}
    BY <1>3, <1>5 DEF Instances
  <2>2. sreq \notin Instances
    BY <1>3, <1>5 DEF Instances
  <2>3. Instances \in SUBSET Req
    BY DEF Instances
  <2> QED BY <1>3, <1>12, <2>1, <2>2, <2>3, CountRequests DEF Parts, InstanceExact
<1>27. instanceCount' \in Nat
  BY <1>26, BrokerAssumption, FS_Subset, FS_CardinalityType DEF InstanceExact, Instances
<1>28. TypeOK'
  BY <1>27, <1>3, BrokerAssumption DEF Parts, ServeConc, TypeOK, RPC, SPC, IPC, rvars, queue, object, requests
<1> QED BY <1>1, <1>2, <1>20, <1>21, <1>22, <1>23, <1>24, <1>25, <1>26, <1>28 DEF Parts

\* ServeCreate preserves the invariant.
LEMMA ServeCreateInv ==
    ASSUME Parts, ServeCreate
    PROVE  Parts'
<1>1. UNCHANGED <<rpc, rreq, fifo, mutexCount, instanceCount, stmp, received, finished>>
  BY DEF ServeCreate, rvars, queue, counters, object, requests
<1>0. Queued' = Queued
  BY <1>1 DEF Queued
<1>2. ReceiveInv' /\ LockInv'
  BY <1>1, ReceiveInvFrame, LockInvFrame DEF Parts
<1>3. sreq \in Req /\ spc = "create" /\ Kind[sreq] = "conc" /\ spc' = "top"
  BY DEF Parts, TypeOK, ServeInv, Serving, ServeCreate
<1>5. /\ ipc[sreq] = "new" /\ ipc'[sreq] = "running"
      /\ \A p \in Req : p # sreq => ipc'[p] = ipc[p]
  BY BrokerAssumption, <1>3 DEF Parts, TypeOK, CreatingInv, RegisteringInv, Registering, ServingInv, ServeCreate
<1>15. sreq \in received /\ Queued \subseteq Req
  BY <1>3, BrokerAssumption DEF Parts, ServingInv, Queued
<1>11. sreq' = None
  BY DEF ServeCreate
<1>20. ServeInv'
  BY <1>1, <1>3, <1>5, <1>15, <1>11, BrokerAssumption DEF Parts, ServeInv, Serving
<1>21. RegisteringInv'
  BY <1>1, <1>3, <1>5, <1>15, <1>11, <1>0 DEF Parts, RegisteringInv, Registering, TypeOK, ReceiveInv
<1>22. CreatingInv'
  BY <1>1, <1>3, <1>5, <1>15, <1>11, BrokerAssumption DEF Parts, CreatingInv, RegisteringInv, Registering, TypeOK, ReceiveInv
<1>23. FifoInv'
  <2>1. None \notin Queued
    BY BrokerAssumption DEF Queued
  <2>2. sreq \notin Queued
    BY DEF Parts, FifoInv
  <2> QED BY <1>0, <1>1, <1>5, <1>11, <1>15, <2>1, <2>2 DEF Parts, FifoInv
<1>24. ServingInv'
  BY <1>1, <1>3, <1>5, <1>15, <1>11, BrokerAssumption DEF Parts, ServingInv, RegisteringInv, Registering, CreatingInv, TypeOK, ReceiveInv, ServeInv, Serving, ThreadInv
<1>25. ThreadInv'
  BY <1>1, <1>3, <1>5, <1>15, <1>11, BrokerAssumption DEF Parts, ThreadInv, RegisteringInv, Registering, CreatingInv, TypeOK, ReceiveInv
<1>26. InstanceExact'
  <2>1. Instances' = Instances
    BY <1>3, <1>5 DEF Instances
  <2> QED BY <1>1, <2>1 DEF Parts, InstanceExact
<1>27. MutexExact'
  <2>1. PendingMutex' = PendingMutex
    BY BrokerAssumption, <1>1, <1>3, <1>11 DEF PendingMutex, Pushing, Queued
  <2> QED BY <2>1, <1>1 DEF Parts, MutexExact
<1>28. TypeOK'
  BY BrokerAssumption DEF Parts, ServeCreate, TypeOK, RPC, SPC, IPC, rvars, queue, counters, object, requests
<1> QED BY <1>1, <1>2, <1>20, <1>21, <1>22, <1>23, <1>24, <1>25, <1>26, <1>27, <1>28 DEF Parts

\* ServeCreateFail preserves the invariant.
LEMMA ServeCreateFailInv ==
    ASSUME Parts, ServeCreateFail
    PROVE  Parts'
<1>1. UNCHANGED <<rpc, rreq, fifo, mutexCount, stmp, received>>
  BY DEF ServeCreateFail, rvars, queue, object
<1>0. Queued' = Queued
  BY <1>1 DEF Queued
<1>2. ReceiveInv' /\ LockInv'
  BY <1>1, ReceiveInvFrame, LockInvFrame DEF Parts
<1>3. sreq \in Req /\ spc = "create" /\ Kind[sreq] = "conc" /\ spc' = "top"
  BY DEF Parts, TypeOK, ServeInv, Serving, ServeCreateFail
<1>5. /\ ipc[sreq] = "new" /\ ipc'[sreq] = "deleted"
      /\ \A p \in Req : p # sreq => ipc'[p] = ipc[p]
  BY BrokerAssumption, <1>3 DEF Parts, TypeOK, CreatingInv, RegisteringInv, Registering, ServingInv, ServeCreateFail, CreateFailed
<1>15. sreq \in received /\ Queued \subseteq Req
  BY <1>3, BrokerAssumption DEF Parts, ServingInv, Queued
<1>7. finished' = finished \cup {sreq}
  BY DEF ServeCreateFail, CreateFailed
<1>11. sreq' = None
  BY DEF ServeCreateFail
<1>12. instanceCount' = instanceCount - 1
  BY DEF ServeCreateFail, CreateFailed
<1>20. ServeInv'
  BY <1>1, <1>3, <1>5, <1>15, <1>7, <1>11, <1>12, BrokerAssumption DEF Parts, ServeInv, Serving
<1>21. RegisteringInv'
  BY <1>1, <1>3, <1>5, <1>15, <1>7, <1>11, <1>12, <1>0 DEF Parts, RegisteringInv, Registering, TypeOK, ReceiveInv
<1>22. CreatingInv'
  BY <1>1, <1>3, <1>5, <1>15, <1>7, <1>11, <1>12, BrokerAssumption DEF Parts, CreatingInv, RegisteringInv, Registering, TypeOK, ReceiveInv
<1>23. FifoInv'
  <2>1. None \notin Queued
    BY BrokerAssumption DEF Queued
  <2>2. sreq \notin Queued
    BY DEF Parts, FifoInv
  <2> QED BY <1>0, <1>1, <1>5, <1>7, <1>11, <1>15, <2>1, <2>2 DEF Parts, FifoInv
<1>24. ServingInv'
  BY <1>1, <1>3, <1>5, <1>15, <1>7, <1>11, <1>12, BrokerAssumption DEF Parts, ServingInv, RegisteringInv, Registering, CreatingInv, TypeOK, ReceiveInv, ServeInv, Serving, ThreadInv
<1>25. ThreadInv'
  BY <1>1, <1>3, <1>5, <1>15, <1>7, <1>11, <1>12, BrokerAssumption DEF Parts, ThreadInv, RegisteringInv, Registering, CreatingInv, TypeOK, ReceiveInv
<1>26. InstanceExact'
  <2>1. Instances' = Instances \ {sreq}
    BY <1>3, <1>5 DEF Instances
  <2>2. sreq \in Instances
    BY <1>3, <1>5 DEF Instances
  <2>3. Instances \in SUBSET Req
    BY DEF Instances
  <2> QED BY <1>3, <1>12, <2>1, <2>2, <2>3, CountRequests DEF Parts, InstanceExact
<1>27. MutexExact'
  <2>1. PendingMutex' = PendingMutex
    BY BrokerAssumption, <1>1, <1>3, <1>11 DEF PendingMutex, Pushing, Queued
  <2> QED BY <2>1, <1>1 DEF Parts, MutexExact
<1>28. instanceCount' \in Nat
  BY <1>26, BrokerAssumption, FS_Subset, FS_CardinalityType DEF InstanceExact, Instances
<1>29. TypeOK'
  BY <1>28, <1>3, BrokerAssumption DEF Parts, ServeCreateFail, TypeOK, RPC, SPC, IPC, rvars, queue, object, CreateFailed, ExecFree
<1> QED BY <1>1, <1>2, <1>20, <1>21, <1>22, <1>23, <1>24, <1>25, <1>26, <1>27, <1>29 DEF Parts

\* ServeInvoke preserves the invariant.
LEMMA ServeInvokeInv ==
    ASSUME Parts, ServeInvoke
    PROVE  Parts'
<1>1. UNCHANGED <<rpc, rreq, fifo, mutexCount, instanceCount, sreq, stmp, ipc, received, finished>>
  BY DEF ServeInvoke, rvars, queue, counters, object, requests
<1>2. ReceiveInv' /\ LockInv' /\ RegisteringInv' /\ CreatingInv' /\ FifoInv' /\ ThreadInv' /\ InstanceExact' /\ MutexExact'
  BY <1>1, ReceiveInvFrame, LockInvFrame, RegisteringInvFrame, CreatingInvFrame, FifoInvFrame, ThreadInvFrame, InstanceExactFrame, MutexExactFrame DEF Parts
<1>20. ServeInv'
  BY BrokerAssumption DEF Parts, ServeInvoke, ServeInv, TypeOK, RPC, SPC, IPC, ReceiveInv, Serving, rvars, queue, counters, object, requests
<1>21. ServingInv'
  BY BrokerAssumption DEF Parts, ServeInvoke, ServingInv, TypeOK, RPC, SPC, IPC, ReceiveInv, ServeInv, Serving, rvars, queue, counters, object, requests
<1>22. TypeOK'
  BY BrokerAssumption DEF Parts, ServeInvoke, TypeOK, RPC, SPC, IPC, rvars, queue, counters, object, requests
<1> QED BY <1>1, <1>2, <1>20, <1>21, <1>22 DEF Parts

\* InvokeMethod preserves the invariant.
LEMMA InvokeMethodInv ==
    ASSUME Parts, InvokeMethod
    PROVE  Parts'
<1>1. UNCHANGED <<rpc, rreq, fifo, mutexCount, instanceCount, sreq, stmp, ipc, received, finished>>
  BY DEF InvokeMethod, rvars, queue, counters
<1>2. ReceiveInv' /\ LockInv' /\ RegisteringInv' /\ CreatingInv' /\ FifoInv' /\ ThreadInv' /\ InstanceExact' /\ MutexExact'
  BY <1>1, ReceiveInvFrame, LockInvFrame, RegisteringInvFrame, CreatingInvFrame, FifoInvFrame, ThreadInvFrame, InstanceExactFrame, MutexExactFrame DEF Parts
<1>20. ServeInv'
  BY BrokerAssumption DEF Parts, InvokeMethod, ServeInv, TypeOK, RPC, SPC, IPC, ReceiveInv, Serving, rvars, queue, counters, Conclude, Outcome, UnhandledException
<1>21. ServingInv'
  BY BrokerAssumption DEF Parts, InvokeMethod, ServingInv, TypeOK, RPC, SPC, IPC, ReceiveInv, ServeInv, Serving, rvars, queue, counters, Conclude, Outcome, UnhandledException
<1>22. TypeOK'
  <2> PICK out \in {"return", "exception"} :
          /\ Conclude(sreq, out)
          /\ IF Call[sreq] = "constructor" /\ out = "return"
             THEN obj' = TRUE /\ refcount' = 1
             ELSE UNCHANGED <<obj, refcount>>
    BY DEF InvokeMethod, Outcome
  <2>1. obj' \in BOOLEAN /\ refcount' \in Int
    <3>1. CASE Call[sreq] = "constructor" /\ out = "return"
      BY <3>1
    <3>2. CASE ~(Call[sreq] = "constructor" /\ out = "return")
      BY <3>2 DEF Parts, TypeOK
    <3> QED BY <3>1, <3>2
  <2>2. state' \in {"running", "exit", "abort"}
    BY DEF Parts, TypeOK, Conclude, UnhandledException
  <2>3. answer' \in [Req -> {"none", "return", "exception"}]
    BY DEF Parts, TypeOK, Conclude
  <2>4. spc' = "done" /\ UNCHANGED <<rvars, queue, counters, sreq, stmp, ipc, conn, received, finished, alive>>
    BY DEF InvokeMethod
  <2> QED BY <2>1, <2>2, <2>3, <2>4 DEF Parts, TypeOK, rvars, queue, counters, SPC
<1> QED BY <1>1, <1>2, <1>20, <1>21, <1>22 DEF Parts

\* InvokePopCall preserves the invariant.
LEMMA InvokePopCallInv ==
    ASSUME Parts, InvokePopCall
    PROVE  Parts'
<1>1. UNCHANGED <<rpc, rreq, fifo, mutexCount, instanceCount, sreq, stmp, ipc, received, finished>>
  BY DEF InvokePopCall, rvars, queue, counters
<1>2. ReceiveInv' /\ LockInv' /\ RegisteringInv' /\ CreatingInv' /\ FifoInv' /\ ThreadInv' /\ InstanceExact' /\ MutexExact'
  BY <1>1, ReceiveInvFrame, LockInvFrame, RegisteringInvFrame, CreatingInvFrame, FifoInvFrame, ThreadInvFrame, InstanceExactFrame, MutexExactFrame DEF Parts
<1>20. ServeInv'
  BY BrokerAssumption DEF Parts, InvokePopCall, ServeInv, TypeOK, RPC, SPC, IPC, ReceiveInv, Serving, rvars, queue, counters, Conclude, UnhandledException, Outcome
<1>21. ServingInv'
  BY BrokerAssumption DEF Parts, InvokePopCall, ServingInv, TypeOK, RPC, SPC, IPC, ReceiveInv, ServeInv, Serving, rvars, queue, counters, Conclude, UnhandledException, Outcome
<1>22. TypeOK'
  BY BrokerAssumption DEF Parts, InvokePopCall, TypeOK, RPC, SPC, IPC, rvars, queue, counters, Conclude, UnhandledException, Outcome
<1> QED BY <1>1, <1>2, <1>20, <1>21, <1>22 DEF Parts

\* ServeDone preserves the invariant.
LEMMA ServeDoneInv ==
    ASSUME Parts, ServeDone
    PROVE  Parts'
<1>1. UNCHANGED <<rvars, queue, object, stmp, ipc, conn, received, answer, concPendings, instanceCount>>
  BY DEF ServeDone
<1>2. LockInv' /\ InstanceExact'
  BY <1>1, LockInvFrame, InstanceExactFrame DEF Parts, rvars
<1>3. /\ spc = "done" /\ sreq' = None /\ finished' = finished \cup {sreq}
      /\ spc' \in {"top", "drain"} /\ sreq \in Req
  BY DEF Parts, ServeDone, TypeOK, ServeInv, Serving
<1>4. mutexCount' = IF Kind[sreq] = "mutex" THEN mutexCount - 1 ELSE mutexCount
  BY DEF ServeDone
<1>5. sreq \in received /\ sreq \notin finished /\ ipc[sreq] = "none"
  BY <1>3, BrokerAssumption DEF Parts, ServingInv
<1>6. Queued' = Queued /\ Pushing' = Pushing
  BY <1>1 DEF Queued, Pushing, queue, rvars
<1>7. sreq \notin Queued /\ sreq \notin Pushing
  BY <1>3 DEF Parts, FifoInv, RegisteringInv, Registering, Pushing
<1>8. ReceiveInv'
  <2>1. CASE Kind[sreq] = "mutex"
    <3>1. \A x \in Rcv : ~HoldsMutex(x)
      BY <2>1 DEF ServeDone, MutexFree
    <3> QED BY <1>1, <3>1 DEF Parts, ReceiveInv, HoldsMutex, rvars
  <2>2. CASE Kind[sreq] # "mutex"
    BY <1>1, <1>4, <2>2 DEF Parts, ReceiveInv, rvars
  <2> QED BY <2>1, <2>2
<1>9. ServeInv'
  BY <1>1, <1>3 DEF Parts, ServeInv, Serving
<1>10. RegisteringInv'
  BY <1>1, <1>3, <1>6, BrokerAssumption
     DEF Parts, RegisteringInv, Registering, TypeOK, ReceiveInv, rvars
<1>11. CreatingInv'
  BY <1>1, <1>3, BrokerAssumption DEF Parts, CreatingInv, TypeOK, ReceiveInv, rvars
<1>12. FifoInv'
  <2>1. None \notin Queued
    BY BrokerAssumption DEF Queued
  <2> QED BY <1>1, <1>3, <1>6, <1>7, <2>1 DEF Parts, FifoInv, queue
<1>13. ServingInv'
  BY <1>3 DEF ServingInv
<1>14. ThreadInv'
  BY <1>1, <1>3, <1>5 DEF Parts, ThreadInv
<1>15. MutexExact'
  <2>1. PendingMutex' = PendingMutex \ {sreq}
    BY <1>3, <1>6, <1>7, BrokerAssumption DEF PendingMutex
  <2>2. PendingMutex \in SUBSET Req /\ (sreq \in PendingMutex <=> Kind[sreq] = "mutex")
    BY <1>3 DEF PendingMutex
  <2>3. CASE Kind[sreq] = "mutex"
    BY <1>3, <1>4, <2>1, <2>2, <2>3, CountRequests DEF Parts, MutexExact
  <2>4. CASE Kind[sreq] # "mutex"
    <3>1. PendingMutex' = PendingMutex
      BY <2>1, <2>2, <2>4
    <3> QED BY <1>4, <2>4, <3>1 DEF Parts, MutexExact
  <2> QED BY <2>3, <2>4
<1>16. mutexCount' \in Nat
  BY <1>15, BrokerAssumption, FS_Subset, FS_CardinalityType DEF MutexExact, PendingMutex
<1>17. TypeOK'
  BY <1>1, <1>3, <1>16 DEF Parts, TypeOK, SPC, rvars, queue, object
<1> QED BY <1>2, <1>8, <1>9, <1>10, <1>11, <1>12, <1>13, <1>14, <1>15, <1>17 DEF Parts

\* DrainStart preserves the invariant.
LEMMA DrainStartInv ==
    ASSUME Parts, DrainStart
    PROVE  Parts'
<1>1. UNCHANGED <<rpc, rreq, fifo, mutexCount, instanceCount, sreq, stmp, ipc, received, finished>>
  BY DEF DrainStart, rvars, queue, counters, object, requests
<1>2. ReceiveInv' /\ LockInv' /\ RegisteringInv' /\ CreatingInv' /\ FifoInv' /\ ThreadInv' /\ InstanceExact' /\ MutexExact'
  BY <1>1, ReceiveInvFrame, LockInvFrame, RegisteringInvFrame, CreatingInvFrame, FifoInvFrame, ThreadInvFrame, InstanceExactFrame, MutexExactFrame DEF Parts
<1>20. ServeInv'
  BY BrokerAssumption DEF Parts, DrainStart, ServeInv, TypeOK, RPC, SPC, IPC, ReceiveInv, Serving, rvars, queue, counters, object, requests
<1>21. ServingInv'
  BY BrokerAssumption DEF Parts, DrainStart, ServingInv, TypeOK, RPC, SPC, IPC, ReceiveInv, ServeInv, Serving, rvars, queue, counters, object, requests
<1>22. TypeOK'
  BY BrokerAssumption DEF Parts, DrainStart, TypeOK, RPC, SPC, IPC, rvars, queue, counters, object, requests
<1> QED BY <1>1, <1>2, <1>20, <1>21, <1>22 DEF Parts

\* Drain preserves the invariant.
LEMMA DrainInv ==
    ASSUME Parts, Drain
    PROVE  Parts'
<1>1. UNCHANGED <<rpc, rreq, fifo, mutexCount, instanceCount, sreq, stmp, ipc, received, finished>>
  BY DEF Drain, rvars, queue, counters, object, requests
<1>2. ReceiveInv' /\ LockInv' /\ RegisteringInv' /\ CreatingInv' /\ FifoInv' /\ ThreadInv' /\ InstanceExact' /\ MutexExact'
  BY <1>1, ReceiveInvFrame, LockInvFrame, RegisteringInvFrame, CreatingInvFrame, FifoInvFrame, ThreadInvFrame, InstanceExactFrame, MutexExactFrame DEF Parts
<1>20. ServeInv'
  BY BrokerAssumption DEF Parts, Drain, ServeInv, TypeOK, RPC, SPC, IPC, ReceiveInv, Serving, rvars, queue, counters, object, requests
<1>21. ServingInv'
  BY BrokerAssumption DEF Parts, Drain, ServingInv, TypeOK, RPC, SPC, IPC, ReceiveInv, ServeInv, Serving, rvars, queue, counters, object, requests
<1>22. TypeOK'
  BY BrokerAssumption DEF Parts, Drain, TypeOK, RPC, SPC, IPC, rvars, queue, counters, object, requests
<1> QED BY <1>1, <1>2, <1>20, <1>21, <1>22 DEF Parts

\* Exit preserves the invariant.
LEMMA ExitInv ==
    ASSUME Parts, Exit
    PROVE  Parts'
<1>1. UNCHANGED <<rpc, rreq, fifo, mutexCount, instanceCount, sreq, stmp, ipc, received, finished>>
  BY DEF Exit, rvars, queue, counters, requests
<1>2. ReceiveInv' /\ LockInv' /\ RegisteringInv' /\ CreatingInv' /\ FifoInv' /\ ThreadInv' /\ InstanceExact' /\ MutexExact'
  BY <1>1, ReceiveInvFrame, LockInvFrame, RegisteringInvFrame, CreatingInvFrame, FifoInvFrame, ThreadInvFrame, InstanceExactFrame, MutexExactFrame DEF Parts
<1>20. ServeInv'
  BY BrokerAssumption DEF Parts, Exit, ServeInv, TypeOK, RPC, SPC, IPC, ReceiveInv, Serving, rvars, queue, counters, requests
<1>21. ServingInv'
  BY BrokerAssumption DEF Parts, Exit, ServingInv, TypeOK, RPC, SPC, IPC, ReceiveInv, ServeInv, Serving, rvars, queue, counters, requests
<1>22. TypeOK'
  BY BrokerAssumption DEF Parts, Exit, TypeOK, RPC, SPC, IPC, rvars, queue, counters, requests
<1> QED BY <1>1, <1>2, <1>20, <1>21, <1>22 DEF Parts

\* InvokeConc preserves the invariant.
LEMMA InvokeConcInv ==
    ASSUME NEW q \in Req, Parts, InvokeConc(q)
    PROVE  Parts'
<1>1. UNCHANGED <<rpc, rreq, fifo, mutexCount, instanceCount, spc, sreq, stmp, received, finished>>
  BY DEF InvokeConc, rvars, svars, queue, counters
<1>0. Queued' = Queued
  BY <1>1 DEF Queued
<1>2. ReceiveInv' /\ ServeInv' /\ LockInv' /\ MutexExact'
  BY <1>1, ReceiveInvFrame, ServeInvFrame, LockInvFrame, MutexExactFrame DEF Parts
<1>5. /\ ipc[q] = "running" /\ ipc'[q] = "ended"
      /\ \A p \in Req : p # q => ipc'[p] = ipc[p]
  BY  DEF Parts, TypeOK, CreatingInv, RegisteringInv, Registering, ServingInv, InvokeConc
<1>20. RegisteringInv'
  BY <1>1, <1>5, <1>0 DEF Parts, RegisteringInv, Registering, TypeOK, ReceiveInv
<1>21. CreatingInv'
  BY <1>1, <1>5, BrokerAssumption DEF Parts, CreatingInv, RegisteringInv, Registering, TypeOK, ReceiveInv
<1>22. FifoInv'
  BY <1>1, <1>5, <1>0 DEF Parts, FifoInv, TypeOK, RegisteringInv, Registering, ThreadInv, ServingInv
<1>23. ServingInv'
  BY <1>1, <1>5, BrokerAssumption DEF Parts, ServingInv, RegisteringInv, Registering, CreatingInv, TypeOK, ReceiveInv, ServeInv, Serving, ThreadInv
<1>24. ThreadInv'
  BY <1>1, <1>5, BrokerAssumption DEF Parts, ThreadInv, RegisteringInv, Registering, CreatingInv, TypeOK, ReceiveInv
<1>25. InstanceExact'
  <2>1. Instances' = Instances
    BY <1>5 DEF Instances
  <2> QED BY <1>1, <2>1 DEF Parts, InstanceExact
<1>26. TypeOK'
  BY BrokerAssumption DEF Parts, InvokeConc, TypeOK, RPC, SPC, IPC, rvars, svars, queue, counters, Conclude, Outcome, UnhandledException, Outcome
<1> QED BY <1>1, <1>2, <1>20, <1>21, <1>22, <1>23, <1>24, <1>25, <1>26 DEF Parts

\* InvokeThreadEnd preserves the invariant.
LEMMA InvokeThreadEndInv ==
    ASSUME NEW q \in Req, Parts, InvokeThreadEnd(q)
    PROVE  Parts'
<1>1. UNCHANGED <<rpc, rreq, fifo, mutexCount, sreq, stmp, received>>
  BY DEF InvokeThreadEnd, rvars, queue, object
<1>0. Queued' = Queued
  BY <1>1 DEF Queued
<1>2. ReceiveInv' /\ LockInv' /\ MutexExact'
  BY <1>1, ReceiveInvFrame, LockInvFrame, MutexExactFrame DEF Parts
<1>5. /\ ipc[q] = "ended" /\ ipc'[q] = "deleted"
      /\ \A p \in Req : p # q => ipc'[p] = ipc[p]
  BY  DEF Parts, TypeOK, CreatingInv, RegisteringInv, Registering, ServingInv, InvokeThreadEnd
<1>7. finished' = finished \cup {q}
  BY DEF InvokeThreadEnd
<1>8. spc' = Woken
  BY DEF InvokeThreadEnd
<1>12. instanceCount' = instanceCount - 1
  BY DEF InvokeThreadEnd
<1>20. ServeInv'
  BY <1>1, <1>5, <1>7, <1>8, <1>12, NoInstance DEF Parts, ServeInv, Serving, Woken, Instances
<1>21. RegisteringInv'
  BY <1>1, <1>5, <1>7, <1>8, <1>12, <1>0 DEF Parts, RegisteringInv, Registering, TypeOK, ReceiveInv
<1>22. CreatingInv'
  BY <1>1, <1>5, <1>7, <1>8, <1>12, BrokerAssumption DEF Parts, CreatingInv, RegisteringInv, Registering, TypeOK, ReceiveInv
<1>23. FifoInv'
  BY <1>1, <1>5, <1>7, <1>8, <1>12, <1>0 DEF Parts, FifoInv, TypeOK, RegisteringInv, Registering, ThreadInv, ServingInv
<1>24. ServingInv'
  BY <1>1, <1>5, <1>7, <1>8, <1>12, BrokerAssumption DEF Parts, ServingInv, Woken, RegisteringInv, Registering, CreatingInv, TypeOK, ReceiveInv, ServeInv, Serving, ThreadInv
<1>25. ThreadInv'
  BY <1>1, <1>5, <1>7, <1>8, <1>12, BrokerAssumption DEF Parts, ThreadInv, RegisteringInv, Registering, CreatingInv, TypeOK, ReceiveInv
<1>26. InstanceExact'
  <2>1. Instances' = Instances \ {q}
    BY <1>5 DEF Instances
  <2>2. q \in Instances
    BY <1>5 DEF Instances
  <2>3. Instances \in SUBSET Req
    BY DEF Instances
  <2> QED BY <1>12, <2>1, <2>2, <2>3, CountRequests DEF Parts, InstanceExact
<1>27. instanceCount' \in Nat
  BY <1>26, BrokerAssumption, FS_Subset, FS_CardinalityType DEF InstanceExact, Instances
<1>28. TypeOK'
  BY <1>27, BrokerAssumption DEF Parts, InvokeThreadEnd, TypeOK, RPC, SPC, IPC, rvars, queue, object, Woken, ExecFree
<1> QED BY <1>1, <1>2, <1>20, <1>21, <1>22, <1>23, <1>24, <1>25, <1>26, <1>28 DEF Parts

\* Alarm preserves the invariant.
LEMMA AlarmInv ==
    ASSUME Parts, Alarm
    PROVE  Parts'
<1>1. UNCHANGED <<rpc, rreq, fifo, mutexCount, instanceCount, spc, sreq, stmp, ipc, received, finished>>
  BY DEF Alarm, rvars, svars, queue, counters, requests
<1>2. ReceiveInv' /\ ServeInv' /\ LockInv' /\ RegisteringInv' /\ CreatingInv' /\ FifoInv' /\ ServingInv' /\ ThreadInv' /\ InstanceExact' /\ MutexExact'
  BY <1>1, ReceiveInvFrame, ServeInvFrame, LockInvFrame, RegisteringInvFrame, CreatingInvFrame, FifoInvFrame, ServingInvFrame, ThreadInvFrame, InstanceExactFrame, MutexExactFrame DEF Parts
<1>20. TypeOK'
  BY BrokerAssumption DEF Parts, Alarm, TypeOK, RPC, SPC, IPC, rvars, svars, queue, counters, requests
<1> QED BY <1>1, <1>2, <1>20 DEF Parts

-----------------------------------------------------------------------------
(* The invariant. *)

\* The broker that Run starts with satisfies the invariant.
LEMMA InitInv == Init => Parts
<1> SUFFICES ASSUME Init PROVE Parts
  OBVIOUS
<1>1. TypeOK
  BY BrokerAssumption DEF Init, TypeOK, RPC, SPC, IPC
<1>2. ReceiveInv /\ ServeInv /\ LockInv
  BY DEF Init, ReceiveInv, ServeInv, Serving, LockInv, HoldsMutex
<1>3. RegisteringInv /\ CreatingInv
  BY DEF Init, RegisteringInv, Registering, CreatingInv
<1>4. Queued = {}
  BY DEF Init, Queued
<1>5. FifoInv /\ ServingInv /\ ThreadInv
  BY <1>4 DEF Init, FifoInv, ServingInv, ThreadInv
<1>6. InstanceExact
  <2>1. Instances = {}
    BY DEF Init, Instances
  <2> QED BY <2>1, FS_EmptySet DEF Init, InstanceExact
<1>7. MutexExact
  <2>1. Pushing = {}
    BY DEF Init, Pushing
  <2>2. PendingMutex = {}
    BY <1>4, <2>1, BrokerAssumption DEF Init, PendingMutex
  <2> QED BY <2>2, FS_EmptySet DEF Init, MutexExact
<1> QED BY <1>1, <1>2, <1>3, <1>5, <1>6, <1>7 DEF Parts

\* Every step of the broker preserves the invariant.
LEMMA NextInv == Parts /\ [Next]_vars => Parts'
<1> SUFFICES ASSUME Parts, [Next]_vars PROVE Parts'
  OBVIOUS
<1>1. ASSUME NEW r \in Rcv, ReceiveStep(r) PROVE Parts'
  BY <1>1, BroadcastInv, RegisterConcInv, RegisterMutexInv, ReceiveNewThreadInv,
     ReceiveCreateInv, ReceiveCreateFailInv, PushRequestInv, ConcLoadInv,
     ConcStoreInv, ThrottleInv, StopReceivingInv
     DEF ReceiveStep
<1>2. ASSUME NEW r \in Rcv, ClientStep(r) PROVE Parts'
  BY <1>2, OnNewConnectionInv, OnCloseConnectionInv, PopCallRefInv, PopCallKillInv,
     RegisterRequestInv DEF ClientStep
<1>3. ASSUME ServeStep PROVE Parts'
  BY <1>3, RunLoopInv, GetRequestEmptyInv, WaitRequestInv, GetRequestConcInv,
     ConcDecrementInv, GetRequestFrontInv, GetRequestMutexInv, ServeConcInv,
     ServeCreateInv, ServeCreateFailInv, ServeInvokeInv, InvokeMethodInv,
     InvokePopCallInv, ServeDoneInv, DrainStartInv, DrainInv,
     ExitInv
     DEF ServeStep
<1>4. ASSUME NEW q \in Req, InvokeStep(q) PROVE Parts'
  BY <1>4, InvokeConcInv, InvokeThreadEndInv DEF InvokeStep
<1>5. ASSUME UNCHANGED vars PROVE Parts'
  <2>1. UNCHANGED <<rvars, svars, queue, counters, ipc, object, requests>>
    BY <1>5 DEF vars
  <2>2. /\ UNCHANGED <<rpc, rreq, rcount, rtmp, fifo, pushed, spc, sreq, stmp>>
        /\ UNCHANGED <<mutexCount, concPendings, instanceCount, ipc, obj, refcount>>
        /\ UNCHANGED <<state, alive, conn, received, finished, answer>>
    BY <2>1 DEF rvars, svars, queue, counters, object, requests
  <2>3. TypeOK'
    BY <2>2 DEF Parts, TypeOK
  <2>4. /\ ReceiveInv' /\ ServeInv' /\ LockInv' /\ RegisteringInv' /\ CreatingInv'
        /\ FifoInv' /\ ServingInv' /\ ThreadInv' /\ InstanceExact' /\ MutexExact'
    BY <2>2, ReceiveInvFrame, ServeInvFrame, LockInvFrame, RegisteringInvFrame,
       CreatingInvFrame, FifoInvFrame, ServingInvFrame, ThreadInvFrame,
       InstanceExactFrame, MutexExactFrame DEF Parts
  <2> QED BY <2>3, <2>4 DEF Parts
<1> QED BY <1>1, <1>2, <1>3, <1>4, <1>5, AlarmInv DEF Next

\* IInv is an inductive invariant of the broker, for any number of receive
\* threads, connections and requests.
THEOREM Inductive == Spec => []IInv
<1>1. Init => IInv
  BY InitInv, IInvParts
<1>2. IInv /\ [Next]_vars => IInv'
  BY NextInv, IInvParts DEF IInv, UniqueInv, CountersExact, Parts
<1> QED BY <1>1, <1>2, PTL DEF Spec

\* Every variable keeps its type; in particular concPendings, loaded and stored
\* by two unsynchronised threads, never drops below zero.
THEOREM TypeCorrect == Spec => []TypeOK
<1>1. IInv => TypeOK
  BY DEF IInv
<1> QED BY <1>1, Inductive, PTL

\* mutexCount and instanceCount count the pending mutex calls and the threads
\* in every reachable state.
THEOREM CountersCorrect == Spec => []CountersExact
<1>1. IInv => CountersExact
  BY DEF IInv
<1> QED BY <1>1, Inductive, PTL

\* In a state of the invariant a mutex method executes alone.
LEMMA Exclusion == Parts => MutexExclusion
<1> SUFFICES ASSUME Parts, NEW p \in Req, NEW q \in Req,
                    Executing(p), Executing(q), p # q, Kind[p] = "mutex"
             PROVE  FALSE
  BY DEF MutexExclusion
<1>1. spc = "exec" /\ sreq = p
  BY DEF Parts, Executing, ThreadInv
<1>2. ipc[q] = "running"
  BY <1>1 DEF Executing
<1>3. instanceCount = 0
  BY <1>1 DEF Parts, ServeInv
<1>4. Instances = {}
  BY <1>3, NoInstance DEF Parts
<1> QED BY <1>2, <1>4 DEF Instances

\* A mutex method executes alone, whichever threads registered and started the
\* other calls.
THEOREM MutexAlone == Spec => []MutexExclusion
<1>1. IInv => MutexExclusion
  BY Exclusion, IInvParts
<1> QED BY <1>1, Inductive, PTL

-----------------------------------------------------------------------------
(* The broker implements Invocation: Active and Ended are the refinement     *)
(* mapping.  Each action starts, ends or refuses one invocation, or leaves   *)
(* both sets alone.                                                          *)

AbstractStep == Abstract!Next \/ UNCHANGED <<Active, Ended>>

\* A step that leaves threads, finished requests and the executed request
\* alone is invisible.
LEMMA Invisible ==
    /\ UNCHANGED <<ipc, finished>>
    /\ \/ UNCHANGED sreq /\ (spc' = spc \/ spc' = Woken)
       \/ {spc, spc'} \cap {"exec", "done"} = {}
    => UNCHANGED <<Active, Ended>>
<1> SUFFICES ASSUME UNCHANGED <<ipc, finished>>,
                    \/ UNCHANGED sreq /\ (spc' = spc \/ spc' = Woken)
                    \/ {spc, spc'} \cap {"exec", "done"} = {}
             PROVE  UNCHANGED <<Active, Ended>>
  OBVIOUS
<1>1. \A q \in Req : /\ (spc' = "exec" /\ sreq' = q) <=> (spc = "exec" /\ sreq = q)
                     /\ (spc' = "done" /\ sreq' = q) <=> (spc = "done" /\ sreq = q)
  BY DEF Woken
<1> QED BY <1>1 DEF Active, Executing, Ended, HasEnded

\* What executes besides a request that is about to start is a concurrent
\* invocation, or the request of the serving thread.
LEMMA ActiveKind ==
    ASSUME Parts, NEW p \in Active
    PROVE  p \in Req /\ (Kind[p] = "conc" \/ (spc = "exec" /\ p = sreq))
  BY DEF Parts, Active, Executing, ThreadInv

\* A request that is answered without executing is refused.
LEMMA RefuseStep ==
    ASSUME NEW q \in Req, q \notin Active, q \notin Ended,
           Active' = Active, Ended' = Ended \cup {q}
    PROVE  AbstractStep
  BY DEF AbstractStep, Abstract!Next, Abstract!Refuse

\* A core call that PopCall serves is refused.
LEMMA PopCallRefines ==
    ASSUME Parts, NEW r \in Rcv, NEW q \in Req, PopCallRef(r, q) \/ PopCallKill(r, q)
    PROVE  AbstractStep
<1>1. UNCHANGED <<spc, sreq, ipc>> /\ finished' = finished \cup {q}
  BY DEF PopCallRef, PopCallKill, svars
<1>2. q \notin received
  BY DEF PopCallRef, PopCallKill, ReceiveRequest, Sendable
<1>3. ipc[q] = "none" /\ q \notin finished /\ sreq # q
  BY <1>2, BrokerAssumption DEF Parts, ThreadInv, ServingInv
<1>4. Active' = Active /\ q \notin Active
  BY <1>1, <1>3 DEF Active, Executing
<1>5. Ended' = Ended \cup {q} /\ q \notin Ended
  BY <1>1, <1>3 DEF Ended, HasEnded
<1> QED BY <1>4, <1>5, RefuseStep

\* The thread created by a receive thread starts its invocation: there is no
\* mutex call, or the request would have been queued.
LEMMA ReceiveCreateRefines ==
    ASSUME Parts, NEW r \in Rcv, ReceiveCreate(r)
    PROVE  AbstractStep
<1> DEFINE q == rreq[r]
<1>1. rpc[r] = "create" /\ q \in Req /\ Kind[q] = "conc" /\ mutexCount = 0
  BY DEF Parts, TypeOK, ReceiveInv, ReceiveCreate
<1>2. /\ UNCHANGED <<spc, sreq, finished>> /\ ipc[q] = "new" /\ ipc'[q] = "running"
      /\ \A p \in Req : p # q => ipc'[p] = ipc[p]
  BY <1>1 DEF Parts, TypeOK, CreatingInv, ReceiveCreate, svars, requests
<1>3. sreq # q /\ q \notin finished
  BY <1>1, <1>2 DEF Parts, CreatingInv, ThreadInv
<1> HIDE DEF q
<1>4. Active' = Active \cup {q} /\ q \notin Active
  BY <1>1, <1>2, <1>3 DEF Active, Executing
<1>5. Ended' = Ended /\ q \notin Ended
  BY <1>1, <1>2, <1>3 DEF Ended, HasEnded
<1>6. ASSUME NEW p \in Active PROVE Kind[p] # "mutex"
  <2>1. CASE Kind[p] = "conc"
    BY <2>1
  <2>2. CASE spc = "exec" /\ p = sreq
    <3>1. sreq # None
      BY <2>2, ActiveKind, BrokerAssumption
    <3> QED BY <1>1, <2>2, <3>1, ServedMutexCounted
  <2> QED BY <2>1, <2>2, ActiveKind
<1>7. Abstract!Start(q)
  BY <1>1, <1>4, <1>5, <1>6 DEF Abstract!Start, Abstract!Compatible
<1> QED BY <1>1, <1>7 DEF AbstractStep, Abstract!Next

\* A concurrent call for which no thread could be created is refused.
LEMMA ReceiveCreateFailRefines ==
    ASSUME Parts, NEW r \in Rcv, ReceiveCreateFail(r)
    PROVE  AbstractStep
<1> DEFINE q == rreq[r]
<1>1. rpc[r] = "create" /\ q \in Req
  BY DEF Parts, TypeOK, ReceiveInv, ReceiveCreateFail
<1>2. /\ UNCHANGED sreq /\ spc' = Woken /\ finished' = finished \cup {q}
      /\ ipc[q] = "new" /\ ipc'[q] = "deleted"
      /\ \A p \in Req : p # q => ipc'[p] = ipc[p]
  BY <1>1 DEF Parts, TypeOK, CreatingInv, ReceiveCreateFail, CreateFailed
<1>3. sreq # q /\ q \notin finished
  BY <1>1, <1>2 DEF Parts, CreatingInv, ThreadInv
<1> HIDE DEF q
<1>4. \A s \in {"exec", "done"} : spc' = s <=> spc = s
  BY <1>2 DEF Woken
<1>5. Active' = Active /\ q \notin Active
  BY <1>1, <1>2, <1>3, <1>4 DEF Active, Executing
<1>6. Ended' = Ended \cup {q} /\ q \notin Ended
  BY <1>1, <1>2, <1>3, <1>4 DEF Ended, HasEnded
<1> QED BY <1>1, <1>5, <1>6, RefuseStep

\* The thread created by the serving thread starts its invocation.
LEMMA ServeCreateRefines ==
    ASSUME Parts, ServeCreate
    PROVE  AbstractStep
<1>1. spc = "create" /\ spc' = "top" /\ sreq \in Req /\ Kind[sreq] = "conc"
  BY DEF Parts, TypeOK, ServeInv, Serving, ServeCreate
<1>2. /\ UNCHANGED finished /\ ipc[sreq] = "new" /\ ipc'[sreq] = "running"
      /\ \A p \in Req : p # sreq => ipc'[p] = ipc[p]
  BY <1>1, BrokerAssumption DEF Parts, TypeOK, ServingInv, ServeCreate, requests
<1>3. sreq \notin finished
  BY <1>1, BrokerAssumption DEF Parts, ServingInv
<1>4. Active' = Active \cup {sreq} /\ sreq \notin Active
  BY <1>1, <1>2 DEF Active, Executing
<1>5. Ended' = Ended /\ sreq \notin Ended
  BY <1>1, <1>2, <1>3 DEF Ended, HasEnded
<1>6. \A p \in Active : Kind[p] = "conc"
  BY <1>1, ActiveKind
<1>7. Abstract!Start(sreq)
  BY <1>1, <1>4, <1>5, <1>6 DEF Abstract!Start, Abstract!Compatible
<1> QED BY <1>1, <1>7 DEF AbstractStep, Abstract!Next

\* A queued concurrent call for which no thread could be created is refused.
LEMMA ServeCreateFailRefines ==
    ASSUME Parts, ServeCreateFail
    PROVE  AbstractStep
<1>1. spc = "create" /\ spc' = "top" /\ sreq \in Req
  BY DEF Parts, TypeOK, ServeInv, Serving, ServeCreateFail
<1>2. /\ finished' = finished \cup {sreq}
      /\ ipc[sreq] = "new" /\ ipc'[sreq] = "deleted"
      /\ \A p \in Req : p # sreq => ipc'[p] = ipc[p]
  BY <1>1, BrokerAssumption DEF Parts, TypeOK, ServingInv, ServeCreateFail, CreateFailed
<1>3. sreq \notin finished
  BY <1>1, BrokerAssumption DEF Parts, ServingInv
<1>4. Active' = Active /\ sreq \notin Active
  BY <1>1, <1>2 DEF Active, Executing
<1>5. Ended' = Ended \cup {sreq} /\ sreq \notin Ended
  BY <1>1, <1>2, <1>3 DEF Ended, HasEnded
<1> QED BY <1>1, <1>4, <1>5, RefuseStep

\* The serving thread starts a sequential or mutex invocation; a mutex one
\* meets no thread.
LEMMA ServeInvokeRefines ==
    ASSUME Parts, ServeInvoke
    PROVE  AbstractStep
<1>1. spc = "serve" /\ spc' = "exec" /\ sreq \in Req /\ Kind[sreq] # "conc"
  BY DEF Parts, TypeOK, ServeInv, Serving, ServeInvoke
<1>2. UNCHANGED <<sreq, ipc, finished>>
  BY DEF ServeInvoke, requests
<1>3. sreq \notin finished /\ ipc[sreq] = "none"
  BY <1>1, BrokerAssumption DEF Parts, ServingInv
<1>4. Active' = Active \cup {sreq} /\ sreq \notin Active
  BY <1>1, <1>2, <1>3 DEF Active, Executing
<1>5. Ended' = Ended /\ sreq \notin Ended
  BY <1>1, <1>2, <1>3 DEF Ended, HasEnded
<1>6. \A p \in Active : Kind[p] = "conc" /\ p \in Instances
  BY <1>1, ActiveKind DEF Active, Executing, Instances
<1>7. Kind[sreq] = "mutex" => Instances = {}
  BY <1>1, NoInstance DEF Parts, ServeInv
<1>8. Abstract!Start(sreq)
  BY <1>1, <1>4, <1>5, <1>6, <1>7 DEF Abstract!Start, Abstract!Compatible
<1> QED BY <1>1, <1>8 DEF AbstractStep, Abstract!Next

\* The invocation of the serving thread ends.
LEMMA InvokeRefines ==
    ASSUME Parts, InvokeMethod \/ InvokePopCall
    PROVE  AbstractStep
<1>1. spc = "exec" /\ spc' = "done" /\ sreq \in Req /\ UNCHANGED <<sreq, ipc, finished>>
  BY DEF Parts, TypeOK, ServeInv, Serving, InvokeMethod, InvokePopCall
<1>2. ipc[sreq] = "none"
  BY <1>1, BrokerAssumption DEF Parts, ServingInv
<1>3. Active' = Active \ {sreq} /\ sreq \in Active
  BY <1>1, <1>2 DEF Active, Executing
<1>4. Ended' = Ended \cup {sreq}
  BY <1>1, <1>2 DEF Ended, HasEnded
<1> QED BY <1>1, <1>3, <1>4 DEF AbstractStep, Abstract!Next, Abstract!End

\* The invocation of a thread ends.
LEMMA InvokeConcRefines ==
    ASSUME Parts, NEW q \in Req, InvokeConc(q)
    PROVE  AbstractStep
<1>1. /\ UNCHANGED <<spc, sreq, finished>> /\ ipc[q] = "running" /\ ipc'[q] = "ended"
      /\ \A p \in Req : p # q => ipc'[p] = ipc[p]
  BY DEF Parts, TypeOK, InvokeConc, svars
<1>2. ~(spc \in {"exec", "done"} /\ sreq = q)
  BY <1>1, BrokerAssumption DEF Parts, ServingInv
<1>3. Active' = Active \ {q} /\ q \in Active
  BY <1>1, <1>2 DEF Active, Executing
<1>4. Ended' = Ended \cup {q}
  BY <1>1, <1>2 DEF Ended, HasEnded
<1> QED BY <1>3, <1>4 DEF AbstractStep, Abstract!Next, Abstract!End

\* Deleting the request of an invocation that has ended is invisible.
LEMMA InvokeThreadEndRefines ==
    ASSUME Parts, NEW q \in Req, InvokeThreadEnd(q)
    PROVE  UNCHANGED <<Active, Ended>>
<1>1. /\ UNCHANGED sreq /\ spc' = Woken /\ finished' = finished \cup {q}
      /\ ipc[q] = "ended" /\ ipc'[q] = "deleted"
      /\ \A p \in Req : p # q => ipc'[p] = ipc[p]
  BY DEF Parts, TypeOK, InvokeThreadEnd
<1>2. \A s \in {"exec", "done"} : spc' = s <=> spc = s
  BY <1>1 DEF Woken
<1>3. Active' = Active
  BY <1>1, <1>2 DEF Active, Executing
<1>4. Ended' = Ended
  BY <1>1, <1>2 DEF Ended, HasEnded
<1> QED BY <1>3, <1>4

\* So it is for the serving thread.
LEMMA ServeDoneRefines ==
    ASSUME Parts, ServeDone
    PROVE  UNCHANGED <<Active, Ended>>
<1>1. /\ spc = "done" /\ spc' \in {"top", "drain"}
      /\ UNCHANGED ipc /\ finished' = finished \cup {sreq}
  BY DEF ServeDone
<1>2. Active' = Active
  BY <1>1 DEF Active, Executing
<1>3. Ended' = Ended
  BY <1>1 DEF Ended, HasEnded
<1> QED BY <1>2, <1>3

\* The other steps of the receive threads and of the clients are invisible.
LEMMA ReceiveInvisible ==
    ASSUME NEW r \in Rcv,
           \/ Broadcast(r) \/ RegisterConc(r) \/ RegisterMutex(r)
           \/ PushRequest(r) \/ ConcLoad(r) \/ ConcStore(r)
           \/ Throttle(r) \/ StopReceiving(r)
           \/ \E c \in Conn : OnNewConnection(r, c) \/ OnCloseConnection(r, c)
           \/ \E q \in Req : RegisterRequest(r, q)
    PROVE  UNCHANGED <<Active, Ended>>
<1>1. UNCHANGED <<ipc, finished, sreq>> /\ (spc' = spc \/ spc' = Woken)
  BY DEF Broadcast, RegisterConc, RegisterMutex, PushRequest, ConcLoad, ConcStore,
         Throttle, StopReceiving, OnNewConnection, OnCloseConnection,
         RegisterRequest, svars, requests
<1> QED BY <1>1, Invisible

\* Creating the object of a thread is invisible: the thread does not run yet.
LEMMA NewThreadInvisible ==
    ASSUME Parts, (\E r \in Rcv : ReceiveNewThread(r)) \/ ServeConc
    PROVE  UNCHANGED <<Active, Ended>>
<1>1. PICK q \in Req : /\ ipc[q] = "none" /\ ipc'[q] = "new"
                       /\ \A p \in Req : p # q => ipc'[p] = ipc[p]
  <2>1. ASSUME NEW r \in Rcv, ReceiveNewThread(r)
        PROVE  /\ rreq[r] \in Req /\ ipc[rreq[r]] = "none" /\ ipc'[rreq[r]] = "new"
               /\ \A p \in Req : p # rreq[r] => ipc'[p] = ipc[p]
    BY <2>1 DEF Parts, TypeOK, ReceiveInv, RegisteringInv, Registering, ReceiveNewThread
  <2>2. ASSUME ServeConc
        PROVE  /\ sreq \in Req /\ ipc[sreq] = "none" /\ ipc'[sreq] = "new"
               /\ \A p \in Req : p # sreq => ipc'[p] = ipc[p]
    BY <2>2, BrokerAssumption DEF Parts, TypeOK, ServeInv, Serving, ServingInv, ServeConc
  <2> QED BY <2>1, <2>2
<1>2. /\ UNCHANGED <<sreq, finished>>
      /\ spc' = spc \/ (spc = "serve" /\ spc' = "create")
  BY DEF ReceiveNewThread, ServeConc, svars, requests
<1>3. Active' = Active
  BY <1>1, <1>2 DEF Active, Executing
<1>4. Ended' = Ended
  BY <1>1, <1>2 DEF Ended, HasEnded
<1> QED BY <1>3, <1>4

\* GetRequest, the loop of Run and its end are invisible.
LEMMA ServeInvisible ==
    ASSUME \/ RunLoop \/ GetRequestEmpty \/ WaitRequest \/ GetRequestConc
           \/ ConcDecrement \/ GetRequestFront \/ GetRequestMutex
           \/ DrainStart \/ Drain \/ Exit \/ Alarm \/ UNCHANGED vars
    PROVE  UNCHANGED <<Active, Ended>>
<1>1. UNCHANGED <<ipc, finished>>
  BY DEF RunLoop, GetRequestEmpty, WaitRequest, GetRequestConc, ConcDecrement,
         GetRequestFront, GetRequestMutex, DrainStart, Drain, Exit, Alarm,
         vars, requests
<1>2. (UNCHANGED sreq /\ spc' = spc) \/ {spc, spc'} \cap {"exec", "done"} = {}
  BY DEF RunLoop, GetRequestEmpty, WaitRequest, GetRequestConc, ConcDecrement,
         GetRequestFront, GetRequestMutex, DrainStart, Drain, Exit, Alarm,
         vars, svars
<1> QED BY <1>1, <1>2, Invisible

\* The broker implements the invocation semantics: each of its steps starts,
\* ends or refuses one invocation the way Invocation allows, or none.
THEOREM Refinement == Spec => ImplementsInvocation
<1>1. Init => Abstract!Init
  BY BrokerAssumption DEF Init, Abstract!Init, Active, Ended, Executing, HasEnded
<1>2. ASSUME Parts, [Next]_vars PROVE AbstractStep
  <2>1. ASSUME NEW r \in Rcv, ReceiveStep(r) PROVE AbstractStep
    BY <1>2, <2>1, ReceiveInvisible, NewThreadInvisible, ReceiveCreateRefines,
       ReceiveCreateFailRefines DEF ReceiveStep, AbstractStep
  <2>2. ASSUME NEW r \in Rcv, ClientStep(r) PROVE AbstractStep
    BY <1>2, <2>2, ReceiveInvisible, PopCallRefines DEF ClientStep, AbstractStep
  <2>3. ASSUME ServeStep PROVE AbstractStep
    BY <1>2, <2>3, ServeInvisible, NewThreadInvisible, ServeCreateRefines,
       ServeCreateFailRefines, ServeInvokeRefines, InvokeRefines,
       ServeDoneRefines DEF ServeStep, AbstractStep
  <2>4. ASSUME NEW q \in Req, InvokeStep(q) PROVE AbstractStep
    BY <1>2, <2>4, InvokeConcRefines, InvokeThreadEndRefines DEF InvokeStep, AbstractStep
  <2>5. ASSUME Alarm \/ UNCHANGED vars PROVE AbstractStep
    BY <2>5, ServeInvisible DEF AbstractStep
  <2> QED BY <1>2, <2>1, <2>2, <2>3, <2>4, <2>5 DEF Next
<1>3. IInv /\ [Next]_vars => [Abstract!Next]_<<Active, Ended>>
  BY <1>2, IInvParts DEF AbstractStep
<1> QED BY <1>1, <1>3, Inductive, PTL DEF Spec, ImplementsInvocation, Abstract!Spec

-----------------------------------------------------------------------------
(* The order and the accounting of requests: no request is lost or in two  *)
(* places, none overtakes a barrier, and a normal end leaves nothing       *)
(* behind.  IInv says that no request is in two places; what is added here *)
(* is that every request is in one, and the order of the queue.            *)

\* The requests that a receive thread registers.
Regs == {q \in Req : \E r \in Rcv : Registering(r) /\ rreq[r] = q}

\* Where a request can be.
Held == finished \cup Queued \cup Instances \cup Regs \cup {sreq}

\* Every received request is somewhere.
Somewhere == received \subseteq Held

\* Every request is queued at most once, after its registration.
PushedInv ==
    /\ \A i, j \in 1..Len(pushed) : pushed[i] = pushed[j] => i = j
    /\ \A i \in 1..Len(pushed) : pushed[i] \in received /\ pushed[i] \notin Regs
    /\ \A q \in Queued : \E i \in 1..Len(pushed) : pushed[i] = q

\* The queue keeps the order in which the requests entered it.
FifoOrder ==
    \A a, b \in 1..Len(fifo), i, j \in 1..Len(pushed) :
        a < b /\ pushed[i] = fifo[a] /\ pushed[j] = fifo[b] => i < j

\* When a request has left the queue, those it may not overtake have left it
\* too, and they are finished unless they are concurrent.
BarrierInv ==
    \A i, j \in 1..Len(pushed) :
        i < j /\ Barrier(pushed[i], pushed[j]) /\ pushed[j] \notin Queued =>
            pushed[i] \notin Queued /\ (Kind[pushed[i]] # "conc" => pushed[i] \in finished)

OrderInv == Somewhere /\ PushedInv /\ FifoOrder /\ BarrierInv

-----------------------------------------------------------------------------
(* Every step keeps a received request somewhere. *)

\* The steps of receive threads that move no request.
LEMMA ReceiveKeeps ==
    ASSUME Parts, NEW r \in Rcv,
           \/ Broadcast(r) \/ RegisterConc(r) \/ RegisterMutex(r)
           \/ ConcLoad(r) \/ ConcStore(r) \/ Throttle(r) \/ StopReceiving(r)
           \/ \E c \in Conn : OnNewConnection(r, c) \/ OnCloseConnection(r, c)
    PROVE  /\ UNCHANGED <<received, finished, fifo, pushed, sreq, ipc>>
           /\ Regs' = Regs
<1>1. UNCHANGED <<received, finished, fifo, pushed, sreq, ipc>>
  BY DEF Broadcast, RegisterConc, RegisterMutex, ConcLoad, ConcStore, Throttle,
         StopReceiving, OnNewConnection, OnCloseConnection, requests, queue, svars
<1>2. /\ \A x \in Rcv : x # r => rpc'[x] = rpc[x] /\ rreq'[x] = rreq[x]
      /\ Registering(r)' <=> Registering(r)
      /\ Registering(r) => rreq'[r] = rreq[r]
  BY DEF Parts, TypeOK, Broadcast, RegisterConc, RegisterMutex, ConcLoad, ConcStore,
         Throttle, StopReceiving, OnNewConnection, OnCloseConnection, rvars, rlocals,
         NextIteration, Registering
<1>3. \A x \in Rcv : Registering(x)' <=> Registering(x)
  BY <1>2 DEF Registering
<1>4. Regs' = Regs
  BY <1>2, <1>3 DEF Regs
<1> QED BY <1>1, <1>4

\* The steps of the serving thread that move no request.
LEMMA ServeKeeps ==
    ASSUME \/ RunLoop \/ GetRequestEmpty \/ WaitRequest \/ ConcDecrement
           \/ GetRequestMutex \/ ServeInvoke \/ InvokeMethod \/ InvokePopCall
           \/ DrainStart \/ Drain \/ Exit \/ Alarm \/ UNCHANGED vars
    PROVE  /\ UNCHANGED <<received, finished, fifo, pushed, sreq, ipc>>
           /\ Regs' = Regs
<1>1. UNCHANGED <<received, finished, fifo, pushed, sreq, ipc, rpc, rreq>>
  BY DEF RunLoop, GetRequestEmpty, WaitRequest, ConcDecrement, GetRequestMutex,
         ServeInvoke, InvokeMethod, InvokePopCall, DrainStart, Drain, Exit, Alarm,
         vars, requests, queue, svars, rvars
<1> QED BY <1>1 DEF Regs, Registering

\* PopCall finishes the request it receives.
LEMMA PopCallMoves ==
    ASSUME Parts, NEW r \in Rcv, NEW q \in Req, PopCallRef(r, q) \/ PopCallKill(r, q)
    PROVE  /\ UNCHANGED <<fifo, pushed, sreq, ipc>> /\ Regs' = Regs
           /\ received' = received \cup {q} /\ finished' = finished \cup {q}
<1>1. /\ UNCHANGED <<fifo, pushed, sreq, ipc, rreq>>
      /\ received' = received \cup {q} /\ finished' = finished \cup {q}
      /\ rpc' = rpc \/ rpc' = [rpc EXCEPT ![r] = "bcast"]
      /\ rpc[r] = "recv"
  BY DEF PopCallRef, PopCallKill, ReceiveRequest, svars, queue, rvars, rlocals
<1>2. \A x \in Rcv : Registering(x)' <=> Registering(x)
  BY <1>1 DEF Parts, TypeOK, Registering
<1> QED BY <1>1, <1>2 DEF Regs

\* RegisterRequest gives the request to its receive thread.
LEMMA RegisterMoves ==
    ASSUME Parts, NEW r \in Rcv, NEW q \in Req, RegisterRequest(r, q)
    PROVE  /\ UNCHANGED <<fifo, pushed, sreq, ipc, finished>> /\ Regs' = Regs \cup {q}
           /\ received' = received \cup {q} /\ q \notin received
<1>1. /\ UNCHANGED <<fifo, pushed, sreq, ipc, finished>>
      /\ received' = received \cup {q} /\ q \notin received
      /\ rpc[r] = "recv" /\ rpc'[r] \in {"push", "reg"} /\ rreq'[r] = q
      /\ \A x \in Rcv : x # r => rpc'[x] = rpc[x] /\ rreq'[x] = rreq[x]
  BY DEF Parts, TypeOK, RegisterRequest, ReceiveRequest, Sendable, svars, queue
<1>2. /\ ~Registering(r) /\ Registering(r)'
      /\ \A x \in Rcv : x # r => (Registering(x)' <=> Registering(x))
  BY <1>1 DEF Registering
<1>3. \A p \in Req : p \in Regs' <=> p \in Regs \/ p = q
  BY <1>1, <1>2 DEF Regs
<1>4. Regs \subseteq Req /\ Regs' \subseteq Req
  BY DEF Regs
<1>5. Regs' = Regs \cup {q}
  BY <1>3, <1>4
<1> QED BY <1>1, <1>5

\* A receive thread that ends its registration has the only copy.
LEMMA RegisteredMoves ==
    ASSUME Parts, NEW r \in Rcv, Registering(r), ~Registering(r)',
           \A x \in Rcv : x # r => rpc'[x] = rpc[x] /\ rreq'[x] = rreq[x]
    PROVE  rreq[r] \in Req /\ Regs' = Regs \ {rreq[r]}
<1>1. rreq[r] \in Req
  BY DEF Parts, TypeOK, ReceiveInv, Registering
<1>2. \A x \in Rcv : Registering(x) /\ rreq[x] = rreq[r] => x = r
  BY DEF Parts, RegisteringInv
<1>3. \A x \in Rcv : x # r => (Registering(x)' <=> Registering(x))
  BY DEF Registering
<1>4. \A p \in Req : p \in Regs' <=> p \in Regs /\ p # rreq[r]
  BY <1>2, <1>3 DEF Regs
<1>5. Regs \subseteq Req /\ Regs' \subseteq Req
  BY DEF Regs
<1> QED BY <1>1, <1>4, <1>5

LEMMA ReceiveNewThreadMoves ==
    ASSUME Parts, NEW r \in Rcv, ReceiveNewThread(r)
    PROVE  /\ UNCHANGED <<fifo, pushed, sreq, finished, received>>
           /\ rreq[r] \in Req /\ Regs' = Regs \ {rreq[r]}
           /\ Instances' = Instances \cup {rreq[r]}
<1>1. /\ UNCHANGED <<fifo, pushed, sreq, finished, received>>
      /\ Registering(r) /\ ~Registering(r)'
      /\ \A x \in Rcv : x # r => rpc'[x] = rpc[x] /\ rreq'[x] = rreq[x]
  BY DEF Parts, TypeOK, ReceiveNewThread, queue, svars, requests, rlocals, Registering
<1>2. rreq[r] \in Req /\ Regs' = Regs \ {rreq[r]}
  BY <1>1, RegisteredMoves
<1>3. Instances' = Instances \cup {rreq[r]}
  BY <1>2 DEF Parts, TypeOK, ReceiveNewThread, Instances
<1> QED BY <1>1, <1>2, <1>3

LEMMA ReceiveCreateMoves ==
    ASSUME Parts, NEW r \in Rcv, ReceiveCreate(r)
    PROVE  /\ UNCHANGED <<fifo, pushed, sreq, finished, received>>
           /\ Regs' = Regs /\ Instances' = Instances
<1>1. /\ UNCHANGED <<fifo, pushed, sreq, finished, received>>
      /\ ~Registering(r) /\ ~Registering(r)'
      /\ \A x \in Rcv : x # r => rpc'[x] = rpc[x] /\ rreq'[x] = rreq[x]
  BY DEF Parts, TypeOK, ReceiveCreate, queue, svars, requests, Registering, NextIteration
<1>2. \A x \in Rcv : x # r => (Registering(x)' <=> Registering(x))
  BY <1>1 DEF Registering
<1>3. Regs' = Regs
  BY <1>1, <1>2 DEF Regs
<1>4. rreq[r] \in Req /\ ipc[rreq[r]] = "new"
  BY DEF Parts, TypeOK, ReceiveInv, CreatingInv, ReceiveCreate
<1>5. Instances' = Instances
  BY <1>4 DEF Parts, TypeOK, ReceiveCreate, Instances
<1> QED BY <1>1, <1>3, <1>5

LEMMA ReceiveCreateFailMoves ==
    ASSUME Parts, NEW r \in Rcv, ReceiveCreateFail(r)
    PROVE  /\ UNCHANGED <<fifo, pushed, sreq, received>> /\ Regs' = Regs
           /\ rreq[r] \in Req /\ finished' = finished \cup {rreq[r]}
           /\ Instances' = Instances \ {rreq[r]}
<1>1. /\ UNCHANGED <<fifo, pushed, sreq, received>> /\ finished' = finished \cup {rreq[r]}
      /\ ~Registering(r) /\ ~Registering(r)'
      /\ \A x \in Rcv : x # r => rpc'[x] = rpc[x] /\ rreq'[x] = rreq[x]
  BY DEF Parts, TypeOK, ReceiveCreateFail, CreateFailed, queue, Registering, NextIteration
<1>2. \A x \in Rcv : x # r => (Registering(x)' <=> Registering(x))
  BY <1>1 DEF Registering
<1>3. Regs' = Regs
  BY <1>1, <1>2 DEF Regs
<1>4. rreq[r] \in Req
  BY DEF Parts, TypeOK, ReceiveInv, ReceiveCreateFail
<1>5. Instances' = Instances \ {rreq[r]}
  BY <1>4 DEF Parts, TypeOK, ReceiveCreateFail, CreateFailed, Instances
<1> QED BY <1>1, <1>3, <1>4, <1>5

LEMMA PushMoves ==
    ASSUME Parts, NEW r \in Rcv, PushRequest(r)
    PROVE  /\ UNCHANGED <<sreq, ipc, finished, received>>
           /\ rreq[r] \in Req /\ Regs' = Regs \ {rreq[r]} /\ rreq[r] \in Regs
           /\ rreq[r] \in received
           /\ fifo' = Append(fifo, rreq[r]) /\ pushed' = Append(pushed, rreq[r])
           /\ Queued' = Queued \cup {rreq[r]} /\ rreq[r] \notin Queued
<1>1. /\ UNCHANGED <<sreq, ipc, finished, received>>
      /\ fifo' = Append(fifo, rreq[r]) /\ pushed' = Append(pushed, rreq[r])
      /\ Registering(r) /\ ~Registering(r)'
      /\ \A x \in Rcv : x # r => rpc'[x] = rpc[x] /\ rreq'[x] = rreq[x]
  BY DEF Parts, TypeOK, PushRequest, requests, Registering
<1>2. rreq[r] \in Req /\ Regs' = Regs \ {rreq[r]}
  BY <1>1, RegisteredMoves
<1>3. rreq[r] \in Regs
  BY <1>1, <1>2 DEF Regs
<1>4. rreq[r] \in received /\ rreq[r] \notin Queued
  BY <1>1 DEF Parts, RegisteringInv
<1>5. /\ Len(fifo') = Len(fifo) + 1 /\ Len(fifo) \in Nat /\ fifo'[Len(fifo) + 1] = rreq[r]
      /\ \A k \in 1..Len(fifo) : fifo'[k] = fifo[k]
  BY <1>1, <1>2 DEF Parts, TypeOK
<1>6. Queued' = Queued \cup {rreq[r]}
  <2>1. \A p \in Req : p \in Queued' <=> p \in Queued \/ p = rreq[r]
    BY <1>2, <1>5 DEF Queued
  <2>2. Queued \subseteq Req /\ Queued' \subseteq Req
    BY DEF Queued
  <2> QED BY <1>2, <2>1, <2>2
<1> QED BY <1>1, <1>2, <1>3, <1>4, <1>6

\* GetRequest, in both ways, takes a request out of the queue.
LEMMA GetRequestTakes ==
    ASSUME Parts, GetRequestConc \/ GetRequestFront
    PROVE  /\ UNCHANGED <<pushed, ipc, finished, received>> /\ Regs' = Regs
           /\ sreq = None
           /\ \E i \in 1..Len(fifo) :
                /\ Taken(i)
                /\ \/ GetRequestConc /\ i \in ConcAhead
                   \/ i = 1
<1>1. UNCHANGED <<pushed, ipc, finished, received>> /\ Regs' = Regs
  BY DEF GetRequestConc, GetRequestFront, requests, rvars, Regs, Registering
<1>2. sreq = None
  BY DEF Parts, ServeInv, Serving, GetRequestConc, GetRequestFront
<1>3. fifo \in Seq(Req) /\ Len(fifo) \in Nat
  BY DEF Parts, TypeOK
<1>4. ASSUME GetRequestConc
      PROVE  \E i \in 1..Len(fifo) : Taken(i) /\ i \in ConcAhead
  <2>1. PICK i \in ConcAhead : sreq' = fifo[i] /\ fifo' = Erase(fifo, i)
    BY <1>4 DEF GetRequestConc
  <2>2. i \in 1..Len(fifo)
    BY DEF ConcAhead
  <2> QED BY <1>3, <2>1, <2>2, EraseRequest DEF Taken
<1>5. ASSUME GetRequestFront
      PROVE  1 \in 1..Len(fifo) /\ Taken(1)
  <2>1. fifo # <<>> /\ sreq' = Head(fifo) /\ fifo' = Tail(fifo)
    BY <1>5 DEF GetRequestFront
  <2>2. 1 \in 1..Len(fifo) /\ sreq' = fifo[1]
    BY <1>3, <2>1
  <2>3. fifo' \in Seq(Req) /\ Len(fifo') = Len(fifo) - 1
    BY <1>3, <2>1
  <2>4. \A k \in 1..(Len(fifo) - 1) : fifo'[k] = fifo[k + 1]
    BY <1>3, <2>1
  <2> QED BY <1>3, <2>2, <2>3, <2>4 DEF Taken
<1> QED BY <1>1, <1>2, <1>4, <1>5

\* Where the elements of the queue come from when one is taken out.
LEMMA TakenPlaces ==
    ASSUME Parts, NEW i \in 1..Len(fifo), Taken(i)
    PROVE  /\ fifo[i] \in Req /\ sreq' = fifo[i] /\ Len(fifo) \in Nat
           /\ Queued = Queued' \cup {fifo[i]} /\ fifo[i] \notin Queued'
           /\ \A a, b \in 1..Len(fifo') : a < b =>
                 \E c, d \in 1..Len(fifo) : c < d /\ fifo'[a] = fifo[c] /\ fifo'[b] = fifo[d]
<1>1. /\ fifo \in Seq(Req) /\ Len(fifo) \in Nat /\ fifo[i] \in Req /\ sreq' = fifo[i]
      /\ Len(fifo') = Len(fifo) - 1
      /\ \A k \in 1..(Len(fifo) - 1) : fifo'[k] = IF k < i THEN fifo[k] ELSE fifo[k + 1]
      /\ \A j, k \in 1..Len(fifo) : fifo[j] = fifo[k] => j = k
  BY DEF Parts, TypeOK, Taken, FifoInv
<1> DEFINE Old(k) == IF k < i THEN k ELSE k + 1
           New(k) == IF k < i THEN k ELSE k - 1
<1>2. \A k \in 1..Len(fifo') : Old(k) \in 1..Len(fifo) /\ Old(k) # i /\ fifo'[k] = fifo[Old(k)]
  BY <1>1
<1>3. \A k \in 1..Len(fifo) : k # i => New(k) \in 1..Len(fifo') /\ Old(New(k)) = k
  BY <1>1
<1>4. \A a, b \in 1..Len(fifo') : a < b => Old(a) < Old(b)
  BY <1>1
<1> HIDE DEF Old, New
<1>5. \A k \in 1..Len(fifo) : k # i => New(k) \in 1..Len(fifo') /\ fifo'[New(k)] = fifo[k]
  BY <1>2, <1>3
<1>6. Queued = Queued' \cup {fifo[i]} /\ fifo[i] \notin Queued'
  <2>1. \A q \in Req : q \in Queued <=> q \in Queued' \/ q = fifo[i]
    BY <1>1, <1>2, <1>5 DEF Queued
  <2>2. fifo[i] \notin Queued'
    BY <1>1, <1>2 DEF Queued
  <2>3. Queued \subseteq Req /\ Queued' \subseteq Req
    BY DEF Queued
  <2> QED BY <1>1, <2>1, <2>2, <2>3
<1> QED BY <1>1, <1>2, <1>4, <1>6

LEMMA ServeConcMoves ==
    ASSUME Parts, ServeConc
    PROVE  /\ UNCHANGED <<fifo, pushed, sreq, finished, received>> /\ Regs' = Regs
           /\ sreq \in Req /\ Instances' = Instances \cup {sreq}
<1>1. UNCHANGED <<fifo, pushed, sreq, finished, received, rpc, rreq>>
  BY DEF ServeConc, queue, requests, rvars
<1>2. sreq \in Req
  BY DEF Parts, TypeOK, ServeInv, Serving, ServeConc
<1>3. Instances' = Instances \cup {sreq}
  BY <1>2 DEF Parts, TypeOK, ServeConc, Instances
<1> QED BY <1>1, <1>2, <1>3 DEF Regs, Registering

LEMMA ServeCreateMoves ==
    ASSUME Parts, ServeCreate
    PROVE  /\ UNCHANGED <<fifo, pushed, finished, received>> /\ Regs' = Regs
           /\ sreq \in Instances /\ Instances' = Instances
<1>1. UNCHANGED <<fifo, pushed, finished, received, rpc, rreq>>
  BY DEF ServeCreate, queue, requests, rvars
<1>2. sreq \in Req /\ ipc[sreq] = "new"
  BY BrokerAssumption DEF Parts, TypeOK, ServeInv, Serving, ServingInv, ServeCreate
<1>3. Instances' = Instances
  BY <1>2 DEF Parts, TypeOK, ServeCreate, Instances
<1> QED BY <1>1, <1>2, <1>3 DEF Regs, Registering, Instances

LEMMA ServeCreateFailMoves ==
    ASSUME Parts, ServeCreateFail
    PROVE  /\ UNCHANGED <<fifo, pushed, received>> /\ Regs' = Regs
           /\ sreq \in Req /\ finished' = finished \cup {sreq}
           /\ Instances' = Instances \ {sreq}
<1>1. UNCHANGED <<fifo, pushed, received, rpc, rreq>> /\ finished' = finished \cup {sreq}
  BY DEF ServeCreateFail, CreateFailed, queue, rvars
<1>2. sreq \in Req
  BY DEF Parts, TypeOK, ServeInv, Serving, ServeCreateFail
<1>3. Instances' = Instances \ {sreq}
  BY <1>2 DEF Parts, TypeOK, ServeCreateFail, CreateFailed, Instances
<1> QED BY <1>1, <1>2, <1>3 DEF Regs, Registering

LEMMA ServeDoneMoves ==
    ASSUME ServeDone
    PROVE  /\ UNCHANGED <<fifo, pushed, received, ipc>> /\ Regs' = Regs
           /\ finished' = finished \cup {sreq}
<1>1. UNCHANGED <<fifo, pushed, received, ipc, rpc, rreq>> /\ finished' = finished \cup {sreq}
  BY DEF ServeDone, queue, rvars
<1> QED BY <1>1 DEF Regs, Registering

LEMMA InvokeMoves ==
    ASSUME Parts, NEW q \in Req, InvokeConc(q) \/ InvokeThreadEnd(q)
    PROVE  /\ UNCHANGED <<fifo, pushed, received, sreq>> /\ Regs' = Regs
           /\ \/ finished' = finished /\ Instances' = Instances
              \/ finished' = finished \cup {q} /\ Instances' = Instances \ {q}
<1>1. UNCHANGED <<fifo, pushed, received, sreq, rpc, rreq>>
  BY DEF InvokeConc, InvokeThreadEnd, queue, rvars, svars
<1>2. CASE InvokeConc(q)
  <2>1. finished' = finished /\ Instances' = Instances
    BY <1>2 DEF Parts, TypeOK, InvokeConc, Instances
  <2> QED BY <1>1, <2>1 DEF Regs, Registering
<1>3. CASE InvokeThreadEnd(q)
  <2>1. finished' = finished \cup {q} /\ Instances' = Instances \ {q}
    BY <1>3 DEF Parts, TypeOK, InvokeThreadEnd, Instances
  <2> QED BY <1>1, <2>1 DEF Regs, Registering
<1> QED BY <1>2, <1>3

-----------------------------------------------------------------------------
(* The steps that leave the queue alone. *)

\* Such a step registers only new requests and loses none.
QueueKept ==
    /\ UNCHANGED <<fifo, pushed>>
    /\ received \subseteq received' /\ finished \subseteq finished'
    /\ Regs' \cap received \subseteq Regs
    /\ received' \subseteq Held'

\* What such a step preserves.
LEMMA OrderFrame == OrderInv /\ QueueKept => OrderInv'
<1> SUFFICES ASSUME OrderInv, QueueKept PROVE OrderInv'
  OBVIOUS
<1>1. UNCHANGED <<fifo, pushed, Queued>>
  BY DEF QueueKept, Queued
<1>2. Somewhere'
  BY DEF QueueKept, Somewhere
<1>3. PushedInv'
  BY <1>1 DEF OrderInv, PushedInv, QueueKept
<1>4. FifoOrder'
  BY <1>1 DEF OrderInv, FifoOrder
<1>5. BarrierInv'
  BY <1>1 DEF OrderInv, BarrierInv, QueueKept
<1> QED BY <1>2, <1>3, <1>4, <1>5 DEF OrderInv

\* The steps of the receive threads.
LEMMA ReceiveQueueKept ==
    ASSUME Parts, Somewhere, NEW r \in Rcv, ReceiveStep(r) \/ ClientStep(r), ~PushRequest(r)
    PROVE  QueueKept
<1>2. CASE \/ Broadcast(r) \/ RegisterConc(r) \/ RegisterMutex(r)
           \/ ConcLoad(r) \/ ConcStore(r) \/ Throttle(r) \/ StopReceiving(r)
           \/ \E c \in Conn : OnNewConnection(r, c) \/ OnCloseConnection(r, c)
  <2>1. UNCHANGED <<received, finished, fifo, pushed, sreq, ipc>> /\ Regs' = Regs
    BY <1>2, ReceiveKeeps
  <2> QED BY <2>1 DEF QueueKept, Somewhere, Held, Queued, Instances
<1>3. ASSUME NEW q \in Req, PopCallRef(r, q) \/ PopCallKill(r, q)
      PROVE  QueueKept
  <2>1. /\ UNCHANGED <<fifo, pushed, sreq, ipc>> /\ Regs' = Regs
        /\ received' = received \cup {q} /\ finished' = finished \cup {q}
    BY <1>3, PopCallMoves
  <2> QED BY <2>1 DEF QueueKept, Somewhere, Held, Queued, Instances
<1>4. ASSUME NEW q \in Req, RegisterRequest(r, q)
      PROVE  QueueKept
  <2>1. /\ UNCHANGED <<fifo, pushed, sreq, ipc, finished>> /\ Regs' = Regs \cup {q}
        /\ received' = received \cup {q} /\ q \notin received
    BY <1>4, RegisterMoves
  <2> QED BY <2>1 DEF QueueKept, Somewhere, Held, Queued, Instances
<1>5. CASE ReceiveNewThread(r)
  <2>1. /\ UNCHANGED <<fifo, pushed, sreq, finished, received>>
        /\ rreq[r] \in Req /\ Regs' = Regs \ {rreq[r]}
        /\ Instances' = Instances \cup {rreq[r]}
    BY <1>5, ReceiveNewThreadMoves
  <2>2. Queued' = Queued
    BY <2>1 DEF Queued
  <2> QED BY <2>1, <2>2 DEF QueueKept, Somewhere, Held
<1>6. CASE ReceiveCreate(r)
  <2>1. /\ UNCHANGED <<fifo, pushed, sreq, finished, received>>
        /\ Regs' = Regs /\ Instances' = Instances
    BY <1>6, ReceiveCreateMoves
  <2>2. Queued' = Queued
    BY <2>1 DEF Queued
  <2> QED BY <2>1, <2>2 DEF QueueKept, Somewhere, Held
<1>7. CASE ReceiveCreateFail(r)
  <2>1. /\ UNCHANGED <<fifo, pushed, sreq, received>> /\ Regs' = Regs
        /\ rreq[r] \in Req /\ finished' = finished \cup {rreq[r]}
        /\ Instances' = Instances \ {rreq[r]}
    BY <1>7, ReceiveCreateFailMoves
  <2>2. Queued' = Queued
    BY <2>1 DEF Queued
  <2> QED BY <2>1, <2>2 DEF QueueKept, Somewhere, Held
<1> QED BY <1>2, <1>3, <1>4, <1>5, <1>6, <1>7 DEF ReceiveStep, ClientStep

\* The steps of the serving thread and of the invocation threads.
LEMMA ServeQueueKept ==
    ASSUME Parts, Somewhere,
           \/ ServeStep /\ ~GetRequestConc /\ ~GetRequestFront
           \/ \E q \in Req : InvokeStep(q)
           \/ Alarm
           \/ UNCHANGED vars
    PROVE  QueueKept
<1>1. CASE \/ RunLoop \/ GetRequestEmpty \/ WaitRequest \/ ConcDecrement
           \/ GetRequestMutex \/ ServeInvoke \/ InvokeMethod \/ InvokePopCall
           \/ DrainStart \/ Drain \/ Exit \/ Alarm \/ UNCHANGED vars
  <2>1. UNCHANGED <<received, finished, fifo, pushed, sreq, ipc>> /\ Regs' = Regs
    BY <1>1, ServeKeeps
  <2> QED BY <2>1 DEF QueueKept, Somewhere, Held, Queued, Instances
<1>2. CASE ServeConc
  <2>1. /\ UNCHANGED <<fifo, pushed, sreq, finished, received>> /\ Regs' = Regs
        /\ sreq \in Req /\ Instances' = Instances \cup {sreq}
    BY <1>2, ServeConcMoves
  <2>2. Queued' = Queued
    BY <2>1 DEF Queued
  <2> QED BY <2>1, <2>2 DEF QueueKept, Somewhere, Held
<1>3. CASE ServeCreate
  <2>1. /\ UNCHANGED <<fifo, pushed, finished, received>> /\ Regs' = Regs
        /\ sreq \in Instances /\ Instances' = Instances
    BY <1>3, ServeCreateMoves
  <2>2. Queued' = Queued
    BY <2>1 DEF Queued
  <2> QED BY <2>1, <2>2 DEF QueueKept, Somewhere, Held
<1>4. CASE ServeCreateFail
  <2>1. /\ UNCHANGED <<fifo, pushed, received>> /\ Regs' = Regs
        /\ sreq \in Req /\ finished' = finished \cup {sreq}
        /\ Instances' = Instances \ {sreq}
    BY <1>4, ServeCreateFailMoves
  <2>2. Queued' = Queued
    BY <2>1 DEF Queued
  <2> QED BY <2>1, <2>2 DEF QueueKept, Somewhere, Held
<1>5. CASE ServeDone
  <2>1. /\ UNCHANGED <<fifo, pushed, received, ipc>> /\ Regs' = Regs
        /\ finished' = finished \cup {sreq}
    BY <1>5, ServeDoneMoves
  <2>2. Queued' = Queued /\ Instances' = Instances
    BY <2>1 DEF Queued, Instances
  <2> QED BY <2>1, <2>2 DEF QueueKept, Somewhere, Held
<1>6. ASSUME NEW q \in Req, InvokeStep(q)
      PROVE  QueueKept
  <2>1. /\ UNCHANGED <<fifo, pushed, received, sreq>> /\ Regs' = Regs
        /\ \/ finished' = finished /\ Instances' = Instances
           \/ finished' = finished \cup {q} /\ Instances' = Instances \ {q}
    BY <1>6, InvokeMoves DEF InvokeStep
  <2>2. Queued' = Queued
    BY <2>1 DEF Queued
  <2> QED BY <2>1, <2>2 DEF QueueKept, Somewhere, Held
<1> QED BY <1>1, <1>2, <1>3, <1>4, <1>5, <1>6 DEF ServeStep

-----------------------------------------------------------------------------
(* The steps that change the queue. *)

\* The queue step of RegisterRequest.
LEMMA PushOrder ==
    ASSUME Parts, OrderInv, NEW r \in Rcv, PushRequest(r)
    PROVE  OrderInv'
<1> DEFINE q == rreq[r]
<1>1. /\ UNCHANGED <<sreq, ipc, finished, received>>
      /\ q \in Req /\ Regs' = Regs \ {q} /\ q \in Regs /\ q \in received
      /\ fifo' = Append(fifo, q) /\ pushed' = Append(pushed, q)
      /\ Queued' = Queued \cup {q} /\ q \notin Queued
  BY PushMoves
<1>2. fifo \in Seq(Req) /\ pushed \in Seq(Req)
  BY DEF Parts, TypeOK
<1> HIDE DEF q
<1>3. /\ Len(fifo) \in Nat /\ Len(pushed) \in Nat
      /\ Len(fifo') = Len(fifo) + 1 /\ Len(pushed') = Len(pushed) + 1
      /\ fifo'[Len(fifo) + 1] = q /\ \A k \in 1..Len(fifo) : fifo'[k] = fifo[k]
      /\ pushed'[Len(pushed) + 1] = q /\ \A k \in 1..Len(pushed) : pushed'[k] = pushed[k]
  BY <1>1, <1>2
<1>4. /\ \A k \in 1..Len(pushed) : pushed[k] # q
      /\ \A k \in 1..Len(fifo) : fifo[k] # q
  <2>1. \A k \in 1..Len(pushed) : pushed[k] # q
    BY <1>1 DEF OrderInv, PushedInv
  <2>2. \A k \in 1..Len(fifo) : fifo[k] # q
    BY <1>1 DEF Queued
  <2> QED BY <2>1, <2>2
<1>5. Somewhere'
  BY <1>1 DEF OrderInv, Somewhere, Held, Instances
<1>6. PushedInv'
  <2>1. \A i, j \in 1..Len(pushed') : pushed'[i] = pushed'[j] => i = j
    BY <1>3, <1>4 DEF OrderInv, PushedInv
  <2>2. \A i \in 1..Len(pushed') : pushed'[i] \in received' /\ pushed'[i] \notin Regs'
    BY <1>1, <1>3 DEF OrderInv, PushedInv
  <2>3. \A p \in Queued' : \E i \in 1..Len(pushed') : pushed'[i] = p
    <3>1. ASSUME NEW p \in Queued PROVE \E i \in 1..Len(pushed') : pushed'[i] = p
      <4>1. PICK i \in 1..Len(pushed) : pushed[i] = p
        BY <3>1 DEF OrderInv, PushedInv
      <4>2. i \in 1..Len(pushed') /\ pushed'[i] = p
        BY <1>3, <4>1
      <4> QED BY <4>2
    <3>2. \E i \in 1..Len(pushed') : pushed'[i] = q
      BY <1>3
    <3> QED BY <1>1, <3>1, <3>2
  <2> QED BY <2>1, <2>2, <2>3 DEF PushedInv
<1>7. FifoOrder'
  <2> SUFFICES ASSUME NEW a \in 1..Len(fifo'), NEW b \in 1..Len(fifo'),
                      NEW i \in 1..Len(pushed'), NEW j \in 1..Len(pushed'),
                      a < b, pushed'[i] = fifo'[a], pushed'[j] = fifo'[b]
               PROVE  i < j
    BY DEF FifoOrder
  <2>1. a \in 1..Len(fifo) /\ fifo'[a] = fifo[a] /\ fifo[a] # q
    BY <1>3, <1>4
  <2>2. i \in 1..Len(pushed) /\ pushed'[i] = pushed[i]
    BY <1>3, <2>1
  <2>3. CASE b = Len(fifo) + 1
    <3>1. j = Len(pushed) + 1
      BY <1>3, <1>4, <2>3
    <3> QED BY <1>3, <2>2, <3>1
  <2>4. CASE b \in 1..Len(fifo)
    <3>1. fifo'[b] = fifo[b] /\ fifo[b] # q
      BY <1>3, <1>4, <2>4
    <3>2. j \in 1..Len(pushed) /\ pushed'[j] = pushed[j]
      BY <1>3, <3>1
    <3> QED BY <2>1, <2>2, <2>4, <3>1, <3>2 DEF OrderInv, FifoOrder
  <2> QED BY <1>3, <2>3, <2>4
<1>8. BarrierInv'
  <2> SUFFICES ASSUME NEW i \in 1..Len(pushed'), NEW j \in 1..Len(pushed'), i < j,
                      Barrier(pushed'[i], pushed'[j]), pushed'[j] \notin Queued'
               PROVE  /\ pushed'[i] \notin Queued'
                      /\ Kind[pushed'[i]] # "conc" => pushed'[i] \in finished'
    BY DEF BarrierInv, Barrier
  <2>1. j \in 1..Len(pushed) /\ pushed'[j] = pushed[j] /\ pushed[j] \notin Queued
    BY <1>1, <1>3
  <2>2. i \in 1..Len(pushed) /\ pushed'[i] = pushed[i] /\ pushed[i] # q
    BY <1>3, <1>4, <2>1
  <2>3. pushed[i] \notin Queued /\ (Kind[pushed[i]] # "conc" => pushed[i] \in finished)
    BY <2>1, <2>2 DEF OrderInv, BarrierInv
  <2> QED BY <1>1, <2>2, <2>3
<1> QED BY <1>5, <1>6, <1>7, <1>8 DEF OrderInv

\* GetRequest overtakes only the requests it may.
LEMMA TakeOrder ==
    ASSUME Parts, OrderInv, GetRequestConc \/ GetRequestFront
    PROVE  OrderInv'
<1>1. /\ UNCHANGED <<pushed, ipc, finished, received>> /\ Regs' = Regs
      /\ sreq = None
  BY GetRequestTakes
<1>2. PICK k \in 1..Len(fifo) : Taken(k) /\ ((GetRequestConc /\ k \in ConcAhead) \/ k = 1)
  BY GetRequestTakes
<1> DEFINE q == fifo[k]
<1>3. /\ q \in Req /\ sreq' = q /\ Len(fifo) \in Nat
      /\ Queued = Queued' \cup {q} /\ q \notin Queued'
  BY <1>2, TakenPlaces
<1>4. \A a, b \in 1..Len(fifo') : a < b =>
         \E c, d \in 1..Len(fifo) : c < d /\ fifo'[a] = fifo[c] /\ fifo'[b] = fifo[d]
  BY <1>2, TakenPlaces
<1>5. Somewhere'
  <2>1. Instances' = Instances
    BY <1>1 DEF Instances
  <2>2. received \subseteq Req /\ None \notin Req
    BY BrokerAssumption DEF Parts, TypeOK
  <2> QED BY <1>1, <1>3, <2>1, <2>2 DEF OrderInv, Somewhere, Held
<1>6. PushedInv'
  BY <1>1, <1>3 DEF OrderInv, PushedInv
<1>7. FifoOrder'
  <2> SUFFICES ASSUME NEW a \in 1..Len(fifo'), NEW b \in 1..Len(fifo'),
                      NEW i \in 1..Len(pushed), NEW j \in 1..Len(pushed),
                      a < b, pushed[i] = fifo'[a], pushed[j] = fifo'[b]
               PROVE  i < j
    BY <1>1 DEF FifoOrder
  <2>1. PICK c, d \in 1..Len(fifo) : c < d /\ fifo'[a] = fifo[c] /\ fifo'[b] = fifo[d]
    BY <1>4
  <2> QED BY <2>1 DEF OrderInv, FifoOrder
<1>8. BarrierInv'
  <2> SUFFICES ASSUME NEW i \in 1..Len(pushed), NEW j \in 1..Len(pushed), i < j,
                      Barrier(pushed[i], pushed[j]), pushed[j] \notin Queued'
               PROVE  /\ pushed[i] \notin Queued'
                      /\ Kind[pushed[i]] # "conc" => pushed[i] \in finished
    BY <1>1 DEF BarrierInv, Barrier
  <2> DEFINE p == pushed[i]
  <2>0. p \in Req /\ p \in received /\ p \notin Regs
    BY DEF Parts, TypeOK, OrderInv, PushedInv
  <2>1. CASE pushed[j] \notin Queued
    <3>1. p \notin Queued /\ (Kind[p] # "conc" => p \in finished)
      BY <2>1 DEF OrderInv, BarrierInv
    <3> QED BY <1>3, <3>1
  <2>2. CASE pushed[j] \in Queued
    <3>1. pushed[j] = q
      BY <1>3, <2>2
    <3>2. p \notin Queued
      <4> SUFFICES ASSUME p \in Queued PROVE FALSE
        OBVIOUS
      <4>1. PICK a \in 1..Len(fifo) : fifo[a] = p
        BY DEF Queued
      <4>2. a < k
        <5>1. p # q
          BY <3>1 DEF OrderInv, PushedInv
        <5>2. a # k
          BY <4>1, <5>1
        <5>3. ~(k < a)
          <6> SUFFICES ASSUME k < a PROVE FALSE
            OBVIOUS
          <6>1. j < i
            BY <3>1, <4>1 DEF OrderInv, FifoOrder
          <6> QED BY <1>1, <6>1
        <5> QED BY <1>3, <5>2, <5>3
      <4>3. GetRequestConc /\ k \in ConcAhead
        BY <1>2, <1>3, <4>2
      <4>4. Kind[q] = "conc" /\ Kind[p] = "seq"
        BY <1>3, <4>1, <4>2, <4>3 DEF ConcAhead
      <4> QED BY <3>1, <4>4 DEF Barrier
    <3>3. ASSUME Kind[p] # "conc" PROVE p \in finished
      <4>1. p \notin Instances
        BY <2>0, <3>3 DEF Parts, ThreadInv, Instances
      <4>2. p # None
        BY <2>0, BrokerAssumption
      <4> QED BY <1>1, <2>0, <3>2, <4>1, <4>2 DEF OrderInv, Somewhere, Held
    <3> QED BY <1>3, <3>2, <3>3
  <2> QED BY <2>1, <2>2
<1> QED BY <1>5, <1>6, <1>7, <1>8 DEF OrderInv

\* The broker starts with nothing received.
LEMMA InitOrder == Init => OrderInv
<1> SUFFICES ASSUME Init PROVE OrderInv
  OBVIOUS
<1>1. received = {} /\ Len(pushed) = 0 /\ Len(fifo) = 0
  BY DEF Init
<1>2. Queued = {}
  BY <1>1 DEF Queued
<1> QED BY <1>1, <1>2 DEF OrderInv, Somewhere, PushedInv, FifoOrder, BarrierInv

\* Every step preserves the order.
LEMMA NextOrder == Parts /\ OrderInv /\ [Next]_vars => OrderInv'
<1> SUFFICES ASSUME Parts, OrderInv, [Next]_vars PROVE OrderInv'
  OBVIOUS
<1>0. Somewhere
  BY DEF OrderInv
<1>1. ASSUME NEW r \in Rcv, PushRequest(r) PROVE OrderInv'
  BY <1>1, PushOrder
<1>2. ASSUME NEW r \in Rcv, ReceiveStep(r) \/ ClientStep(r), ~PushRequest(r) PROVE OrderInv'
  BY <1>0, <1>2, ReceiveQueueKept, OrderFrame
<1>3. CASE GetRequestConc \/ GetRequestFront
  BY <1>3, TakeOrder
<1>4. CASE \/ ServeStep /\ ~GetRequestConc /\ ~GetRequestFront
           \/ \E q \in Req : InvokeStep(q)
           \/ Alarm
           \/ UNCHANGED vars
  BY <1>0, <1>4, ServeQueueKept, OrderFrame
<1> QED BY <1>1, <1>2, <1>3, <1>4 DEF Next

\* In every reachable state each received request is somewhere and the queue
\* and the barriers are in order.
THEOREM OrderInductive == Spec => [](Parts /\ OrderInv)
<1>1. Init => Parts /\ OrderInv
  BY InitInv, InitOrder
<1>2. Parts /\ OrderInv /\ [Next]_vars => Parts' /\ OrderInv'
  BY NextInv, NextOrder
<1> QED BY <1>1, <1>2, PTL DEF Spec

-----------------------------------------------------------------------------
(* What follows from the invariant. *)

\* A request that executes has left the queue, and a mutex request executes
\* when no invocation thread lives.
LEMMA BarrierKept == Parts /\ OrderInv => FifoBarrier
<1> SUFFICES ASSUME Parts, OrderInv,
                    NEW i \in 1..Len(pushed), NEW j \in 1..Len(pushed), i < j,
                    Barrier(pushed[i], pushed[j]), Executing(pushed[j])
             PROVE  pushed[i] \in finished
  BY DEF FifoBarrier
<1> DEFINE p == pushed[i]
           q == pushed[j]
<1>1. p \in Req /\ q \in Req /\ p \in received /\ p \notin Regs /\ p # q /\ p # None
  BY BrokerAssumption DEF Parts, TypeOK, OrderInv, PushedInv
<1>2. q \notin Queued
  <2>1. CASE ipc[q] = "running"
    BY <2>1 DEF Parts, FifoInv
  <2>2. CASE spc = "exec" /\ sreq = q
    BY <2>2 DEF Parts, FifoInv
  <2> QED BY <2>1, <2>2 DEF Executing
<1>3. p \notin Queued /\ (Kind[p] # "conc" => p \in finished)
  BY <1>2 DEF OrderInv, BarrierInv
<1>4. ASSUME Kind[p] = "conc" PROVE p \in finished
  <2>1. Kind[q] = "mutex"
    BY <1>4 DEF Barrier
  <2>2. spc = "exec" /\ sreq = q
    BY <1>1, <2>1 DEF Executing, Parts, ThreadInv
  <2>3. instanceCount = 0
    BY <2>1, <2>2 DEF Parts, ServeInv
  <2>4. Instances = {}
    BY <2>3, NoInstance DEF Parts
  <2> QED BY <1>1, <1>3, <2>2, <2>4 DEF OrderInv, Somewhere, Held
<1> QED BY <1>3, <1>4

\* No queued request overtakes a barrier: FifoBarrier, for every set of
\* clients, receive threads and requests and every queue length.
THEOREM BarriersHold == Spec => []FifoBarrier
  BY OrderInductive, BarrierKept, PTL

\* A request has one place in the model at most, whatever holds it.
LEMMA OnePlace ==
    ASSUME Parts, OrderInv, NEW q \in Req
    PROVE  Cardinality(Places(q)) = IF q \in received THEN 1 ELSE 0
<1> DEFINE R == {<<"receive", r>> : r \in {r \in Rcv : rreq[r] = q /\ rpc[r] \in {"reg", "new", "push"}}}
           F == {<<"fifo", i>> : i \in {i \in 1..Len(fifo) : fifo[i] = q}}
           S == {<<"serve", p>> : p \in {p \in {q} : sreq = p /\ spc # "create"}}
           T == {<<"thread", p>> : p \in {q} \cap Instances}
           E == {<<"finished", p>> : p \in {q} \cap finished}
<1>0. Places(q) = R \cup F \cup S \cup T \cup E
  BY DEF Places
<1>1. q # None
  BY BrokerAssumption
<1>2. q \notin Regs => R = {}
  BY DEF Regs, Registering
<1>3. q \notin Queued => F = {}
  BY DEF Queued
<1>4. sreq # q \/ spc = "create" => S = {}
  OBVIOUS
<1>5. q \notin Instances => T = {}
  OBVIOUS
<1>6. q \notin finished => E = {}
  OBVIOUS
<1>7. \A x : Cardinality({x}) = 1
  BY FS_Singleton
<1>8. Cardinality({}) = 0
  BY FS_EmptySet
<1>9. CASE q \in Regs
  <2>1. PICK r \in Rcv : Registering(r) /\ rreq[r] = q
    BY <1>9 DEF Regs
  <2>2. /\ q \in received /\ q \notin finished /\ q \notin Queued /\ sreq # q
        /\ ipc[q] = "none"
        /\ \A x \in Rcv : Registering(x) /\ rreq[x] = q => x = r
    BY <2>1 DEF Parts, RegisteringInv
  <2>3. R = {<<"receive", r>>}
    BY <2>1, <2>2 DEF Registering
  <2>4. q \notin Instances
    BY <2>2 DEF Instances
  <2>5. Places(q) = {<<"receive", r>>}
    BY <1>0, <1>3, <1>4, <1>5, <1>6, <2>2, <2>3, <2>4
  <2> QED BY <1>7, <2>2, <2>5
<1>10. CASE q \in Queued
  <2>1. PICK i \in 1..Len(fifo) : fifo[i] = q
    BY <1>10 DEF Queued
  <2>2. /\ q \in received /\ q \notin finished /\ sreq # q /\ ipc[q] = "none"
        /\ \A k \in 1..Len(fifo) : fifo[k] = q => k = i
    BY <1>10, <2>1 DEF Parts, FifoInv
  <2>3. F = {<<"fifo", i>>}
    BY <2>1, <2>2
  <2>4. q \notin Instances
    BY <2>2 DEF Instances
  <2>5. q \notin Regs
    BY <1>10 DEF Parts, RegisteringInv, Regs
  <2>6. Places(q) = {<<"fifo", i>>}
    BY <1>0, <1>2, <1>4, <1>5, <1>6, <2>2, <2>3, <2>4, <2>5
  <2> QED BY <1>7, <2>2, <2>6
<1>11. CASE q = sreq /\ spc # "create"
  <2>1. q \in received /\ q \notin finished /\ ipc[q] = "none"
    BY <1>1, <1>11 DEF Parts, ServingInv
  <2>2. q \notin Queued
    BY <1>11 DEF Parts, FifoInv
  <2>3. q \notin Regs
    BY <1>11 DEF Parts, RegisteringInv, Regs
  <2>4. q \notin Instances
    BY <2>1 DEF Instances
  <2>5. S = {<<"serve", q>>}
    BY <1>11
  <2>6. Places(q) = {<<"serve", q>>}
    BY <1>0, <1>2, <1>3, <1>5, <1>6, <2>1, <2>2, <2>3, <2>4, <2>5
  <2> QED BY <1>7, <2>1, <2>6
<1>12. CASE q \in Instances
  <2>1. q \in received /\ q \notin finished /\ ipc[q] # "none"
    BY <1>12 DEF Parts, ThreadInv, Instances
  <2>2. q \notin Queued
    BY <2>1 DEF Parts, FifoInv
  <2>3. q \notin Regs
    BY <2>1 DEF Parts, RegisteringInv, Regs
  <2>4. sreq # q \/ spc = "create"
    BY <1>1, <2>1 DEF Parts, ServingInv
  <2>5. T = {<<"thread", q>>}
    BY <1>12
  <2>6. Places(q) = {<<"thread", q>>}
    BY <1>0, <1>2, <1>3, <1>4, <1>6, <2>1, <2>2, <2>3, <2>4, <2>5
  <2> QED BY <1>7, <2>1, <2>6
<1>13. CASE q \in finished
  <2>1. q \in received /\ q \notin Instances
    BY <1>13 DEF Parts, ThreadInv, Instances
  <2>2. q \notin Queued
    BY <1>13 DEF Parts, FifoInv
  <2>3. q \notin Regs
    BY <1>13 DEF Parts, RegisteringInv, Regs
  <2>4. sreq # q
    BY <1>1, <1>13 DEF Parts, ServingInv
  <2>5. E = {<<"finished", q>>}
    BY <1>13
  <2>6. Places(q) = {<<"finished", q>>}
    BY <1>0, <1>2, <1>3, <1>4, <1>5, <2>1, <2>2, <2>3, <2>4, <2>5
  <2> QED BY <1>7, <2>1, <2>6
<1>14. CASE ~ (q \in Regs \/ q \in Queued \/ (q = sreq /\ spc # "create")
                 \/ q \in Instances \/ q \in finished)
  <2>1. sreq = q => q \in Instances
    BY <1>1, <1>14 DEF Parts, ServingInv, Instances
  <2>2. q \notin received
    BY <1>14, <2>1 DEF OrderInv, Somewhere, Held
  <2>3. Places(q) = {}
    BY <1>0, <1>2, <1>3, <1>4, <1>5, <1>6, <1>14
  <2> QED BY <1>8, <2>2, <2>3
<1> HIDE DEF R, F, S, T, E
<1> QED BY <1>9, <1>10, <1>11, <1>12, <1>13, <1>14

\* No request is lost or handled twice and the counters are exact: Accounted,
\* with every interleaving and every failure of thread creation.
THEOREM RequestsAccounted == Spec => []Accounted
<1>1. Parts /\ OrderInv => Accounted
  BY OnePlace DEF Accounted, Conservation, Parts, CountersExact
<1> QED BY <1>1, OrderInductive, PTL

\* Only the end of Run makes the serving thread disappear.
LEMMA OnlyExit ==
    ASSUME Parts, Next, spc' = "gone", spc # "gone"
    PROVE  Exit
<1>1. Woken # "gone"
  BY DEF Woken
<1>2. ASSUME NEW r \in Rcv, ReceiveStep(r) \/ ClientStep(r) PROVE FALSE
  BY <1>1, <1>2 DEF ReceiveStep, ClientStep, Broadcast, RegisterConc, RegisterMutex,
         ReceiveNewThread, ReceiveCreate, ReceiveCreateFail, PushRequest, ConcLoad,
         ConcStore, Throttle, StopReceiving, OnNewConnection, OnCloseConnection,
         PopCallRef, PopCallKill, RegisterRequest, svars
<1>3. ASSUME NEW q \in Req, InvokeStep(q) PROVE FALSE
  BY <1>1, <1>3 DEF InvokeStep, InvokeConc, InvokeThreadEnd, svars
<1>4. ~Alarm
  BY DEF Alarm, svars
<1>5. ServeStep
  BY <1>2, <1>3, <1>4 DEF Next
<1> QED BY <1>5 DEF ServeStep, RunLoop, GetRequestEmpty, WaitRequest, GetRequestConc,
         ConcDecrement, GetRequestFront, GetRequestMutex, ServeConc, ServeCreate,
         ServeCreateFail, ServeInvoke, InvokeMethod, InvokePopCall, ServeDone,
         DrainStart, Drain

\* A broker that ends normally leaves no invocation and no request behind:
\* CleanExit, the final wait of Run.
THEOREM EndsClean == Spec => CleanExit
<1> DEFINE Leaves == spc' = "gone" /\ spc # "gone" /\ obj /\ state = "running"
           Clean == Instances = {} /\ fifo = <<>>
<1>1. ASSUME Parts, [Next]_vars
      PROVE  [Leaves => Clean]_vars
  <2> SUFFICES ASSUME Next, Leaves PROVE Clean
    BY <1>1
  <2>1. Exit
    BY <1>1, OnlyExit
  <2>2. instanceCount <= 0 /\ fifo = <<>>
    BY <2>1 DEF Exit
  <2>3. instanceCount = 0
    BY <1>1, <2>2 DEF Parts, TypeOK
  <2> QED BY <1>1, <2>2, <2>3, NoInstance DEF Parts
<1>2. Spec => []Parts
  BY OrderInductive, PTL
<1> QED BY <1>1, <1>2, PTL DEF Spec, CleanExit
=============================================================================
