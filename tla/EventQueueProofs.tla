-------------------------- MODULE EventQueueProofs --------------------------
(***************************************************************************)
(* Proofs about EventQueue, for any set of threads, events and time        *)
(* limits.  The safety invariants of the event queue are inductive together *)
(* once the queue is known to be in the order of the posts.                *)
(***************************************************************************)
EXTENDS EventQueue, TLAPS

\* The queue holds the events in the order in which they were posted.
Increasing ==
    \A i, j \in DOMAIN queue : i < j => queue[i].id < queue[j].id

IInv == TypeOK /\ SpinsAlone /\ NoMissedWakeup /\ Increasing /\ EachOnce /\ OrderKept

-----------------------------------------------------------------------------
(* The two changes of the queue. *)

\* Erase removes exactly the element at position i and keeps the others in
\* their order.
LEMMA EraseElement ==
    ASSUME NEW S, NEW q \in Seq(S), NEW i \in DOMAIN q
    PROVE  /\ Erase(q, i) \in Seq(S)
           /\ DOMAIN Erase(q, i) = 1..(Len(q) - 1)
           /\ \A j \in 1..(Len(q) - 1) :
                 Erase(q, i)[j] = IF j < i THEN q[j] ELSE q[j + 1]
<1>1. /\ Len(q) - 1 \in Nat
      /\ \A j \in 1..(Len(q) - 1) : j \in DOMAIN q /\ j + 1 \in DOMAIN q
  OBVIOUS
<1>2. \A j \in 1..(Len(q) - 1) : (IF j < i THEN q[j] ELSE q[j + 1]) \in S
  BY <1>1
<1> QED BY <1>1, <1>2 DEF Erase

\* The place in q of the element at place j after the erasure of place i, and
\* the place after the erasure of the element at place k of q.
Old(i, j) == IF j < i THEN j ELSE j + 1
New(i, k) == IF k < i THEN k ELSE k - 1

\* Where the elements of the queue are after an erasure.
LEMMA ErasePlaces ==
    ASSUME NEW S, NEW q \in Seq(S), NEW i \in DOMAIN q
    PROVE  /\ Erase(q, i) \in Seq(S)
           /\ \A k \in DOMAIN q : k # i =>
                 New(i, k) \in DOMAIN Erase(q, i) /\ Erase(q, i)[New(i, k)] = q[k]
           /\ \A j \in DOMAIN Erase(q, i) :
                 /\ Old(i, j) \in DOMAIN q /\ Old(i, j) # i
                 /\ Erase(q, i)[j] = q[Old(i, j)]
           /\ \A j, m \in DOMAIN Erase(q, i) : j < m => Old(i, j) < Old(i, m)
<1>1. DOMAIN q = 1..Len(q) /\ Len(q) \in Nat /\ i \in 1..Len(q)
  OBVIOUS
<1>2. \A k \in DOMAIN q : k # i => New(i, k) \in 1..(Len(q) - 1) /\ Old(i, New(i, k)) = k
  BY <1>1 DEF New, Old
<1>3. \A j \in 1..(Len(q) - 1) : Erase(q, i)[j] = q[Old(i, j)]
  BY EraseElement DEF Old
<1>4. \A k \in DOMAIN q : k # i =>
        New(i, k) \in DOMAIN Erase(q, i) /\ Erase(q, i)[New(i, k)] = q[k]
  BY <1>2, <1>3, EraseElement
<1>5. \A j \in 1..(Len(q) - 1) : Old(i, j) \in DOMAIN q /\ Old(i, j) # i
  BY <1>1 DEF Old
<1>6. \A j, m \in 1..(Len(q) - 1) : j < m => Old(i, j) < Old(i, m)
  BY <1>1 DEF Old
<1> QED BY <1>3, <1>4, <1>5, <1>6, EraseElement

-----------------------------------------------------------------------------
(* Initially. *)

LEMMA InitIInv == Init => IInv
  BY EventQueueAssumption
  DEF Init, IInv, TypeOK, SpinsAlone, NoMissedWakeup, Increasing, EachOnce,
      OrderKept, Idle, Item, Pcs, ANY_EVENT

-----------------------------------------------------------------------------
(* The steps that change neither the queue nor what was taken. *)

\* The state of the events is that of the queue, the posts and the hand-outs.
LEMMA EventsUnchanged ==
    ASSUME IInv, UNCHANGED <<queue, posts, taken>>
    PROVE  Increasing' /\ EachOnce' /\ OrderKept'
  BY DEF IInv, Increasing, EachOnce, OrderKept

LEMMA CallPostIInv ==
    ASSUME IInv, NEW t \in Threads, NEW e \in Events, CallPost(t, e)
    PROVE  IInv'
<1>1. TypeOK'
  BY EventQueueAssumption DEF IInv, TypeOK, CallPost, Pcs, Item
<1>2. SpinsAlone'
  BY DEF IInv, TypeOK, SpinsAlone, CallPost
<1>3. NoMissedWakeup'
  BY DEF IInv, TypeOK, NoMissedWakeup, CallPost, Matching, Wanted
<1> QED BY <1>1, <1>2, <1>3, EventsUnchanged DEF IInv, CallPost

LEMMA CallWaitIInv ==
    ASSUME IInv, NEW t \in Threads, NEW e \in Events \cup {ANY_EVENT},
           NEW timeout \in Timeouts, CallWait(t, e, timeout)
    PROVE  IInv'
<1>1. TypeOK'
  BY EventQueueAssumption DEF IInv, TypeOK, CallWait, Pcs, Item
<1>2. SpinsAlone'
  BY DEF IInv, TypeOK, SpinsAlone, CallWait
<1>3. NoMissedWakeup'
  BY DEF IInv, TypeOK, NoMissedWakeup, CallWait, Matching, Wanted
<1> QED BY <1>1, <1>2, <1>3, EventsUnchanged DEF IInv, CallWait

\* The broadcast leaves no sleeper, so nothing is missed after it.
LEMMA BroadcastIInv ==
    ASSUME IInv, NEW t \in Threads, Broadcast(t)
    PROVE  IInv'
<1>1. TypeOK'
  BY EventQueueAssumption DEF IInv, TypeOK, Broadcast, Pcs, Item, Idle
<1>2. SpinsAlone'
  BY DEF IInv, TypeOK, SpinsAlone, Broadcast, Idle
<1>3. NoMissedWakeup'
  BY DEF IInv, TypeOK, NoMissedWakeup, Broadcast, Idle
<1> QED BY <1>1, <1>2, <1>3, EventsUnchanged DEF IInv, Broadcast

LEMMA WakeupIInv ==
    ASSUME IInv, NEW t \in Threads, Wakeup(t)
    PROVE  IInv'
<1>1. CASE th' = [th EXCEPT ![t].pc = "rescan"]
  <2>1. TypeOK'
    BY <1>1, EventQueueAssumption DEF IInv, TypeOK, Wakeup, Pcs, Item
  <2>2. SpinsAlone'
    BY <1>1, EventQueueAssumption DEF IInv, TypeOK, SpinsAlone, Wakeup
  <2>3. NoMissedWakeup'
    BY <1>1 DEF IInv, TypeOK, NoMissedWakeup, Wakeup, Matching, Wanted
  <2> QED BY <2>1, <2>2, <2>3, EventsUnchanged DEF IInv, Wakeup
<1>2. CASE th' = [th EXCEPT ![t] = Idle]
  <2>1. TypeOK'
    BY <1>2, EventQueueAssumption DEF IInv, TypeOK, Wakeup, Pcs, Item, Idle
  <2>2. SpinsAlone'
    BY <1>2, EventQueueAssumption DEF IInv, TypeOK, SpinsAlone, Wakeup, Idle
  <2>3. NoMissedWakeup'
    BY <1>2 DEF IInv, TypeOK, NoMissedWakeup, Wakeup, Idle, Matching, Wanted
  <2> QED BY <2>1, <2>2, <2>3, EventsUnchanged DEF IInv, Wakeup
<1> QED BY <1>1, <1>2 DEF Wakeup, Goto, Return

LEMMA ExpireIInv ==
    ASSUME IInv, NEW t \in Threads, Expire(t)
    PROVE  IInv'
<1>1. TypeOK'
  BY EventQueueAssumption DEF IInv, TypeOK, Expire, Goto, Pcs, Item
<1>2. SpinsAlone'
  BY DEF IInv, TypeOK, SpinsAlone, Expire, Goto
<1>3. NoMissedWakeup'
  BY DEF IInv, TypeOK, NoMissedWakeup, Expire, Goto, Matching, Wanted
<1> QED BY <1>1, <1>2, <1>3, EventsUnchanged DEF IInv, Expire

LEMMA SpuriousIInv ==
    ASSUME IInv, NEW t \in Threads, Spurious(t)
    PROVE  IInv'
<1>1. TypeOK'
  BY EventQueueAssumption DEF IInv, TypeOK, Spurious, Goto, Pcs, Item
<1>2. SpinsAlone'
  BY DEF IInv, TypeOK, SpinsAlone, Spurious, Goto
<1>3. NoMissedWakeup'
  BY DEF IInv, TypeOK, NoMissedWakeup, Spurious, Goto, Matching, Wanted
<1> QED BY <1>1, <1>2, <1>3, EventsUnchanged DEF IInv, Spurious

LEMMA TickIInv ==
    ASSUME IInv, Tick \/ UNCHANGED vars
    PROVE  IInv'
<1>1. TypeOK' /\ SpinsAlone' /\ NoMissedWakeup'
  BY DEF IInv, TypeOK, SpinsAlone, NoMissedWakeup, Tick, vars, Matching, Wanted, Item
<1> QED BY <1>1, EventsUnchanged DEF IInv, Tick, vars

-----------------------------------------------------------------------------
(* The steps that change the queue. *)

\* The new event has the largest number, goes to the end of the queue and its
\* thread still has to broadcast.
LEMMA PostEventIInv ==
    ASSUME IInv, NEW t \in Threads, PostEvent(t)
    PROVE  IInv'
<1> DEFINE new == [id |-> posts + 1, ev |-> th[t].ev]
<1>1. /\ posts \in Nat /\ posts' = posts + 1 /\ posts' \in 0..MaxPosts
      /\ queue' = Append(queue, new) /\ taken' = taken
      /\ owner' = owner /\ waits' = waits /\ late' = late
      /\ th' = [th EXCEPT ![t].pc = "raise"]
  BY EventQueueAssumption DEF IInv, TypeOK, PostEvent, Goto
<1>2. Item \subseteq Item' /\ new \in Item'
  BY <1>1, EventQueueAssumption DEF IInv, TypeOK, Item, PostEvent
<1>3. queue \in Seq(Item)
  BY DEF IInv, TypeOK
<1>4. queue \in Seq(Item')
  BY <1>2, <1>3
<1>5. queue' \in Seq(Item')
  BY <1>1, <1>2, <1>4
<1>6. /\ Len(queue') = Len(queue) + 1 /\ Len(queue) \in Nat
      /\ DOMAIN queue = 1..Len(queue) /\ DOMAIN queue' = 1..(Len(queue) + 1)
      /\ \A i \in DOMAIN queue : queue'[i] = queue[i] /\ queue[i] \in Item
      /\ queue'[Len(queue) + 1] = new
  BY <1>1, <1>3, <1>4
<1>7. TypeOK'
  <2>1. th' \in [Threads -> [pc : Pcs, ev : Events \cup {ANY_EVENT}, timeout : Timeouts \cup {0}]]
    BY <1>1 DEF IInv, TypeOK, Pcs
  <2>2. \A u \in Threads : th'[u].pc \in {"post", "raise"} => th'[u].ev \in Events
    BY <1>1 DEF IInv, TypeOK, PostEvent
  <2>3. taken' \subseteq Item'
    BY <1>1, <1>2 DEF IInv, TypeOK
  <2> QED BY <1>1, <1>5, <2>1, <2>2, <2>3 DEF IInv, TypeOK
<1>8. SpinsAlone'
  BY <1>1, EventQueueAssumption DEF IInv, TypeOK, SpinsAlone, PostEvent
<1>9. NoMissedWakeup'
  BY <1>1 DEF IInv, TypeOK, NoMissedWakeup
<1>10. Increasing'
  BY <1>1, <1>6 DEF IInv, Increasing, Item
<1>11. EachOnce'
  <2>1. \A n \in 1..posts :
           (\E i \in DOMAIN queue' : queue'[i].id = n) <=> (\E i \in DOMAIN queue : queue[i].id = n)
    BY <1>1, <1>6
  <2>2. \A x \in taken : x.id # posts + 1
    BY <1>1 DEF IInv, TypeOK, Item
  <2>3. \A n \in 1..posts' :
           (\E i \in DOMAIN queue' : queue'[i].id = n) # (\E x \in taken' : x.id = n)
    <3>1. TAKE n \in 1..posts'
    <3>2. CASE n = posts + 1
      BY <3>2, <2>2, <1>1, <1>6
    <3>3. CASE n \in 1..posts
      BY <3>3, <2>1, <1>1 DEF IInv, EachOnce
    <3> QED BY <3>2, <3>3, <1>1
  <2>4. \A i, j \in DOMAIN queue' : queue'[i].id = queue'[j].id => i = j
    BY <1>1, <1>6 DEF IInv, EachOnce, Item
  <2> QED BY <2>3, <2>4 DEF EachOnce
<1>12. OrderKept'
  BY <1>1, <1>6 DEF IInv, TypeOK, OrderKept, Item
<1> QED BY <1>7, <1>8, <1>9, <1>10, <1>11, <1>12 DEF IInv

\* The first event that matches is taken: no event of its kind is before it.
LEMMA TakeIInv ==
    ASSUME IInv, NEW t \in Threads, Scan(t), NEW i \in DOMAIN queue,
           Found(th[t].ev, i), queue' = Erase(queue, i),
           taken' = taken \cup {queue[i]}, Return(t), owner' = Nobody
    PROVE  IInv'
<1>1. /\ posts \in Nat /\ posts' = posts /\ waits' = waits /\ late' = late
      /\ th' = [th EXCEPT ![t] = Idle]
  BY DEF IInv, TypeOK, Scan, Return
<1>2. queue \in Seq(Item) /\ Item' = Item /\ \A k \in DOMAIN queue : queue[k] \in Item
  <2>1. Item' = Item
    BY <1>1 DEF Item
  <2>2. queue \in Seq(Item)
    BY DEF IInv, TypeOK
  <2> QED BY <2>1, <2>2
<1>3. /\ queue' \in Seq(Item)
      /\ \A k \in DOMAIN queue : k # i =>
            New(i, k) \in DOMAIN queue' /\ queue'[New(i, k)] = queue[k]
      /\ \A j \in DOMAIN queue' :
            Old(i, j) \in DOMAIN queue /\ Old(i, j) # i /\ queue'[j] = queue[Old(i, j)]
      /\ \A j, m \in DOMAIN queue' : j < m => Old(i, j) < Old(i, m)
  BY <1>2, ErasePlaces
<1>4. DOMAIN queue \subseteq Int /\ DOMAIN queue' \subseteq Int
  BY <1>2, <1>3
<1>5. TypeOK'
  <2>1. th' \in [Threads -> [pc : Pcs, ev : Events \cup {ANY_EVENT}, timeout : Timeouts \cup {0}]]
    BY <1>1 DEF IInv, TypeOK, Pcs, Idle
  <2>2. \A u \in Threads : th'[u].pc \in {"post", "raise"} => th'[u].ev \in Events
    BY <1>1 DEF IInv, TypeOK, Idle
  <2>3. taken' \subseteq Item'
    BY <1>2 DEF IInv, TypeOK
  <2> QED BY <1>1, <1>2, <1>3, <2>1, <2>2, <2>3 DEF IInv, TypeOK
<1>6. SpinsAlone'
  BY <1>1, EventQueueAssumption DEF IInv, TypeOK, SpinsAlone, Scan, Idle
<1>7. NoMissedWakeup'
  <2> SUFFICES ASSUME NEW u \in Threads, th'[u].pc = "asleep", th'[u].timeout < 0,
                      NEW j \in DOMAIN queue', Wanted(th'[u].ev, queue'[j].ev)
               PROVE  \E v \in Threads : th'[v].pc = "raise"
    BY DEF NoMissedWakeup, Matching
  <2>1. u # t /\ th'[u] = th[u]
    BY <1>1 DEF IInv, TypeOK, Idle
  <2>2. Old(i, j) \in Matching(th[u].ev)
    BY <1>3, <2>1 DEF Matching
  <2>3. PICK v \in Threads : th[v].pc = "raise"
    BY <2>1, <2>2 DEF IInv, NoMissedWakeup
  <2> QED BY <2>3, <1>1 DEF IInv, TypeOK, Scan
<1>8. Increasing'
  BY <1>3 DEF IInv, Increasing
<1>9. \A j, k \in DOMAIN queue : queue[j].id = queue[k].id => j = k
  BY DEF IInv, EachOnce
<1>10. EachOnce'
  <2>1. \A n \in 1..posts :
           (\E j \in DOMAIN queue' : queue'[j].id = n) # (\E x \in taken' : x.id = n)
    <3>1. TAKE n \in 1..posts
    <3>2. CASE n = queue[i].id
      BY <3>2, <1>3, <1>9
    <3>3. CASE n # queue[i].id
      <4>1. (\E j \in DOMAIN queue' : queue'[j].id = n) <=> (\E k \in DOMAIN queue : queue[k].id = n)
        BY <3>3, <1>3
      <4>2. (\E x \in taken' : x.id = n) <=> (\E x \in taken : x.id = n)
        BY <3>3
      <4> QED BY <4>1, <4>2 DEF IInv, EachOnce
    <3> QED BY <3>2, <3>3
  <2>2. \A j, m \in DOMAIN queue' : queue'[j].id = queue'[m].id => j = m
    <3>1. TAKE j \in DOMAIN queue', m \in DOMAIN queue'
    <3>2. HAVE queue'[j].id = queue'[m].id
    <3>3. Old(i, j) = Old(i, m)
      BY <3>2, <1>3, <1>9
    <3> QED BY <3>3, <1>2, <1>4 DEF Old
  <2> QED BY <2>1, <2>2, <1>1 DEF EachOnce
<1>11. OrderKept'
  <2> SUFFICES ASSUME NEW x \in taken', NEW j \in DOMAIN queue', x.ev = queue'[j].ev
               PROVE  x.id < queue'[j].id
    BY DEF OrderKept
  <2>1. Old(i, j) \in DOMAIN queue /\ Old(i, j) # i /\ queue'[j] = queue[Old(i, j)]
    BY <1>3
  <2>2. CASE x \in taken
    BY <2>1, <2>2 DEF IInv, OrderKept
  <2>3. CASE x = queue[i]
    <3>1. Wanted(th[t].ev, queue[i].ev) /\ Wanted(th[t].ev, queue[Old(i, j)].ev)
      BY <2>1, <2>3 DEF Found, Matching, Wanted
    <3>2. i <= Old(i, j)
      BY <3>1, <2>1 DEF Found, Matching
    <3>3. i < Old(i, j)
      BY <3>2, <2>1, <1>4
    <3> QED BY <3>3, <2>1, <2>3 DEF IInv, Increasing
  <2> QED BY <2>2, <2>3
<1> QED BY <1>5, <1>6, <1>7, <1>8, <1>10, <1>11 DEF IInv

\* Without an event the waiter returns, sleeps or spins.  It sleeps only when
\* nothing matches.
LEMMA NothingIInv ==
    ASSUME IInv, NEW t \in Threads, Scan(t), Matching(th[t].ev) = {}
    PROVE  IInv'
<1>1. /\ UNCHANGED <<queue, taken, posts, waits, late>>
      /\ \/ th' = [th EXCEPT ![t] = Idle] /\ owner' = Nobody
         \/ th' = [th EXCEPT ![t].pc = "spin"] /\ owner' = t
         \/ th' = [th EXCEPT ![t].pc = "asleep"] /\ owner' = Nobody
  BY DEF Scan, Return, Goto
<1>2. TypeOK'
  <2>1. /\ th' \in [Threads -> [pc : Pcs, ev : Events \cup {ANY_EVENT}, timeout : Timeouts \cup {0}]]
        /\ \A u \in Threads : th'[u].pc \in {"post", "raise"} => th'[u].ev \in Events
    <3>1. CASE th' = [th EXCEPT ![t] = Idle]
      BY <3>1 DEF IInv, TypeOK, Pcs, Idle
    <3>2. CASE th' = [th EXCEPT ![t].pc = "spin"]
      BY <3>2 DEF IInv, TypeOK, Pcs
    <3>3. CASE th' = [th EXCEPT ![t].pc = "asleep"]
      BY <3>3 DEF IInv, TypeOK, Pcs
    <3> QED BY <1>1, <3>1, <3>2, <3>3
  <2>2. owner' \in Threads \cup {Nobody}
    BY <1>1
  <2> QED BY <1>1, <2>1, <2>2 DEF IInv, TypeOK, Item
<1>3. SpinsAlone'
  BY <1>1, EventQueueAssumption DEF IInv, TypeOK, SpinsAlone, Scan, Idle
<1>4. NoMissedWakeup'
  <2> SUFFICES ASSUME NEW u \in Threads, th'[u].pc = "asleep", th'[u].timeout < 0,
                      NEW j \in DOMAIN queue', Wanted(th'[u].ev, queue'[j].ev)
               PROVE  \E v \in Threads : th'[v].pc = "raise"
    BY DEF NoMissedWakeup, Matching
  <2>1. th'[u].ev = th[u].ev /\ th'[u].timeout = th[u].timeout
    <3>1. CASE u = t
      <4>1. th' = [th EXCEPT ![t].pc = "asleep"]
        BY <3>1, <1>1 DEF IInv, TypeOK, Idle
      <4> QED BY <4>1 DEF IInv, TypeOK
    <3>2. CASE u # t
      BY <3>2, <1>1 DEF IInv, TypeOK
    <3> QED BY <3>1, <3>2
  <2>2. Matching(th[u].ev) # {}
    BY <1>1, <2>1 DEF Matching
  <2>3. u # t
    BY <2>2
  <2>4. th[u].pc = "asleep"
    BY <2>3, <1>1 DEF IInv, TypeOK
  <2>5. PICK v \in Threads : th[v].pc = "raise"
    BY <2>1, <2>2, <2>4 DEF IInv, NoMissedWakeup
  <2>6. v # t
    BY <2>5 DEF Scan
  <2> QED BY <2>5, <2>6, <1>1 DEF IInv, TypeOK
<1> QED BY <1>1, <1>2, <1>3, <1>4, EventsUnchanged DEF IInv

LEMMA ScanIInv ==
    ASSUME IInv, NEW t \in Threads, Scan(t)
    PROVE  IInv'
<1>1. CASE Matching(th[t].ev) = {}
  BY <1>1, NothingIInv
<1>2. CASE Matching(th[t].ev) # {}
  <2>1. PICK i \in DOMAIN queue :
          /\ Found(th[t].ev, i) /\ queue' = Erase(queue, i)
          /\ taken' = taken \cup {queue[i]} /\ Return(t) /\ owner' = Nobody
    BY <1>2 DEF Scan
  <2> QED BY <2>1, TakeIInv
<1> QED BY <1>1, <1>2

-----------------------------------------------------------------------------
(* The theorems. *)

\* Every step preserves the invariant.
LEMMA StepIInv == IInv /\ [Next]_vars => IInv'
<1> SUFFICES ASSUME IInv, [Next]_vars PROVE IInv'
  OBVIOUS
<1>1. ASSUME NEW t \in Threads,
             \/ PostEvent(t) \/ Broadcast(t) \/ Scan(t) \/ Wakeup(t) \/ Expire(t) \/ Spurious(t)
             \/ \E e \in Events : CallPost(t, e)
             \/ \E e \in Events \cup {ANY_EVENT}, timeout \in Timeouts : CallWait(t, e, timeout)
      PROVE  IInv'
  BY <1>1, PostEventIInv, BroadcastIInv, ScanIInv, WakeupIInv, ExpireIInv,
     SpuriousIInv, CallPostIInv, CallWaitIInv
<1>2. CASE Tick \/ UNCHANGED vars
  BY <1>2, TickIInv
<1> QED BY <1>1, <1>2 DEF Next

\* The invariant of the event queue holds in every reachable state, for any
\* threads, events, time limits and number of posts and waits.
THEOREM Inductive == Spec => []IInv
  BY InitIInv, StepIInv, PTL DEF Spec

\* No waiter without a time limit sleeps over an event it waits for once the
\* threads that raised events have broadcast (pop_event_queue::PostEvent and
\* WaitEvent).
THEOREM WakeupsKept == Spec => []NoMissedWakeup
<1>1. IInv => NoMissedWakeup
  BY DEF IInv
<1> QED BY Inductive, <1>1, PTL

\* No event is lost, handed out twice or overtaken by a younger one of its kind
\* (the scan and the erasure of WaitEvent).
THEOREM Kept == Spec => []EventsKept
<1>1. IInv => EventsKept
  BY DEF IInv, EventsKept
<1> QED BY Inductive, <1>1, PTL

\* The mutex is held from step to step exactly by the thread whose timed wait
\* fails at once (pop_condition::wait with a timeout).
THEOREM SpinAlone == Spec => []SpinsAlone
<1>1. IInv => SpinsAlone
  BY DEF IInv
<1> QED BY Inductive, <1>1, PTL

=============================================================================
