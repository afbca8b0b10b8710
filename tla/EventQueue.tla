---------------------------- MODULE EventQueue ----------------------------
(***************************************************************************)
(* The event queue of an object: methods that run concurrently raise       *)
(* events and wait for them, with or without a time limit.                 *)
(*                                                                         *)
(* cond is a mutex and a condition.  What a thread does between taking the *)
(* mutex and giving it back is one step, except for a timed wait that      *)
(* fails at once: pop_condition::wait(timeout) adds the milliseconds to    *)
(* the microseconds of the clock without a carry, so that late in a second *)
(* the time is not a valid one and pthread_cond_timedwait returns without  *)
(* releasing the mutex; the waiter then holds it from step to step.        *)
(*                                                                         *)
(* Events carry the number of their post, so that each can be followed.    *)
(* Bounds: MaxPosts posts and MaxWaits waits.                              *)
(***************************************************************************)
EXTENDS Integers, Sequences

CONSTANTS
    Threads,        \* threads of the object
    Events,         \* events raised, naturals
    Timeouts,       \* time limits in milliseconds, negative for none
    MaxPosts, MaxWaits,
    Nobody          \* holder of a free mutex

ASSUME EventQueueAssumption ==
    /\ Events \subseteq Nat
    /\ Timeouts \subseteq Int
    /\ MaxPosts \in Nat /\ MaxWaits \in Nat
    /\ Nobody \notin Threads

ANY_EVENT == -1

VARIABLES
    owner,      \* thread that holds the mutex from step to step, or Nobody
    queue,      \* sequence of [id, ev]
    th,         \* [Threads -> [pc, ev, timeout]]
    posts,      \* number of events posted
    waits,      \* number of calls of WaitEvent
    taken,      \* events handed to a waiter, [id, ev]
    late        \* the clock is late in its second

vars == <<owner, queue, th, posts, waits, taken, late>>

Pcs == {"idle", "post", "raise", "wait", "asleep", "woken", "rescan", "spin"}

Idle == [pc |-> "idle", ev |-> ANY_EVENT, timeout |-> 0]

Init ==
    /\ owner = Nobody
    /\ queue = <<>>
    /\ th = [t \in Threads |-> Idle]
    /\ posts = 0 /\ waits = 0
    /\ taken = {}
    /\ late \in BOOLEAN

Goto(t, label) == th' = [th EXCEPT ![t].pc = label]
Return(t) == th' = [th EXCEPT ![t] = Idle]

-----------------------------------------------------------------------------
(* eventraise. *)

CallPost(t, e) ==
    /\ th[t].pc = "idle" /\ posts < MaxPosts
    /\ th' = [th EXCEPT ![t] = [pc |-> "post", ev |-> e, timeout |-> 0]]
    /\ UNCHANGED <<owner, queue, posts, waits, taken, late>>

\* Mutant of PostEvent: nobody is told of the event.
PostEventQuiet(t) ==
    /\ th[t].pc = "post" /\ owner = Nobody /\ posts < MaxPosts
    /\ posts' = posts + 1
    /\ queue' = Append(queue, [id |-> posts + 1, ev |-> th[t].ev])
    /\ Return(t)
    /\ UNCHANGED <<owner, waits, taken, late>>

\* The event is queued under the mutex ...
PostEvent(t) ==
    /\ th[t].pc = "post" /\ owner = Nobody /\ posts < MaxPosts
    /\ posts' = posts + 1
    /\ queue' = Append(queue, [id |-> posts + 1, ev |-> th[t].ev])
    /\ Goto(t, "raise")
    /\ UNCHANGED <<owner, waits, taken, late>>

\* ... and the waiters are woken after it was released.
Broadcast(t) ==
    /\ th[t].pc = "raise"
    /\ th' = [u \in Threads |->
                 IF u = t THEN Idle
                 ELSE IF th[u].pc = "asleep" THEN [th[u] EXCEPT !.pc = "woken"]
                 ELSE th[u]]
    /\ UNCHANGED <<owner, queue, posts, waits, taken, late>>

-----------------------------------------------------------------------------
(* eventwait. *)

CallWait(t, e, timeout) ==
    /\ th[t].pc = "idle" /\ waits < MaxWaits
    /\ waits' = waits + 1
    /\ th' = [th EXCEPT ![t] = [pc |-> "wait", ev |-> e, timeout |-> timeout]]
    /\ UNCHANGED <<owner, queue, posts, taken, late>>

Wanted(e, ev) == e = ANY_EVENT \/ e = ev
Matching(e) == {i \in DOMAIN queue : Wanted(e, queue[i].ev)}

\* The scan of the queue stops at the first event that matches.
Found(e, i) == i \in Matching(e) /\ \A j \in Matching(e) : i <= j

\* Mutant of Erase: the iterator was advanced before the event is erased.
EraseNext(q, i) == [j \in 1..(Len(q) - 1) |-> IF j <= i THEN q[j] ELSE q[j + 1]]

Erase(q, i) == [j \in 1..(Len(q) - 1) |-> IF j < i THEN q[j] ELSE q[j + 1]]

\* Mutant of Invalid: every time of a timed wait is invalid.
InvalidAlways(timeout) == timeout > 0

\* tv_nsec is a whole second or more.
Invalid(timeout) == timeout % 1000 # 0 /\ late

\* One round of the loop of WaitEvent, by a thread that can have the mutex.
\* Without an event: an untimed wait sleeps, a wait of no time returns, and
\* a timed wait sleeps unless its time is not valid.
Scan(t) ==
    /\ th[t].pc \in {"wait", "rescan", "spin"}
    /\ owner \in {Nobody, t}
    /\ IF Matching(th[t].ev) # {}
       THEN \E i \in DOMAIN queue :
               /\ Found(th[t].ev, i)
               /\ queue' = Erase(queue, i)
               /\ taken' = taken \cup {queue[i]}
               /\ Return(t)
               /\ owner' = Nobody
       ELSE /\ LET timeout == th[t].timeout
               IN IF timeout = 0 THEN Return(t) /\ owner' = Nobody
                  ELSE IF timeout > 0 /\ Invalid(timeout) THEN Goto(t, "spin") /\ owner' = t
                  ELSE Goto(t, "asleep") /\ owner' = Nobody
            /\ UNCHANGED <<queue, taken>>
    /\ UNCHANGED <<posts, waits, late>>

\* After a broadcast: an untimed wait scans again; a timed one returns -1,
\* for the result of the wait is tested the wrong way round.
Wakeup(t) ==
    /\ th[t].pc = "woken" /\ owner = Nobody
    /\ IF th[t].timeout < 0 THEN Goto(t, "rescan") ELSE Return(t)
    /\ UNCHANGED <<owner, queue, posts, waits, taken, late>>

\* The time is over: the wait fails and the loop goes round again.
Expire(t) ==
    /\ th[t].pc = "asleep" /\ th[t].timeout > 0
    /\ Goto(t, "rescan")
    /\ UNCHANGED <<owner, queue, posts, waits, taken, late>>

\* A wait may return without a broadcast.
Spurious(t) ==
    /\ th[t].pc = "asleep"
    /\ Goto(t, "woken")
    /\ UNCHANGED <<owner, queue, posts, waits, taken, late>>

Tick ==
    /\ late' = ~late
    /\ UNCHANGED <<owner, queue, th, posts, waits, taken>>

Next ==
    \/ \E t \in Threads :
          \/ PostEvent(t) \/ Broadcast(t) \/ Scan(t) \/ Wakeup(t) \/ Expire(t) \/ Spurious(t)
          \/ \E e \in Events : CallPost(t, e)
          \/ \E e \in Events \cup {ANY_EVENT}, timeout \in Timeouts : CallWait(t, e, timeout)
    \/ Tick

Spec == Init /\ [][Next]_vars

\* Threads run and time passes.  A thread that waits for the mutex gets it if
\* it is free again and again: who holds it longest, a timed waiter, sleeps
\* without it for milliseconds each time.
Fairness ==
    /\ WF_vars(Tick)
    /\ \A t \in Threads :
          SF_vars(PostEvent(t) \/ Broadcast(t) \/ Scan(t) \/ Wakeup(t) \/ Expire(t))

FairSpec == Spec /\ Fairness

-----------------------------------------------------------------------------
(* Properties. *)

Item == [id : 1..posts, ev : Events]

TypeOK ==
    /\ owner \in Threads \cup {Nobody}
    /\ queue \in Seq(Item)
    /\ th \in [Threads -> [pc : Pcs, ev : Events \cup {ANY_EVENT}, timeout : Timeouts \cup {0}]]
    /\ \A t \in Threads : th[t].pc \in {"post", "raise"} => th[t].ev \in Events
    /\ posts \in 0..MaxPosts /\ waits \in 0..MaxWaits
    /\ taken \subseteq Item
    /\ late \in BOOLEAN

\* No waiter without a time limit sleeps over an event it waits for, except
\* while the thread that raised an event has still to broadcast: the test of
\* the queue and the sleep are one step under the mutex.
NoMissedWakeup ==
    \A t \in Threads :
       th[t].pc = "asleep" /\ th[t].timeout < 0 /\ Matching(th[t].ev) # {} =>
          \E u \in Threads : th[u].pc = "raise"

\* The mutex is held from step to step only by a timed waiter whose wait
\* fails, and no other thread is in its critical section then.
SpinsAlone ==
    \A t \in Threads : th[t].pc = "spin" <=> owner = t

\* Every event that was raised is in the queue or was handed to one waiter,
\* never both and never twice: two waiters for any event do not get the same.
EachOnce ==
    /\ \A n \in 1..posts :
         (\E i \in DOMAIN queue : queue[i].id = n) # (\E x \in taken : x.id = n)
    /\ \A i, j \in DOMAIN queue : queue[i].id = queue[j].id => i = j

\* Events of one kind are handed out in the order in which they were raised.
OrderKept ==
    \A x \in taken, i \in DOMAIN queue : x.ev = queue[i].ev => x.id < queue[i].id

\* No event is lost, duplicated or overtaken, and every variable keeps its type.
EventsKept == TypeOK /\ EachOnce /\ OrderKept

\* A waiter, with or without a time limit, returns if an event it waits for
\* stays in the queue, whoever spins on the mutex meanwhile.
Waiting(t) == th[t].pc \in {"wait", "asleep", "woken", "rescan", "spin"}
Served ==
    \A t \in Threads :
       (Waiting(t) /\ Matching(th[t].ev) # {}) ~> (~Waiting(t) \/ Matching(th[t].ev) = {})

=============================================================================
