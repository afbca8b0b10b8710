-------------------------- MODULE ApplicationProofs --------------------------
(***************************************************************************)
(* Proofs about Application: the monitor takes references away only from   *)
(* an application that two pings in a row have found idle (CheckObjects),  *)
(* for any objects, plans and bounds and whatever the application does     *)
(* between and during the pings; and the count of every object is exactly  *)
(* the number of references to it that are held or on their way            *)
(* (RefExact), until the monitor takes references away.                    *)
(***************************************************************************)
EXTENDS Application, SequenceTheorems, FunctionTheorems, FiniteSetTheorems, TLAPS

MonType == [pc : {"idle", "bind", "unref", "ask", "drop", "kill", "ack"},
            todo : Seq(Obj), active : BOOLEAN, killall : BOOLEAN]

\* A ping is under way.
Pinging == mon.pc \in {"bind", "unref", "ask", "drop"}

\* The list, the check in progress and what they are about.
ListInv ==
    /\ mon \in MonType
    /\ managed \in Seq(Obj)
    /\ isActive \in BOOLEAN
    /\ mon.pc \in {"unref", "ask", "drop"} => mon.todo # <<>>

\* What the pings know of the objects that stayed active.  One that was active
\* when this ping began is still to be asked unless an active one was found;
\* one that was active when the ping before began was found by that one.
PingInv ==
    /\ ~plan.watch => seen1 = {} /\ seen2 = {}
    /\ ~Pinging /\ ~isActive => seen1 = {}
    /\ Pinging /\ ~mon.active => seen1 \subseteq Range(mon.todo)
    /\ Pinging /\ ~isActive => seen2 = {}
    /\ mon.pc = "drop" => ~isActive /\ ~mon.active /\ Head(mon.todo) \notin seen1

IInv == ListInv /\ PingInv

-----------------------------------------------------------------------------
(* The list. *)

\* Erasing from the list and appending to it give a list.
LEMMA WithoutSeq ==
    ASSUME NEW s \in Seq(Obj), NEW o
    PROVE  Without(s, o) \in Seq(Obj)
<1>1. CASE o \notin Range(s)
  BY <1>1 DEF Without
<1>2. CASE o \in Range(s)
  <2> DEFINE i == CHOOSE i \in 1..Len(s) : s[i] = o
  <2>1. \E j \in 1..Len(s) : s[j] = o
    BY <1>2 DEF Range
  <2>2. i \in 1..Len(s)
    BY <2>1
  <2>3. Without(s, o) = SubSeq(s, 1, i - 1) \o SubSeq(s, i + 1, Len(s))
    BY <1>2 DEF Without, RemoveAt
  <2> HIDE DEF i
  <2>4. Len(s) \in Nat
    OBVIOUS
  <2>5. SubSeq(s, 1, i - 1) \in Seq(Obj) /\ SubSeq(s, i + 1, Len(s)) \in Seq(Obj)
    BY <2>2, <2>4
  <2> QED BY <2>3, <2>5
<1> QED BY <1>1, <1>2

\* What is left to ask when the first one was asked.
LEMMA TailRange ==
    ASSUME NEW s \in Seq(Obj), s # <<>>
    PROVE  /\ Tail(s) \in Seq(Obj) /\ Head(s) \in Obj
           /\ Range(s) \subseteq {Head(s)} \cup Range(Tail(s))
<1>1. /\ Tail(s) \in Seq(Obj) /\ Len(s) \in Nat \ {0} /\ Len(Tail(s)) = Len(s) - 1
      /\ DOMAIN s = 1..Len(s) /\ DOMAIN Tail(s) = 1..Len(Tail(s))
      /\ Head(s) = s[1]
      /\ \A i \in 1..(Len(s) - 1) : Tail(s)[i] = s[i + 1]
  OBVIOUS
<1>2. Head(s) \in Obj
  BY <1>1
<1>3. ASSUME NEW j \in 1..Len(s), j # 1 PROVE s[j] \in Range(Tail(s))
  <2>1. j - 1 \in 1..(Len(s) - 1) /\ (j - 1) + 1 = j
    BY <1>1, <1>3
  <2> QED BY <1>1, <2>1 DEF Range
<1> QED BY <1>1, <1>2, <1>3 DEF Range

-----------------------------------------------------------------------------
(* Between two pings and within one the histories only shrink. *)

\* The histories of a step that does not begin a ping.
LEMMA TrackShrinks ==
    ASSUME IInv, Track, ~PingStarts
    PROVE  /\ seen1' \subseteq seen1 /\ seen2' \subseteq seen2
           /\ plan.watch => seen1' \subseteq Lively'
  BY DEF Track, seen

\* A step that touches neither the monitor's check nor its result, but perhaps
\* its list, keeps the invariant.
LEMMA MonitorFrame ==
    ASSUME IInv, Track, managed' \in Seq(Obj), isActive' = isActive, plan' = plan,
           \/ mon' = mon \/ mon' = [mon EXCEPT !.killall = TRUE]
    PROVE  IInv'
<1>1. /\ mon' \in MonType /\ mon'.pc = mon.pc /\ mon'.todo = mon.todo
      /\ mon'.active = mon.active
  BY DEF IInv, ListInv, MonType
<1>2. ~PingStarts
  BY <1>1 DEF PingStarts
<1>3. seen1' \subseteq seen1 /\ seen2' \subseteq seen2
  BY <1>2, TrackShrinks
<1> QED BY <1>1, <1>3 DEF IInv, ListInv, PingInv, Pinging

-----------------------------------------------------------------------------
(* The steps of a ping. *)

\* CheckObjects begins a ping: everything in the list is to be asked, and what
\* was active since before the last ping was found by it.
LEMMA CheckObjectsInv ==
    ASSUME IInv, Track, CheckObjects
    PROVE  IInv'
<1>1. /\ managed' = managed /\ isActive' = isActive /\ plan' = plan
      /\ mon.pc = "idle"
      /\ \/ mon' = mon
         \/ mon' = [mon EXCEPT !.pc = "bind", !.todo = managed, !.active = FALSE]
  BY DEF CheckObjects
<1>2. CASE mon' = mon
  BY <1>1, <1>2, MonitorFrame DEF IInv, ListInv
<1>3. CASE mon' = [mon EXCEPT !.pc = "bind", !.todo = managed, !.active = FALSE]
  <2>1. /\ mon' \in MonType /\ mon'.pc = "bind" /\ mon'.todo = managed /\ ~mon'.active
    BY <1>3 DEF IInv, ListInv, MonType
  <2>2. CASE ~plan.watch
    BY <1>1, <2>1, <2>2 DEF IInv, ListInv, PingInv, Pinging, Track, seen
  <2>3. CASE plan.watch
    <3>1. seen1' = Lively' /\ seen2' = seen1 \cap Lively'
      BY <1>1, <2>1, <2>3 DEF Track, PingStarts
    <3>2. Lively' \subseteq Range(managed)
      BY <1>1 DEF Lively
    <3>3. ~isActive => seen1 = {}
      BY <1>1 DEF IInv, PingInv, Pinging
    <3> QED BY <1>1, <2>1, <2>3, <3>1, <3>2, <3>3 DEF IInv, ListInv, PingInv, Pinging
  <2> QED BY <2>2, <2>3
<1> QED BY <1>1, <1>2, <1>3

\* The first object of the list was asked or erased: nothing is missed if it is
\* not active at the end of the step or has been inactive in between.
LEMMA AskedInv ==
    ASSUME IInv, Track, Pinging, mon.todo # <<>>, isActive' = isActive, plan' = plan,
           managed' \in Seq(Obj),
           NEW active \in BOOLEAN,
           mon' = [mon EXCEPT !.pc = "bind", !.todo = Tail(@), !.active = active],
           ~active => ~mon.active,
           ~active => Head(mon.todo) \notin seen1 \/ Head(mon.todo) \notin Lively'
    PROVE  IInv'
<1>1. /\ mon \in MonType /\ mon' \in MonType /\ mon'.pc = "bind"
      /\ mon'.todo = Tail(mon.todo) /\ mon'.active = active
  BY TailRange DEF IInv, ListInv, MonType
<1>2. ~PingStarts
  BY DEF PingStarts, Pinging
<1>3. /\ seen1' \subseteq seen1 /\ seen2' \subseteq seen2
      /\ plan.watch => seen1' \subseteq Lively'
      /\ ~plan.watch => seen1 = {}
  BY <1>2, TrackShrinks DEF IInv, PingInv
<1>4. ~active => seen1' \subseteq Range(Tail(mon.todo))
  <2> SUFFICES ASSUME ~active PROVE seen1' \subseteq Range(Tail(mon.todo))
    OBVIOUS
  <2>1. seen1 \subseteq {Head(mon.todo)} \cup Range(Tail(mon.todo))
    BY <1>1, TailRange DEF IInv, PingInv, MonType
  <2>2. Head(mon.todo) \notin seen1'
    BY <1>3
  <2> QED BY <1>3, <2>1, <2>2
<1>5. ~isActive => seen2' = {}
  BY <1>3 DEF IInv, PingInv
<1> QED BY <1>1, <1>3, <1>4, <1>5 DEF IInv, ListInv, PingInv, Pinging

\* An object that cannot be reached is erased; it is not active.
LEMMA ErasedInv ==
    ASSUME IInv, Track, NEW o \in Obj, Pinging, mon.todo # <<>>, o = Head(mon.todo),
           ~Exists(o), phase' = phase, isActive' = isActive, plan' = plan, Erased(o)
    PROVE  IInv'
<1>1. managed' \in Seq(Obj)
  BY WithoutSeq DEF Erased, IInv, ListInv
<1>2. o \notin Lively'
  BY DEF Lively, Exists
<1>3. /\ mon.active \in BOOLEAN
      /\ mon' = [mon EXCEPT !.pc = "bind", !.todo = Tail(@), !.active = mon.active]
  BY DEF Erased, IInv, ListInv, MonType
<1> QED BY <1>1, <1>2, <1>3, AskedInv

\* The probe is bound: the next step asks.
LEMMA PingBindInv ==
    ASSUME IInv, Track, NEW o \in Obj, PingBind(o)
    PROVE  IInv'
<1>1. /\ phase' = phase /\ isActive' = isActive /\ plan' = plan
      /\ mon.pc = "bind" /\ mon.todo # <<>> /\ o = Head(mon.todo) /\ Pinging
  BY DEF PingBind, life, Pinging
<1>2. CASE ~Reachable(o)
  <2>1. Erased(o) /\ ~Exists(o)
    BY <1>2 DEF PingBind, Reachable
  <2> QED BY <1>1, <2>1, ErasedInv
<1>3. CASE Reachable(o)
  <2>1. PICK c \in {"unref", "ask"} : mon' = [mon EXCEPT !.pc = c] /\ managed' = managed
    BY <1>3 DEF PingBind
  <2>2. /\ mon' \in MonType /\ mon'.pc \in {"unref", "ask"} /\ mon'.todo = mon.todo
        /\ mon'.active = mon.active
    BY <2>1 DEF IInv, ListInv, MonType
  <2>3. seen1' \subseteq seen1 /\ seen2' \subseteq seen2
    BY <1>1, TrackShrinks DEF PingStarts
  <2> QED BY <1>1, <2>1, <2>2, <2>3 DEF IInv, ListInv, PingInv, Pinging
<1> QED BY <1>2, <1>3

\* The mark of the access point costs the object a count, and tells the ping nothing.
LEMMA PingUnrefInv ==
    ASSUME IInv, Track, NEW o \in Obj, PingUnref(o)
    PROVE  IInv'
<1>1. /\ phase' = phase /\ isActive' = isActive /\ plan' = plan
      /\ mon.pc = "unref" /\ mon.todo # <<>> /\ o = Head(mon.todo) /\ Pinging
  BY DEF PingUnref, life, Pinging, IInv, ListInv
<1>2. CASE ~Reachable(o)
  <2>1. Erased(o) /\ ~Exists(o)
    BY <1>2 DEF PingUnref, Reachable
  <2> QED BY <1>1, <2>1, ErasedInv
<1>3. CASE Reachable(o)
  <2>1. mon' = [mon EXCEPT !.pc = "ask"] /\ managed' = managed
    BY <1>3 DEF PingUnref
  <2>2. /\ mon' \in MonType /\ mon'.pc = "ask" /\ mon'.todo = mon.todo
        /\ mon'.active = mon.active
    BY <2>1 DEF IInv, ListInv, MonType
  <2>3. seen1' \subseteq seen1 /\ seen2' \subseteq seen2
    BY <1>1, TrackShrinks DEF PingStarts
  <2> QED BY <1>1, <2>1, <2>2, <2>3 DEF IInv, ListInv, PingInv, Pinging
<1> QED BY <1>2, <1>3

\* The object is asked; one that is found inactive has not been active since
\* this ping began.
LEMMA PingAskInv ==
    ASSUME IInv, Track, NEW o \in Obj, PingAsk(o)
    PROVE  IInv'
<1>1. /\ phase' = phase /\ isActive' = isActive /\ plan' = plan
      /\ queued' = queued /\ conc' = conc
      /\ mon.pc = "ask" /\ o = Head(mon.todo) /\ Pinging /\ mon.todo # <<>>
  BY DEF PingAsk, life, inside, Pinging, IInv, ListInv
<1>2. CASE ~Reachable(o)
  <2>1. Erased(o) /\ ~Exists(o)
    BY <1>2 DEF PingAsk, Reachable
  <2> QED BY <1>1, <2>1, ErasedInv
<1>3. ~ObjectActive(o) => o \notin Lively'
  BY <1>1 DEF Lively, ObjectActive
<1>4. CASE Reachable(o) /\ ~mon.active /\ ~ObjectActive(o) /\ ~isActive
  <2>1. mon' = [mon EXCEPT !.pc = "drop"] /\ managed' = managed
    BY <1>4 DEF PingAsk
  <2>2. /\ mon' \in MonType /\ mon'.pc = "drop" /\ mon'.todo = mon.todo
        /\ mon'.active = mon.active
    BY <2>1 DEF IInv, ListInv, MonType
  <2>3. /\ seen1' \subseteq seen1 /\ seen2' \subseteq seen2
        /\ plan.watch => seen1' \subseteq Lively'
    BY <1>1, TrackShrinks DEF PingStarts
  <2>4. Head(mon'.todo) \notin seen1'
    BY <1>1, <1>3, <1>4, <2>2, <2>3 DEF IInv, PingInv
  <2> QED BY <1>1, <1>4, <2>1, <2>2, <2>3, <2>4 DEF IInv, ListInv, PingInv, Pinging
<1>5. CASE Reachable(o) /\ ~(~mon.active /\ ~ObjectActive(o) /\ ~isActive)
  <2> DEFINE active == mon.active \/ ObjectActive(o)
  <2>1. ProbeClosed(o, active)
    BY <1>5 DEF PingAsk
  <2>2. /\ active \in BOOLEAN
        /\ mon' = [mon EXCEPT !.pc = "bind", !.todo = Tail(@), !.active = active]
        /\ managed' \in Seq(Obj)
    BY <2>1 DEF ProbeClosed, IInv, ListInv, MonType
  <2>3. ~active => ~mon.active /\ o \notin Lively'
    BY <1>3
  <2> HIDE DEF active
  <2> QED BY <1>1, <2>2, <2>3, AskedInv
<1> QED BY <1>2, <1>4, <1>5

\* A reference is taken away, or the object is gone.
LEMMA PingDropInv ==
    ASSUME IInv, Track, NEW o \in Obj, PingDrop(o)
    PROVE  IInv'
<1>1. /\ phase' = phase /\ isActive' = isActive /\ plan' = plan
      /\ mon.pc = "drop" /\ o = Head(mon.todo) /\ Pinging /\ mon.todo # <<>>
      /\ ~mon.active /\ o \notin seen1
  BY DEF PingDrop, life, Pinging, IInv, ListInv, PingInv
<1>2. CASE ~Exists(o)
  BY <1>1, <1>2, ErasedInv DEF PingDrop
<1>3. CASE Exists(o)
  <2>1. ProbeClosed(o, FALSE)
    BY <1>3 DEF PingDrop
  <2>2. /\ mon' = [mon EXCEPT !.pc = "bind", !.todo = Tail(@), !.active = FALSE]
        /\ managed' \in Seq(Obj)
    BY <2>1 DEF ProbeClosed, IInv, ListInv
  <2> QED BY <1>1, <2>2, AskedInv
<1> QED BY <1>2, <1>3

\* The ping is over: what it found is what the next one knows.
LEMMA CheckReturnsInv ==
    ASSUME IInv, Track, CheckReturns
    PROVE  IInv'
<1>1. /\ mon.pc = "bind" /\ mon.todo = <<>> /\ isActive' = mon.active
      /\ mon' = [mon EXCEPT !.pc = "idle"] /\ managed' = managed /\ plan' = plan
  BY DEF CheckReturns
<1>2. mon' \in MonType /\ mon'.pc = "idle" /\ isActive' \in BOOLEAN
  BY <1>1 DEF IInv, ListInv, MonType
<1>3. seen1' \subseteq seen1 /\ seen2' \subseteq seen2
  BY <1>1, TrackShrinks DEF PingStarts
<1>4. Range(mon.todo) = {}
  BY <1>1 DEF Range
<1> QED BY <1>1, <1>2, <1>3, <1>4 DEF IInv, ListInv, PingInv, Pinging

-----------------------------------------------------------------------------
(* The other steps. *)

\* The steps of KillAll ask nothing and find nothing.
LEMMA KillInv ==
    ASSUME IInv, Track, KillAll \/ KillReturns \/ \E o \in Obj : KillNext(o)
    PROVE  IInv'
<1>1. /\ isActive' = isActive /\ plan' = plan /\ managed' \in Seq(Obj)
  <2>1. isActive' = isActive /\ plan' = plan /\ (managed' = managed \/ managed' = <<>>)
    BY DEF KillAll, KillReturns, KillNext
  <2>2. managed \in Seq(Obj) /\ <<>> \in Seq(Obj)
    BY DEF IInv, ListInv
  <2> QED BY <2>1, <2>2
<1>2. /\ mon' \in MonType /\ mon.pc \in {"idle", "kill", "ack"}
      /\ mon'.pc \in {"idle", "kill", "ack"}
  <2>1. CASE KillAll
    BY <2>1 DEF KillAll, IInv, ListInv, MonType
  <2>2. CASE KillReturns
    BY <2>2 DEF KillReturns, IInv, ListInv, MonType
  <2>3. CASE \E o \in Obj : KillNext(o)
    <3>1. PICK o \in Obj : KillNext(o)
      BY <2>3
    <3>2. /\ mon \in MonType /\ mon.pc \in {"kill", "ack"} /\ mon.todo # <<>>
          /\ \/ mon' = [mon EXCEPT !.pc = "kill", !.todo = Tail(@)]
             \/ mon' = [mon EXCEPT !.todo = Tail(@)]
             \/ mon' = [mon EXCEPT !.pc = "ack"]
      BY <3>1 DEF KillNext, IInv, ListInv
    <3>3. Tail(mon.todo) \in Seq(Obj)
      BY <3>2, TailRange DEF MonType
    <3> QED BY <3>2, <3>3 DEF MonType
  <2> QED BY <2>1, <2>2, <2>3
<1>3. seen1' \subseteq seen1 /\ seen2' \subseteq seen2
  BY <1>2, TrackShrinks DEF PingStarts
<1> QED BY <1>1, <1>2, <1>3 DEF IInv, ListInv, PingInv, Pinging

\* Registrations change the list, between two checks only.
LEMMA DeliverInv ==
    ASSUME IInv, Track, NEW o \in Obj, DeliverStep(o)
    PROVE  IInv'
<1>1. /\ mon' = mon /\ isActive' = isActive /\ plan' = plan
      /\ managed' \in {Without(managed, o), managed, Append(managed, o)}
  BY DEF DeliverStep, Deliver
<1>2. managed' \in Seq(Obj)
  <2>1. managed \in Seq(Obj)
    BY DEF IInv, ListInv
  <2> QED BY <1>1, <2>1, WithoutSeq
<1> QED BY <1>1, <1>2, MonitorFrame

\* Whatever programs and objects do, they leave the monitor alone.
LEMMA OthersInv ==
    ASSUME IInv, Track,
           \/ \E p \in Proc : UserStep(p) \/ CreateStep(p)
           \/ \E o \in Obj : ObjMain(o) \/ OpenThis(o) \/ Built(o) \/ Alarm(o)
                             \/ OnCloseConnection(o) \/ ObjectStep(o)
           \/ MainReturns
           \/ MainFails
    PROVE  IInv'
<1>1. /\ managed' = managed /\ isActive' = isActive /\ plan' = plan
      /\ mon' = mon \/ mon' = [mon EXCEPT !.killall = TRUE]
  BY DEF UserStep, CreateStep, ObjectStep, Allocate, CopyReference, Release, Call,
         Construct, AllocFails, ObjMain, OpenThis, Built, Alarm, OnCloseConnection, Start, EndCall,
         Unpacked, Leave, Exit, MainReturns, MainFails, monitor
<1> QED BY <1>1, MonitorFrame DEF IInv, ListInv

-----------------------------------------------------------------------------
LEMMA InitInv == Init => IInv
<1> SUFFICES ASSUME Init PROVE IInv
  OBVIOUS
<1>1. <<>> \in Seq(Obj)
  OBVIOUS
<1> QED BY <1>1 DEF Init, IInv, ListInv, PingInv, Pinging, MonType

LEMMA NextInv == IInv /\ [Next]_vars => IInv'
<1> SUFFICES ASSUME IInv, [Next]_vars PROVE IInv'
  OBVIOUS
<1>1. CASE UNCHANGED vars
  <2>1. UNCHANGED <<plan, managed, isActive, mon, seen1, seen2>>
    BY <1>1 DEF vars, monitor, seen
  <2> QED BY <2>1 DEF IInv, ListInv, PingInv, Pinging, MonType
<1>2. CASE Next
  <2>1. Step /\ Track
    BY <1>2 DEF Next
  <2> QED BY <2>1, CheckObjectsInv, PingBindInv, PingUnrefInv, PingAskInv, PingDropInv,
             CheckReturnsInv, KillInv, DeliverInv, OthersInv DEF Step, MonitorStep
<1> QED BY <1>1, <1>2

\* The two pings in a row are what IInv says of them, in every state.
THEOREM Inductive == Spec => []IInv
  BY InitInv, NextInv, PTL DEF Spec

\* The monitor gives references away only when no object of the application has
\* been active since before the previous ping began: DropsOnlyIdle
\* (ObjectMonitor::CheckObjects, its two flags active and isActive).
THEOREM DropsWhenIdle == Spec => DropsOnlyIdle
<1>1. IInv /\ [Next]_vars => [mon.pc = "drop" /\ touched' # touched => seen2 = {}]_vars
  BY DEF IInv, PingInv, Pinging
<1> QED BY <1>1, Inductive, PTL DEF Spec, DropsOnlyIdle


-----------------------------------------------------------------------------
(* Sums and occurrences. *)

\* What SumOver counts.
Tokens(f) == UNION {{x} \X (1..f[x]) : x \in DOMAIN f}

\* A token is an argument of f and a number up to its value.
LEMMA TokensIn ==
    ASSUME NEW P, NEW f \in [P -> Nat], NEW e
    PROVE  e \in Tokens(f) <=> \E x \in P : \E i \in 1..f[x] : e = <<x, i>>
<1>1. ASSUME e \in Tokens(f) PROVE \E x \in P : \E i \in 1..f[x] : e = <<x, i>>
  <2>1. PICK x \in P : e \in {x} \X (1..f[x])
    BY <1>1 DEF Tokens
  <2> QED BY <2>1
<1>2. ASSUME NEW x \in P, NEW i \in 1..f[x], e = <<x, i>> PROVE e \in Tokens(f)
  <2>1. e \in {x} \X (1..f[x])
    BY <1>2
  <2> QED BY <2>1 DEF Tokens
<1> QED BY <1>1, <1>2

\* The tokens of one argument.
LEMMA TokensOf ==
    ASSUME NEW p, NEW n \in Nat
    PROVE  IsFiniteSet({p} \X (1..n)) /\ Cardinality({p} \X (1..n)) = n
<1>1. PICK A : A = {p}
  OBVIOUS
<1>2. PICK B : B = 1..n
  OBVIOUS
<1>3. IsFiniteSet(A) /\ Cardinality(A) = 1
  BY <1>1, FS_Singleton
<1>4. IsFiniteSet(B) /\ Cardinality(B) = IF 1 > n THEN 0 ELSE n - 1 + 1
  BY <1>2, FS_Interval
<1>5. Cardinality(B) = n
  BY <1>4
<1>6. IsFiniteSet(A \X B) /\ Cardinality(A \X B) = Cardinality(A) * Cardinality(B)
  BY <1>3, <1>4, FS_Product
<1>7. Cardinality(A \X B) = n
  BY <1>3, <1>5, <1>6
<1> QED BY <1>1, <1>2, <1>6, <1>7

\* There are finitely many tokens.
LEMMA TokensFinite ==
    ASSUME NEW P, IsFiniteSet(P), NEW f \in [P -> Nat]
    PROVE  IsFiniteSet(Tokens(f))
<1> DEFINE T == {{x} \X (1..f[x]) : x \in P}
           g == [x \in P |-> {x} \X (1..f[x])]
<1>1. g \in Surjection(P, T)
  BY DEF Surjection
<1>2. IsFiniteSet(T)
  BY <1>1, FS_Surjection
<1>3. ASSUME NEW x \in P PROVE IsFiniteSet({x} \X (1..f[x]))
  <2> QED BY TokensOf
<1>4. \A t \in T : IsFiniteSet(t)
  BY <1>3
<1>5. IsFiniteSet(UNION T)
  BY <1>2, <1>4, FS_UNION
<1> QED BY <1>5 DEF Tokens

\* The tokens of one argument and those of the others.
LEMMA SumSplit ==
    ASSUME NEW P, IsFiniteSet(P), NEW f \in [P -> Nat], NEW p \in P
    PROVE  /\ IsFiniteSet({e \in Tokens(f) : e[1] # p})
           /\ SumOver(f) = Cardinality({e \in Tokens(f) : e[1] # p}) + f[p]
<1> DEFINE R == {e \in Tokens(f) : e[1] # p}
           O == {p} \X (1..f[p])
<1>1. Tokens(f) = R \cup O /\ R \cap O = {}
  BY TokensIn
<1>2. IsFiniteSet(R)
  BY TokensFinite, FS_Subset
<1>3. IsFiniteSet(O) /\ Cardinality(O) = f[p]
  BY TokensOf
<1>4. Cardinality(R \cap O) = 0
  BY <1>1, FS_EmptySet
<1>5. Cardinality(R) \in Nat
  BY <1>2, FS_CardinalityType
<1> HIDE DEF R, O
<1>6. Cardinality(R \cup O) = Cardinality(R) + Cardinality(O) - Cardinality(R \cap O)
  BY <1>2, <1>3, FS_Union
<1>7. SumOver(f) = Cardinality(R \cup O)
  BY <1>1 DEF SumOver, Tokens
<1>8. SumOver(f) = Cardinality(R) + f[p]
  BY <1>3, <1>4, <1>5, <1>6, <1>7
<1> QED BY <1>2, <1>8 DEF R

\* A sum is a number, not smaller than any of its parts.
LEMMA SumType ==
    ASSUME NEW P, IsFiniteSet(P), NEW f \in [P -> Nat]
    PROVE  SumOver(f) \in Nat /\ \A p \in P : SumOver(f) >= f[p]
<1>1. SumOver(f) \in Nat
  BY TokensFinite, FS_CardinalityType DEF SumOver, Tokens
<1>2. ASSUME NEW p \in P PROVE SumOver(f) >= f[p]
  <2>1. PICK R : R = {e \in Tokens(f) : e[1] # p}
    OBVIOUS
  <2>2. IsFiniteSet(R) /\ SumOver(f) = Cardinality(R) + f[p]
    BY <2>1, SumSplit
  <2>3. Cardinality(R) \in Nat
    BY <2>2, FS_CardinalityType
  <2> QED BY <2>2, <2>3
<1> QED BY <1>1, <1>2

\* A sum is zero when all its parts are.
LEMMA SumZero ==
    ASSUME NEW P, IsFiniteSet(P), NEW f \in [P -> Nat], \A p \in P : f[p] = 0
    PROVE  SumOver(f) = 0
<1>1. Tokens(f) = {}
  BY TokensIn
<1> QED BY <1>1, FS_EmptySet DEF SumOver, Tokens

\* When one part changes the sum changes by as much.
LEMMA SumChange ==
    ASSUME NEW P, IsFiniteSet(P), NEW f \in [P -> Nat], NEW g \in [P -> Nat], NEW p \in P,
           \A x \in P \ {p} : g[x] = f[x]
    PROVE  SumOver(g) = SumOver(f) - f[p] + g[p]
<1>1. PICK R : R = {e \in Tokens(f) : e[1] # p}
  OBVIOUS
<1>2. R = {e \in Tokens(g) : e[1] # p}
  BY <1>1, TokensIn
<1>3. IsFiniteSet(R) /\ SumOver(f) = Cardinality(R) + f[p]
  BY <1>1, SumSplit
<1>4. SumOver(g) = Cardinality(R) + g[p]
  BY <1>2, SumSplit
<1>5. Cardinality(R) \in Nat
  BY <1>3, FS_CardinalityType
<1> QED BY <1>3, <1>4, <1>5

\* How often something is in a sequence.
LEMMA OccursType ==
    ASSUME NEW S, NEW s \in Seq(S), NEW x
    PROVE  /\ IsFiniteSet({i \in 1..Len(s) : s[i] = x})
           /\ Occurs(s, x) \in Nat
           /\ Occurs(s, x) = 0 <=> \A i \in 1..Len(s) : s[i] # x
<1> DEFINE I == {i \in 1..Len(s) : s[i] = x}
<1>1. Len(s) \in Nat
  OBVIOUS
<1>2. IsFiniteSet(I)
  <2>1. PICK D : D = 1..Len(s)
    OBVIOUS
  <2>2. IsFiniteSet(D)
    BY <1>1, <2>1, FS_Interval
  <2>3. I \in SUBSET D
    BY <2>1
  <2> QED BY <2>2, <2>3, FS_Subset
<1>3. Cardinality(I) \in Nat
  BY <1>2, FS_CardinalityType
<1>4. Cardinality(I) = 0 <=> I = {}
  BY <1>2, FS_EmptySet
<1> QED BY <1>2, <1>3, <1>4 DEF Occurs

\* One more at the end.
LEMMA OccursAppend ==
    ASSUME NEW S, NEW s \in Seq(S), NEW y \in S, NEW x
    PROVE  Occurs(Append(s, y), x) = Occurs(s, x) + (IF y = x THEN 1 ELSE 0)
<1> DEFINE I == {i \in 1..Len(s) : s[i] = x}
           J == {i \in 1..Len(Append(s, y)) : Append(s, y)[i] = x}
<1>1. /\ Len(s) \in Nat /\ Len(Append(s, y)) = Len(s) + 1
      /\ \A i \in 1..Len(s) : Append(s, y)[i] = s[i]
      /\ Append(s, y)[Len(s) + 1] = y
  OBVIOUS
<1>2. IsFiniteSet(I) /\ Cardinality(I) \in Nat
  BY OccursType DEF Occurs
<1>3. CASE y = x
  <2>1. J = I \cup {Len(s) + 1} /\ Len(s) + 1 \notin I
    BY <1>1, <1>3
  <2>2. Cardinality(J) = Cardinality(I) + 1
    BY <1>2, <2>1, FS_AddElement
  <2> QED BY <1>3, <2>2 DEF Occurs
<1>4. CASE y # x
  <2>1. J = I
    BY <1>1, <1>4
  <2>2. Occurs(s, x) \in Nat /\ Occurs(Append(s, y), x) = Occurs(s, x)
    BY <1>2, <2>1 DEF Occurs
  <2> QED BY <1>4, <2>2
<1> QED BY <1>3, <1>4

\* The first one is taken.
LEMMA OccursTail ==
    ASSUME NEW S, NEW s \in Seq(S), s # <<>>, NEW x
    PROVE  Occurs(Tail(s), x) = Occurs(s, x) - (IF Head(s) = x THEN 1 ELSE 0)
<1> DEFINE I == {i \in 1..Len(s) : s[i] = x}
           J == {i \in 1..Len(Tail(s)) : Tail(s)[i] = x}
           f == [j \in J |-> j + 1]
<1>1. /\ Len(s) \in Nat \ {0} /\ Len(Tail(s)) = Len(s) - 1 /\ Head(s) = s[1] /\ Tail(s) \in Seq(S)
      /\ \A i \in 1..(Len(s) - 1) : Tail(s)[i] = s[i + 1]
  OBVIOUS
<1>2. IsFiniteSet(I) /\ Cardinality(I) \in Nat
  BY OccursType DEF Occurs
<1>3. IsFiniteSet(J)
  BY <1>1, OccursType
<1>4. f \in Bijection(J, I \ {1})
  <2>1. f \in [J -> I \ {1}]
    BY <1>1
  <2>2. \A a, b \in J : f[a] = f[b] => a = b
    BY <1>1
  <2>3. \A k \in I \ {1} : \E j \in J : f[j] = k
    <3>1. ASSUME NEW k \in I \ {1} PROVE k - 1 \in J /\ f[k - 1] = k
      BY <1>1
    <3> QED BY <3>1
  <2> HIDE DEF f, I, J
  <2>4. IsInjective(f)
    BY <2>1, <2>2 DEF IsInjective
  <2> QED BY <2>1, <2>3, <2>4 DEF Bijection, Injection, Surjection
<1>5. Cardinality(I \ {1}) = Cardinality(J)
  BY <1>3, <1>4, FS_Bijection DEF ExistsBijection
<1>6. Cardinality(I \ {1}) = IF 1 \in I THEN Cardinality(I) - 1 ELSE Cardinality(I)
  BY <1>2, FS_RemoveElement
<1>7. 1 \in I <=> Head(s) = x
  BY <1>1
<1>8. Occurs(s, x) = Cardinality(I) /\ Occurs(Tail(s), x) = Cardinality(J)
  BY DEF Occurs
<1> HIDE DEF I, J
<1> QED BY <1>2, <1>5, <1>6, <1>7, <1>8

-----------------------------------------------------------------------------
(* References held and references that travel. *)

Rows == [Proc -> [Obj -> Nat]]
Sent == [Obj -> [Obj -> Nat]]
Fifos == [Obj -> Seq(Obj \cup {None})]

\* Held and Travelling of given tables.
RowSum(r, o) == SumOver([p \in Proc |-> r[p][o]])
SentSum(pe, qu, o) == SumOver([q \in Obj |-> pe[q][o] + Occurs(qu[q], o)])

\* There are finitely many processes.
LEMMA ProcFinite == IsFiniteSet(Proc)
<1>1. IsFiniteSet(Obj)
  BY ApplicationAssumption
<1> QED BY <1>1, FS_AddElement DEF Proc

\* The references to an object are at least those of each process, and none
\* exactly when no process has one.
LEMMA RowSumType ==
    ASSUME NEW r \in Rows, NEW o \in Obj
    PROVE  /\ RowSum(r, o) \in Nat
           /\ \A p \in Proc : RowSum(r, o) >= r[p][o]
           /\ (\A p \in Proc : r[p][o] = 0) => RowSum(r, o) = 0
<1>1. PICK f : f = [p \in Proc |-> r[p][o]]
  OBVIOUS
<1>2. f \in [Proc -> Nat] /\ \A p \in Proc : f[p] = r[p][o]
  BY <1>1 DEF Rows
<1>3. SumOver(f) \in Nat /\ \A p \in Proc : SumOver(f) >= f[p]
  BY <1>2, ProcFinite, SumType
<1>4. (\A p \in Proc : f[p] = 0) => SumOver(f) = 0
  BY <1>2, ProcFinite, SumZero
<1>5. RowSum(r, o) = SumOver(f)
  BY <1>1 DEF RowSum
<1> QED BY <1>2, <1>3, <1>4, <1>5

\* One process changes what it holds.
LEMMA RowSumChange ==
    ASSUME NEW r \in Rows, NEW s \in Rows, NEW o \in Obj, NEW p \in Proc,
           \A q \in Proc \ {p} : s[q][o] = r[q][o]
    PROVE  RowSum(s, o) = RowSum(r, o) - r[p][o] + s[p][o]
<1>1. PICK f : f = [q \in Proc |-> r[q][o]]
  OBVIOUS
<1>2. PICK g : g = [q \in Proc |-> s[q][o]]
  OBVIOUS
<1>3. /\ f \in [Proc -> Nat] /\ \A q \in Proc : f[q] = r[q][o]
      /\ g \in [Proc -> Nat] /\ \A q \in Proc : g[q] = s[q][o]
  BY <1>1, <1>2 DEF Rows
<1>4. SumOver(g) = SumOver(f) - f[p] + g[p]
  BY <1>3, ProcFinite, SumChange
<1> QED BY <1>1, <1>2, <1>3, <1>4 DEF RowSum

\* The references to o that travel to one object.
LEMMA SentPart ==
    ASSUME NEW pe \in Sent, NEW qu \in Fifos, NEW q \in Obj, NEW o \in Obj
    PROVE  /\ pe[q][o] \in Nat /\ Occurs(qu[q], o) \in Nat
           /\ pe[q][o] + Occurs(qu[q], o) \in Nat
           /\ Occurs(qu[q], o) = 0 <=> \A i \in 1..Len(qu[q]) : qu[q][i] # o
<1>1. pe[q][o] \in Nat /\ qu[q] \in Seq(Obj \cup {None})
  BY DEF Sent, Fifos
<1>2. /\ Occurs(qu[q], o) \in Nat
      /\ Occurs(qu[q], o) = 0 <=> \A i \in 1..Len(qu[q]) : qu[q][i] # o
  BY <1>1, OccursType
<1> QED BY <1>1, <1>2

\* The references that travel are at least those that travel to each object.
LEMMA SentSumType ==
    ASSUME NEW pe \in Sent, NEW qu \in Fifos, NEW o \in Obj
    PROVE  /\ SentSum(pe, qu, o) \in Nat
           /\ \A q \in Obj : SentSum(pe, qu, o) >= pe[q][o] + Occurs(qu[q], o)
           /\ (\A q \in Obj : pe[q][o] + Occurs(qu[q], o) = 0) => SentSum(pe, qu, o) = 0
<1>1. PICK f : f = [q \in Obj |-> pe[q][o] + Occurs(qu[q], o)]
  OBVIOUS
<1>2. f \in [Obj -> Nat] /\ \A q \in Obj : f[q] = pe[q][o] + Occurs(qu[q], o)
  BY <1>1, SentPart
<1>3. IsFiniteSet(Obj)
  BY ApplicationAssumption
<1>4. SumOver(f) \in Nat /\ \A q \in Obj : SumOver(f) >= f[q]
  BY <1>2, <1>3, SumType
<1>5. (\A q \in Obj : f[q] = 0) => SumOver(f) = 0
  BY <1>2, <1>3, SumZero
<1>6. SentSum(pe, qu, o) = SumOver(f)
  BY <1>1 DEF SentSum
<1> QED BY <1>2, <1>4, <1>5, <1>6

\* What travels to one object changes.
LEMMA SentSumChange ==
    ASSUME NEW pe \in Sent, NEW qu \in Fifos, NEW pf \in Sent, NEW qv \in Fifos,
           NEW o \in Obj, NEW q \in Obj,
           \A y \in Obj \ {q} : pf[y][o] = pe[y][o] /\ qv[y] = qu[y]
    PROVE  SentSum(pf, qv, o) = SentSum(pe, qu, o) - (pe[q][o] + Occurs(qu[q], o))
                                                   + (pf[q][o] + Occurs(qv[q], o))
<1>1. PICK f : f = [y \in Obj |-> pe[y][o] + Occurs(qu[y], o)]
  OBVIOUS
<1>2. PICK g : g = [y \in Obj |-> pf[y][o] + Occurs(qv[y], o)]
  OBVIOUS
<1>3. f \in [Obj -> Nat] /\ \A y \in Obj : f[y] = pe[y][o] + Occurs(qu[y], o)
  BY <1>1, SentPart
<1>4. g \in [Obj -> Nat] /\ \A y \in Obj : g[y] = pf[y][o] + Occurs(qv[y], o)
  BY <1>2, SentPart
<1>5. \A y \in Obj \ {q} : g[y] = f[y]
  BY <1>3, <1>4
<1>6. SumOver(g) = SumOver(f) - f[q] + g[q]
  BY <1>3, <1>4, <1>5, ApplicationAssumption, SumChange
<1>7. SentSum(pe, qu, o) = SumOver(f) /\ SentSum(pf, qv, o) = SumOver(g)
  BY <1>1, <1>2 DEF SentSum
<1> QED BY <1>3, <1>4, <1>6, <1>7

-----------------------------------------------------------------------------
(* The counts are exact. *)

Early == {"none", "spawned", "ready"}
Born  == {"building", "alive", "draining"}

\* The monitor has heard of o, or will.
Known(o) ==
    \/ o \in Range(managed) \/ o \in Range(mon.todo)
    \/ <<"manage", o>> \in toMon \/ <<"unmanage", o>> \in toMon

\* What the count of o should be.
Counted(o) == Held(o) + closing[o] + Travelling(o) + (IF Probing(o) THEN 1 ELSE 0)

\* The types of everything but the monitor and main.
CountType ==
    /\ plan \in Plans
    /\ phase \in [Obj -> Phases]
    /\ alloc \in [Proc -> Obj \cup {None}]
    /\ refcount \in [Obj -> Int]
    /\ refs \in Rows
    /\ closing \in [Obj -> Nat]
    /\ pending \in Sent
    /\ queued \in Fifos
    /\ serving \in [Obj -> BOOLEAN]
    /\ conc \in [Obj -> Nat]
    /\ calls \in 0..plan.calls
    /\ toMon \subseteq {"manage", "unmanage"} \X Obj

MainType == [pc : {"run", "finalize", "wait", "done"},
             loop : 0..ResetAt, oldcount : Nat, normal : BOOLEAN]

Once(s) == \A i, j \in 1..Len(s) : s[i] = s[j] => i = j

\* Before its constructor runs nobody refers to an object and no close is under way.
Unborn(o) == phase[o] \in Early => Held(o) = 0 /\ closing[o] = 0 /\ ~Known(o)

\* A reference is packed into a call only once the object exists.
Unsent(o) == phase[o] \in Early \cup {"building"} => Travelling(o) = 0

\* Only the creator refers to an object under construction, and a ping that
\* reaches it is recorded.
Owner(o) == phase[o] = "building" => /\ Probing(o) => o \in touched
                                     /\ \A p \in Proc : refs[p][o] > 0 => alloc[p] = o

\* Unix domain sockets have no receive thread that notices closes.
NoCloses(o) == plan.mode = "uds" => closing[o] = 0

\* The count covers every reference, and is exactly that when none was lost.
Covered(o) ==
    phase[o] \in Born /\ o \notin touched =>
      /\ plan.mode = "socket" => /\ refcount[o] >= Counted(o)
                                 /\ o \notin orphans => refcount[o] = Counted(o)
      /\ plan.mode = "uds" => refcount[o] >= 1 + Travelling(o)

OInv(o) == Unborn(o) /\ Unsent(o) /\ NoCloses(o) /\ Covered(o)

CInv == CountType /\ \A o \in Obj : OInv(o) /\ Owner(o)

RInv == CInv /\ self \subseteq Obj /\ main \in MainType /\ Once(managed)

\* What the counts are made of.
LEMMA Numbers ==
    ASSUME CountType, NEW o \in Obj
    PROVE  /\ Held(o) \in Nat /\ Travelling(o) \in Nat /\ closing[o] \in Nat
           /\ refcount[o] \in Int /\ phase[o] \in Phases
           /\ Held(o) = RowSum(refs, o) /\ Travelling(o) = SentSum(pending, queued, o)
           /\ \A p \in Proc : refs[p][o] \in Nat /\ Held(o) >= refs[p][o]
<1>1. Held(o) = RowSum(refs, o) /\ Travelling(o) = SentSum(pending, queued, o)
  BY DEF Held, RowSum, Travelling, SentSum
<1>2. /\ refs \in Rows /\ pending \in Sent /\ queued \in Fifos
      /\ closing[o] \in Nat /\ refcount[o] \in Int /\ phase[o] \in Phases
  BY DEF CountType
<1>3. \A p \in Proc : refs[p][o] \in Nat
  BY <1>2 DEF Rows
<1>4. RowSum(refs, o) \in Nat /\ \A p \in Proc : RowSum(refs, o) >= refs[p][o]
  BY <1>2, RowSumType
<1>5. SentSum(pending, queued, o) \in Nat
  BY <1>2, SentSumType
<1> QED BY <1>1, <1>2, <1>3, <1>4, <1>5

LEMMA Mode ==
    ASSUME CountType
    PROVE  plan.mode \in {"socket", "uds"}
  BY ApplicationAssumption DEF CountType, PlanType

\* ... in the next state.
LEMMA NumbersNext ==
    ASSUME CountType', NEW o \in Obj
    PROVE  /\ Held(o)' \in Nat /\ Travelling(o)' \in Nat /\ closing'[o] \in Nat
           /\ refcount'[o] \in Int /\ phase'[o] \in Phases
<1>1. Held(o)' = RowSum(refs', o) /\ Travelling(o)' = SentSum(pending', queued', o)
  BY DEF Held, RowSum, Travelling, SentSum
<1>2. /\ refs' \in Rows /\ pending' \in Sent /\ queued' \in Fifos
      /\ closing'[o] \in Nat /\ refcount'[o] \in Int /\ phase'[o] \in Phases
  BY DEF CountType
<1>3. RowSum(refs', o) \in Nat
  BY <1>2, RowSumType
<1>4. SentSum(pending', queued', o) \in Nat
  BY <1>2, SentSumType
<1> QED BY <1>1, <1>2, <1>3, <1>4

\* Held of the next state.
LEMMA HeldNext ==
    ASSUME CountType, refs' \in Rows, NEW p \in Proc, NEW o \in Obj,
           \A q \in Proc \ {p} : refs'[q][o] = refs[q][o]
    PROVE  Held(o)' = Held(o) - refs[p][o] + refs'[p][o]
<1>1. Held(o) = RowSum(refs, o) /\ Held(o)' = RowSum(refs', o)
  BY DEF Held, RowSum
<1>2. PICK r \in Rows : r = refs
  BY DEF CountType
<1>3. PICK s \in Rows : s = refs'
  OBVIOUS
<1>4. RowSum(s, o) = RowSum(r, o) - r[p][o] + s[p][o]
  BY <1>2, <1>3, RowSumChange
<1> QED BY <1>1, <1>2, <1>3, <1>4

\* p holds v references to o.
Put(r, p, o, v) == [r EXCEPT ![p][o] = v]

\* A process gets or gives one reference: the others are as they were.
LEMMA HeldOne ==
    ASSUME CountType, NEW p \in Proc, NEW o \in Obj, NEW v \in Nat,
           refs' = Put(refs, p, o, v)
    PROVE  /\ refs' \in Rows
           /\ Held(o)' = Held(o) - refs[p][o] + v
           /\ \A x \in Obj \ {o} : Held(x)' = Held(x)
           /\ \A q \in Proc, x \in Obj : q # p \/ x # o => refs'[q][x] = refs[q][x]
           /\ refs'[p][o] = v
<1>1. /\ refs \in Rows /\ refs' \in Rows /\ refs'[p][o] = v
      /\ \A q \in Proc, x \in Obj : q # p \/ x # o => refs'[q][x] = refs[q][x]
  BY DEF CountType, Rows, Put
<1>2. Held(o)' = Held(o) - refs[p][o] + v
  BY <1>1, HeldNext
<1>3. ASSUME NEW x \in Obj \ {o} PROVE Held(x)' = Held(x)
  <2>1. Held(x)' = Held(x) - refs[p][x] + refs'[p][x]
    BY <1>1, HeldNext
  <2>2. refs'[p][x] = refs[p][x] /\ refs[p][x] \in Nat /\ Held(x) \in Nat
    BY <1>1, Numbers
  <2> QED BY <2>1, <2>2
<1> QED BY <1>1, <1>2, <1>3

\* Travelling of the next state.
LEMMA TravelNext ==
    ASSUME CountType, pending' \in Sent, queued' \in Fifos, NEW q \in Obj, NEW o \in Obj,
           \A y \in Obj \ {q} : pending'[y][o] = pending[y][o] /\ queued'[y] = queued[y]
    PROVE  /\ Travelling(o)' = Travelling(o) - (pending[q][o] + Occurs(queued[q], o))
                                             + (pending'[q][o] + Occurs(queued'[q], o))
           /\ Travelling(o) >= pending[q][o] + Occurs(queued[q], o)
           /\ pending[q][o] \in Nat /\ Occurs(queued[q], o) \in Nat
           /\ pending'[q][o] \in Nat /\ Occurs(queued'[q], o) \in Nat
<1>1. /\ Travelling(o) = SentSum(pending, queued, o)
      /\ Travelling(o)' = SentSum(pending', queued', o)
  BY DEF Travelling, SentSum
<1>2. PICK pe \in Sent : pe = pending
  BY DEF CountType
<1>3. PICK qu \in Fifos : qu = queued
  BY DEF CountType
<1>4. PICK pf \in Sent : pf = pending'
  OBVIOUS
<1>5. PICK qv \in Fifos : qv = queued'
  OBVIOUS
<1>0. \A y \in Obj \ {q} : pf[y][o] = pe[y][o] /\ qv[y] = qu[y]
  BY <1>2, <1>3, <1>4, <1>5
<1>6. SentSum(pf, qv, o) = SentSum(pe, qu, o) - (pe[q][o] + Occurs(qu[q], o))
                                              + (pf[q][o] + Occurs(qv[q], o))
  BY <1>0, SentSumChange
<1>7. SentSum(pe, qu, o) >= pe[q][o] + Occurs(qu[q], o)
  BY SentSumType
<1>8. pe[q][o] \in Nat /\ Occurs(qu[q], o) \in Nat /\ pf[q][o] \in Nat /\ Occurs(qv[q], o) \in Nat
  BY SentPart
<1> QED BY <1>1, <1>2, <1>3, <1>4, <1>5, <1>6, <1>7, <1>8

\* An object a step does not concern.
LEMMA Untouched ==
    ASSUME CInv, CountType', NEW x \in Obj, plan' = plan, phase'[x] = phase[x],
           refcount'[x] = refcount[x], closing'[x] = closing[x],
           Held(x)' = Held(x), Travelling(x)' = Travelling(x),
           Probing(x)' <=> Probing(x),
           x \in touched' <=> x \in touched, x \in orphans' <=> x \in orphans,
           Known(x)' => Known(x)
    PROVE  OInv(x)'
<1>1. OInv(x)
  BY DEF CInv
<1>2. Counted(x)' = Counted(x)
  BY DEF Counted
<1>3. Unborn(x)' /\ Unsent(x)' /\ NoCloses(x)'
  BY <1>1 DEF OInv, Unborn, Unsent, NoCloses
<1>4. Covered(x)'
  BY <1>1, <1>2 DEF OInv, Covered
<1> QED BY <1>3, <1>4 DEF OInv

\* What the count should be, before and after a step.
LEMMA CountedNext ==
    ASSUME CountType, CountType', NEW x \in Obj
    PROVE  /\ Counted(x) \in Nat /\ Counted(x)' \in Nat
           /\ (Probing(x)' <=> Probing(x)) =>
                Counted(x)' = Counted(x) + (Held(x)' - Held(x)) + (closing'[x] - closing[x])
                              + (Travelling(x)' - Travelling(x))
           /\ Probing(x) => Counted(x) = Held(x) + closing[x] + Travelling(x) + 1
           /\ ~Probing(x) => Counted(x) = Held(x) + closing[x] + Travelling(x)
           /\ Probing(x)' => Counted(x)' = Held(x)' + closing'[x] + Travelling(x)' + 1
           /\ ~Probing(x)' => Counted(x)' = Held(x)' + closing'[x] + Travelling(x)'
<1>1. Held(x) \in Nat /\ Travelling(x) \in Nat /\ closing[x] \in Nat
  BY Numbers
<1>2. Held(x)' \in Nat /\ Travelling(x)' \in Nat /\ closing'[x] \in Nat
  BY NumbersNext
<1>3. /\ Probing(x) => Counted(x) = Held(x) + closing[x] + Travelling(x) + 1
      /\ ~Probing(x) => Counted(x) = Held(x) + closing[x] + Travelling(x)
  BY <1>1 DEF Counted
<1>4. /\ Probing(x)' => Counted(x)' = Held(x)' + closing'[x] + Travelling(x)' + 1
      /\ ~Probing(x)' => Counted(x)' = Held(x)' + closing'[x] + Travelling(x)'
  BY <1>2 DEF Counted
<1> QED BY <1>1, <1>2, <1>3, <1>4

\* The count of an object and what it counts change by as much.
LEMMA Shifted ==
    ASSUME CInv, CountType', NEW x \in Obj, plan' = plan, phase'[x] = phase[x],
           phase[x] \in {"alive", "draining", "gone"},
           x \in touched => x \in touched', x \in orphans => x \in orphans',
           plan.mode = "uds" => closing'[x] = 0,
           plan.mode = "socket" /\ phase[x] # "gone" /\ x \notin touched' =>
               refcount'[x] - Counted(x)' = refcount[x] - Counted(x),
           plan.mode = "uds" /\ phase[x] # "gone" /\ x \notin touched' =>
               refcount'[x] - Travelling(x)' = refcount[x] - Travelling(x)
    PROVE  OInv(x)'
<1>1. OInv(x) /\ CountType
  BY DEF CInv
<1>2. Unborn(x)' /\ Unsent(x)' /\ NoCloses(x)'
  BY <1>1 DEF Unborn, Unsent, NoCloses, Early
<1>3. /\ refcount[x] \in Int /\ Travelling(x) \in Nat
      /\ Held(x) \in Nat /\ closing[x] \in Nat
  BY <1>1, Numbers
<1>4. /\ refcount'[x] \in Int /\ Travelling(x)' \in Nat
      /\ Held(x)' \in Nat /\ closing'[x] \in Nat
  BY NumbersNext
<1>5. Counted(x) \in Int /\ Counted(x)' \in Int
  BY <1>3, <1>4 DEF Counted
<1>6. Covered(x)'
  BY <1>1, <1>3, <1>4, <1>5 DEF OInv, Covered, Born
<1> QED BY <1>2, <1>6 DEF OInv

\* Probes and lists of a step that leaves the monitor alone.
LEMMA SameMonitor ==
    ASSUME UNCHANGED <<mon, managed, toMon>>, NEW x
    PROVE  (Probing(x)' <=> Probing(x)) /\ (Known(x)' <=> Known(x))
  BY DEF Probing, Known

\* Sums of a step that moves no reference.
LEMMA SameSums ==
    ASSUME NEW x
    PROVE  /\ refs' = refs => Held(x)' = Held(x)
           /\ UNCHANGED <<pending, queued>> => Travelling(x)' = Travelling(x)
  BY DEF Held, Travelling

\* Who refers to an object under construction.
LEMMA OwnerKept ==
    ASSUME CInv, NEW x \in Obj, phase'[x] = "building" => phase[x] = "building",
           Probing(x)' => Probing(x) \/ x \in touched', x \in touched => x \in touched',
           \A q \in Proc : refs'[q][x] > 0 =>
               refs[q][x] > 0 /\ (alloc[q] = x => alloc'[q] = x)
    PROVE  Owner(x)'
  BY DEF CInv, Owner

-----------------------------------------------------------------------------
(* Creation. *)

LEMMA AllocateR ==
    ASSUME CInv, NEW p \in Proc, NEW o \in Obj, Allocate(p, o)
    PROVE  CInv'
<1>1. /\ phase[o] = "none" /\ phase' = [phase EXCEPT ![o] = "spawned"]
      /\ alloc[p] = None /\ alloc' = [alloc EXCEPT ![p] = o]
      /\ UNCHANGED <<plan, refcount, closing, refs, queued, serving, conc, pending, calls>>
      /\ UNCHANGED <<mon, managed, toMon>> /\ UNCHANGED <<touched, orphans>>
  BY DEF Allocate, Free, count, inside, monitor, marks
<1>2. CountType /\ \A x \in Obj : OInv(x) /\ Owner(x)
  BY DEF CInv
<1>3. CountType'
  BY <1>1, <1>2 DEF CountType, Phases
<1>4. ASSUME NEW x \in Obj PROVE OInv(x)'
  <2>1. /\ Probing(x)' <=> Probing(x)
        /\ Known(x)' <=> Known(x)
        /\ Held(x)' = Held(x) /\ Travelling(x)' = Travelling(x)
    BY <1>1, SameMonitor, SameSums
  <2>2. CASE x # o
    <3>1. phase'[x] = phase[x]
      BY <1>1, <1>2, <2>2 DEF CountType
    <3> QED BY <1>1, <1>3, <2>1, <3>1, Untouched
  <2>3. CASE x = o
    <3>1. phase'[o] = "spawned" /\ phase[o] = "none"
      BY <1>1, <1>2 DEF CountType
    <3> QED BY <1>1, <1>2, <2>1, <2>3, <3>1
            DEF OInv, Unborn, Unsent, NoCloses, Covered, Early, Born
  <2> QED BY <2>2, <2>3
<1>5. ASSUME NEW x \in Obj PROVE Owner(x)'
  <2>1. Probing(x)' <=> Probing(x)
    BY <1>1, SameMonitor
  <2>2. phase'[x] = "building" => phase[x] = "building"
    BY <1>1, <1>2 DEF CountType
  <2>3. \A q \in Proc : alloc[q] = x => alloc'[q] = x
    BY <1>1, <1>2, ApplicationAssumption DEF CountType, Proc
  <2> QED BY <1>1, <2>1, <2>2, <2>3, OwnerKept
<1> QED BY <1>3, <1>4, <1>5 DEF CInv

LEMMA ObjMainR ==
    ASSUME CInv, NEW o \in Obj, ObjMain(o)
    PROVE  CInv'
<1>1. /\ phase[o] = "spawned"
      /\ phase' = [phase EXCEPT ![o] = "ready"] \/ phase' = [phase EXCEPT ![o] = "gone"]
      /\ UNCHANGED <<plan, alloc, refcount, closing, refs, queued, serving, conc, pending, calls>>
      /\ UNCHANGED <<mon, managed, toMon>> /\ UNCHANGED <<touched, orphans>>
  BY DEF ObjMain, count, inside, monitor, marks
<1>2. CountType /\ \A x \in Obj : OInv(x) /\ Owner(x)
  BY DEF CInv
<1>3. CountType'
  BY <1>1, <1>2 DEF CountType, Phases
<1>4. ASSUME NEW x \in Obj PROVE OInv(x)'
  <2>1. /\ Probing(x)' <=> Probing(x)
        /\ Known(x)' <=> Known(x)
        /\ Held(x)' = Held(x) /\ Travelling(x)' = Travelling(x)
    BY <1>1, SameMonitor, SameSums
  <2>2. CASE x # o
    <3>1. phase'[x] = phase[x]
      BY <1>1, <1>2, <2>2 DEF CountType
    <3> QED BY <1>1, <1>3, <2>1, <3>1, Untouched
  <2>3. CASE x = o
    <3>1. phase'[o] \in {"ready", "gone"} /\ phase[o] = "spawned"
      BY <1>1, <1>2 DEF CountType
    <3> QED BY <1>1, <1>2, <2>1, <2>3, <3>1
            DEF OInv, Unborn, Unsent, NoCloses, Covered, Early, Born
  <2> QED BY <2>2, <2>3
<1>5. ASSUME NEW x \in Obj PROVE Owner(x)'
  <2>1. Probing(x)' <=> Probing(x)
    BY <1>1, SameMonitor
  <2>2. phase'[x] = "building" => phase[x] = "building"
    BY <1>1, <1>2 DEF CountType
  <2> QED BY <1>1, <2>1, <2>2, OwnerKept
<1> QED BY <1>3, <1>4, <1>5 DEF CInv

\* The first count is that of the creator's connection.
LEMMA ConstructR ==
    ASSUME CInv, ListInv, NEW p \in Proc, NEW o \in Obj, Construct(p, o)
    PROVE  CInv'
<1>1. /\ alloc[p] = o /\ phase[o] = "ready" /\ phase' = [phase EXCEPT ![o] = "building"]
      /\ refs' = [refs EXCEPT ![p][o] = 1] /\ refcount' = [refcount EXCEPT ![o] = 1]
      /\ toMon' = toMon \cup {<<"manage", o>>}
      /\ UNCHANGED <<plan, alloc, closing, queued, serving, conc, pending, calls>>
      /\ UNCHANGED <<mon, managed>> /\ UNCHANGED <<touched, orphans>>
  BY DEF Construct, inside, monitor, marks
<1>2. CountType /\ \A x \in Obj : OInv(x) /\ Owner(x)
  BY DEF CInv
<1>3. /\ refs' \in Rows /\ Held(o)' = Held(o) - refs[p][o] + 1
      /\ \A x \in Obj \ {o} : Held(x)' = Held(x)
      /\ \A q \in Proc, x \in Obj : q # p \/ x # o => refs'[q][x] = refs[q][x]
  <2>1. refs' = Put(refs, p, o, 1)
    BY <1>1 DEF Put
  <2> QED BY <1>2, <2>1, HeldOne
<1>4. CountType'
  BY <1>1, <1>2, <1>3 DEF CountType, Phases
<1>5. ASSUME NEW x \in Obj
      PROVE  /\ Travelling(x)' = Travelling(x)
             /\ Probing(x)' <=> Probing(x)
             /\ x # o => (Known(x)' <=> Known(x))
  BY <1>1, SameSums DEF Probing, Known
<1>6. /\ Held(o) = 0 /\ closing[o] = 0 /\ ~Known(o) /\ Travelling(o) = 0
  BY <1>1, <1>2 DEF OInv, Unborn, Unsent, Early
<1>7. ~Probing(o)
  <2>1. Probing(o) => mon.todo # <<>> /\ mon.todo \in Seq(Obj) /\ Head(mon.todo) = o
    BY DEF ListInv, MonType, Probing
  <2>2. mon.todo # <<>> /\ mon.todo \in Seq(Obj) => Head(mon.todo) \in Range(mon.todo)
    BY DEF Range
  <2> QED BY <1>6, <2>1, <2>2 DEF Known
<1>8. \A q \in Proc : refs[q][o] = 0
  BY <1>2, <1>6, Numbers
<1>9. ASSUME NEW x \in Obj PROVE OInv(x)'
  <2>1. CASE x # o
    <3>1. phase'[x] = phase[x] /\ refcount'[x] = refcount[x]
      BY <1>1, <1>2, <2>1 DEF CountType
    <3> QED BY <1>1, <1>3, <1>4, <1>5, <2>1, <3>1, Untouched
  <2>2. CASE x = o
    <3>1. phase'[o] = "building" /\ refcount'[o] = 1 /\ Held(o)' = 1
      BY <1>1, <1>2, <1>3, <1>6, <1>8 DEF CountType
    <3>2. Counted(o)' = 1
      BY <1>1, <1>5, <1>6, <1>7, <3>1 DEF Counted
    <3> QED BY <1>1, <1>2, <1>5, <1>6, <2>2, <3>1, <3>2
            DEF OInv, Unborn, Unsent, NoCloses, Covered, Early, Born
  <2> QED BY <2>1, <2>2
<1>10. ASSUME NEW x \in Obj PROVE Owner(x)'
  <2>1. CASE x # o
    <3>1. phase'[x] = phase[x]
      BY <1>1, <1>2, <2>1 DEF CountType
    <3> QED BY <1>1, <1>3, <1>5, <2>1, <3>1, OwnerKept
  <2>2. CASE x = o
    <3>1. ~Probing(o)'
      BY <1>5, <1>7
    <3>2. \A q \in Proc : refs'[q][o] > 0 => alloc'[q] = o
      BY <1>1, <1>3, <1>8
    <3> QED BY <2>2, <3>1, <3>2 DEF Owner
  <2> QED BY <2>1, <2>2
<1> QED BY <1>4, <1>9, <1>10 DEF CInv

\* The connection of the object to itself comes before the object: nothing counts it.
LEMMA OpenThisR ==
    ASSUME CInv, NEW o \in Obj, OpenThis(o)
    PROVE  CInv'
<1>1. /\ phase[o] = "building" /\ refcount' = [refcount EXCEPT ![o] = refcount[o] + Opened(o)]
      /\ UNCHANGED <<plan, phase, alloc, closing, refs, queued, serving, conc, pending, calls>>
      /\ UNCHANGED <<mon, managed, toMon>> /\ UNCHANGED <<touched, orphans>>
  BY DEF OpenThis, inside, monitor, marks
<1>2. CountType /\ \A x \in Obj : OInv(x) /\ Owner(x)
  BY DEF CInv
<1>3. Opened(o) = 0
  BY <1>1 DEF Opened, Exists
<1>4. \A x \in Obj : refcount'[x] = refcount[x]
  BY <1>1, <1>2, <1>3 DEF CountType
<1>5. CountType'
  BY <1>1, <1>2, <1>3 DEF CountType
<1>6. ASSUME NEW x \in Obj PROVE OInv(x)' /\ Owner(x)'
  <2>1. /\ Probing(x)' <=> Probing(x)
        /\ Known(x)' <=> Known(x)
        /\ Held(x)' = Held(x) /\ Travelling(x)' = Travelling(x)
    BY <1>1, SameMonitor, SameSums
  <2> QED BY <1>1, <1>4, <1>5, <2>1, Untouched, OwnerKept
<1> QED BY <1>5, <1>6 DEF CInv

LEMMA BuiltR ==
    ASSUME CInv, NEW o \in Obj, Built(o)
    PROVE  CInv'
<1>1. /\ phase[o] = "building" /\ phase' = [phase EXCEPT ![o] = "alive"]
      /\ alloc' = [p \in Proc |-> IF alloc[p] = o THEN None ELSE alloc[p]]
      /\ UNCHANGED <<plan, refcount, closing, refs, queued, serving, conc, pending, calls>>
      /\ UNCHANGED <<mon, managed, toMon>> /\ UNCHANGED <<touched, orphans>>
  BY DEF Built, count, inside, monitor, marks
<1>2. CountType /\ \A x \in Obj : OInv(x) /\ Owner(x)
  BY DEF CInv
<1>3. CountType'
  BY <1>1, <1>2 DEF CountType, Phases
<1>4. ASSUME NEW x \in Obj PROVE OInv(x)'
  <2>1. /\ Probing(x)' <=> Probing(x)
        /\ Known(x)' <=> Known(x)
        /\ Held(x)' = Held(x) /\ Travelling(x)' = Travelling(x)
    BY <1>1, SameMonitor, SameSums
  <2>2. CASE x # o
    <3>1. phase'[x] = phase[x]
      BY <1>1, <1>2, <2>2 DEF CountType
    <3> QED BY <1>1, <1>3, <2>1, <3>1, Untouched
  <2>3. CASE x = o
    <3>1. phase'[o] = "alive" /\ phase[o] = "building"
      BY <1>1, <1>2 DEF CountType
    <3>2. Counted(o)' = Counted(o)
      BY <1>1, <2>1, <2>3 DEF Counted
    <3> QED BY <1>1, <1>2, <2>1, <2>3, <3>1, <3>2
            DEF OInv, Unborn, Unsent, NoCloses, Covered, Early, Born
  <2> QED BY <2>2, <2>3
<1>5. ASSUME NEW x \in Obj PROVE Owner(x)'
  <2>1. Probing(x)' <=> Probing(x)
    BY <1>1, SameMonitor
  <2>2. phase'[x] = "building" => phase[x] = "building" /\ x # o
    BY <1>1, <1>2 DEF CountType
  <2>3. \A q \in Proc : x # o /\ alloc[q] = x => alloc'[q] = x
    BY <1>1
  <2> QED BY <1>1, <1>2, <2>1, <2>2, <2>3 DEF Owner
<1> QED BY <1>3, <1>4, <1>5 DEF CInv

\* The half-made interface counts for nothing.
LEMMA AllocFailsR ==
    ASSUME CInv, NEW p \in Proc, NEW o \in Obj, AllocFails(p, o)
    PROVE  CInv'
<1>1. /\ alloc[p] = o /\ phase[o] \in {"spawned", "gone"}
      /\ alloc' = [alloc EXCEPT ![p] = None] /\ refs' = [refs EXCEPT ![p][o] = 0]
      /\ UNCHANGED <<plan, phase, refcount, closing, queued, serving, conc, pending, calls>>
      /\ UNCHANGED <<mon, managed, toMon>> /\ UNCHANGED <<touched, orphans>>
  BY DEF AllocFails, count, inside, monitor, marks
<1>2. CountType /\ \A x \in Obj : OInv(x) /\ Owner(x)
  BY DEF CInv
<1>3. /\ refs' \in Rows /\ Held(o)' = Held(o) - refs[p][o] + 0
      /\ \A x \in Obj \ {o} : Held(x)' = Held(x)
      /\ \A q \in Proc, x \in Obj : q # p \/ x # o => refs'[q][x] = refs[q][x]
  <2>1. refs' = Put(refs, p, o, 0)
    BY <1>1 DEF Put
  <2> QED BY <1>2, <2>1, HeldOne
<1>4. CountType'
  BY <1>1, <1>2, <1>3 DEF CountType
<1>5. ASSUME NEW x \in Obj PROVE OInv(x)'
  <2>1. /\ Probing(x)' <=> Probing(x)
        /\ Known(x)' <=> Known(x)
        /\ Travelling(x)' = Travelling(x)
    BY <1>1, SameMonitor, SameSums
  <2>2. CASE x # o
    BY <1>1, <1>3, <1>4, <2>1, <2>2, Untouched
  <2>3. CASE x = o
    <3>1. Held(o) = 0 => Held(o)' = 0
      BY <1>2, <1>3, Numbers
    <3> QED BY <1>1, <1>2, <2>1, <2>3, <3>1
            DEF OInv, Unborn, Unsent, NoCloses, Covered, Early, Born
  <2> QED BY <2>2, <2>3
<1>6. ASSUME NEW x \in Obj PROVE Owner(x)'
  <2>1. Probing(x)' <=> Probing(x)
    BY <1>1, SameMonitor
  <2>2. CASE phase[x] # "building"
    BY <1>1, <2>2 DEF Owner
  <2>3. CASE phase[x] = "building"
    <3>1. x # o
      BY <1>1, <2>3
    <3>2. \A q \in Proc \ {p} : alloc'[q] = alloc[q]
      BY <1>1, <1>2 DEF CountType
    <3>3. ~(refs[p][x] > 0)
      BY <1>1, <1>2, <2>3, <3>1 DEF Owner
    <3> QED BY <1>1, <1>3, <2>1, <3>1, <3>2, <3>3, OwnerKept
  <2> QED BY <2>2, <2>3
<1> QED BY <1>4, <1>5, <1>6 DEF CInv

-----------------------------------------------------------------------------
(* References, calls and closes. *)

\* Nobody copies or gives away a reference to an object under construction: its
\* creator waits for it.
LEMMA HolderFree ==
    ASSUME CInv, NEW p \in Proc, NEW o \in Obj, Free(p), refs[p][o] > 0
    PROVE  /\ phase[o] \in {"alive", "draining", "gone"}
           /\ Held(o) >= refs[p][o] /\ refs[p][o] \in Nat
<1>1. CountType /\ OInv(o) /\ Owner(o)
  BY DEF CInv
<1>2. Held(o) >= refs[p][o] /\ refs[p][o] \in Nat /\ Held(o) \in Nat
  BY <1>1, Numbers
<1>3. Held(o) # 0
  BY <1>2
<1>4. phase[o] # "building"
  BY <1>1, ApplicationAssumption DEF Owner, Free, Proc
<1>5. phase[o] \notin Early
  BY <1>1, <1>3 DEF OInv, Unborn
<1> QED BY <1>1, <1>2, <1>4, <1>5 DEF CountType, Phases, Early

LEMMA CopyReferenceR ==
    ASSUME CInv, NEW p \in Proc, NEW o \in Obj, CopyReference(p, o)
    PROVE  CInv'
<1>1. /\ Free(p) /\ refs[p][o] \in 1..plan.refs - 1 /\ Reachable(o)
      /\ refs' = [refs EXCEPT ![p][o] = refs[p][o] + 1]
      /\ refcount' = [refcount EXCEPT ![o] = refcount[o] + Opened(o)]
      /\ UNCHANGED <<plan, phase, alloc, closing, queued, serving, conc, pending, calls>>
      /\ UNCHANGED <<mon, managed, toMon>> /\ UNCHANGED <<touched, orphans>>
  BY DEF CopyReference, life, inside, monitor, marks
<1>2. CountType /\ \A x \in Obj : OInv(x) /\ Owner(x)
  BY DEF CInv
<1>3. refs[p][o] \in Nat /\ refs[p][o] > 0
  BY <1>1, <1>2, Numbers
<1>4. phase[o] \in {"alive", "draining"}
  BY <1>1, <1>3, HolderFree DEF Reachable, Exists
<1>5. /\ refs' \in Rows /\ Held(o)' = Held(o) - refs[p][o] + (refs[p][o] + 1)
      /\ \A x \in Obj \ {o} : Held(x)' = Held(x)
      /\ \A q \in Proc, x \in Obj : q # p \/ x # o => refs'[q][x] = refs[q][x]
  <2>1. PICK v \in Nat : v = refs[p][o] + 1
    BY <1>3
  <2>2. refs' = Put(refs, p, o, v)
    BY <1>1, <2>1 DEF Put
  <2>3. /\ refs' \in Rows /\ Held(o)' = Held(o) - refs[p][o] + v
        /\ \A x \in Obj \ {o} : Held(x)' = Held(x)
        /\ \A q \in Proc, x \in Obj : q # p \/ x # o => refs'[q][x] = refs[q][x]
    BY <1>2, <2>2, HeldOne
  <2> QED BY <2>1, <2>3
<1>6. /\ Opened(o) \in {0, 1}
      /\ plan.mode = "socket" => Opened(o) = 1
      /\ plan.mode = "uds" => Opened(o) = 0
  BY <1>4 DEF Opened, Exists
<1>7. /\ refcount' \in [Obj -> Int] /\ refcount'[o] = refcount[o] + Opened(o)
      /\ \A x \in Obj \ {o} : refcount'[x] = refcount[x]
  <2>1. refcount \in [Obj -> Int] /\ refcount[o] + Opened(o) \in Int
    BY <1>2, <1>6 DEF CountType
  <2> QED BY <1>1, <2>1
<1>8. CountType'
  BY <1>1, <1>2, <1>5, <1>7 DEF CountType
<1>9. ASSUME NEW x \in Obj
      PROVE  /\ Travelling(x)' = Travelling(x)
             /\ Probing(x)' <=> Probing(x)
             /\ Known(x)' <=> Known(x)
  BY <1>1, SameSums, SameMonitor
<1>10. ASSUME NEW x \in Obj PROVE OInv(x)'
  <2>1. CASE x # o
    BY <1>1, <1>5, <1>7, <1>8, <1>9, <2>1, Untouched
  <2>2. CASE x = o
    <3>1. Held(o) \in Nat /\ Travelling(o) \in Nat /\ closing[o] \in Nat /\ refcount[o] \in Int
      BY <1>2, Numbers
    <3>2. Held(o)' = Held(o) + 1
      BY <1>3, <1>5, <3>1
    <3>3. Counted(o)' = Counted(o) + 1 /\ Counted(o) \in Int
      BY <1>1, <1>9, <3>1, <3>2 DEF Counted
    <3>4. plan.mode = "uds" => closing'[o] = 0
      BY <1>1, <1>2 DEF OInv, NoCloses
    <3>5. plan.mode = "socket" => refcount'[o] - Counted(o)' = refcount[o] - Counted(o)
      BY <1>6, <1>7, <3>1, <3>3
    <3>6. plan.mode = "uds" => refcount'[o] - Travelling(o)' = refcount[o] - Travelling(o)
      BY <1>6, <1>7, <1>9, <3>1
    <3> QED BY <1>1, <1>4, <1>8, <2>2, <3>4, <3>5, <3>6, Shifted
  <2> QED BY <2>1, <2>2
<1>11. ASSUME NEW x \in Obj PROVE Owner(x)'
  <2>1. CASE x # o
    BY <1>1, <1>5, <1>9, <2>1, OwnerKept
  <2>2. CASE x = o
    BY <1>1, <1>4, <2>2 DEF Owner
  <2> QED BY <2>1, <2>2
<1> QED BY <1>8, <1>10, <1>11 DEF CInv

LEMMA ReleaseR ==
    ASSUME CInv, NEW p \in Proc, NEW o \in Obj, Release(p, o)
    PROVE  CInv'
<1>1. /\ Free(p) /\ refs[p][o] > 0
      /\ refs' = [refs EXCEPT ![p][o] = refs[p][o] - 1]
      /\ closing' = [closing EXCEPT ![o] = closing[o] + Closed(o)]
      /\ UNCHANGED <<plan, phase, alloc, refcount, queued, serving, conc, pending, calls>>
      /\ UNCHANGED <<mon, managed, toMon>> /\ UNCHANGED <<touched, orphans>>
  BY DEF Release, life, inside, monitor, marks
<1>2. CountType /\ \A x \in Obj : OInv(x) /\ Owner(x)
  BY DEF CInv
<1>3. refs[p][o] \in Nat /\ refs[p][o] > 0
  BY <1>1, <1>2, Numbers
<1>4. phase[o] \in {"alive", "draining", "gone"}
  BY <1>1, HolderFree
<1>5. /\ refs' \in Rows /\ Held(o)' = Held(o) - refs[p][o] + (refs[p][o] - 1)
      /\ \A x \in Obj \ {o} : Held(x)' = Held(x)
      /\ \A q \in Proc, x \in Obj : q # p \/ x # o => refs'[q][x] = refs[q][x]
  <2>1. PICK v \in Nat : v = refs[p][o] - 1
    BY <1>3
  <2>2. refs' = Put(refs, p, o, v)
    BY <1>1, <2>1 DEF Put
  <2>3. /\ refs' \in Rows /\ Held(o)' = Held(o) - refs[p][o] + v
        /\ \A x \in Obj \ {o} : Held(x)' = Held(x)
        /\ \A q \in Proc, x \in Obj : q # p \/ x # o => refs'[q][x] = refs[q][x]
    BY <1>2, <2>2, HeldOne
  <2> QED BY <2>1, <2>3
<1>6. /\ Closed(o) \in {0, 1}
      /\ plan.mode = "uds" => Closed(o) = 0
      /\ plan.mode = "socket" /\ phase[o] \in Born => Closed(o) = 1
  BY <1>4 DEF Closed, Reachable, Exists, Born
<1>7. /\ closing' \in [Obj -> Nat] /\ closing'[o] = closing[o] + Closed(o)
      /\ \A x \in Obj \ {o} : closing'[x] = closing[x]
  <2>1. closing \in [Obj -> Nat] /\ closing[o] + Closed(o) \in Nat
    BY <1>2, <1>6 DEF CountType
  <2> QED BY <1>1, <2>1
<1>8. CountType'
  BY <1>1, <1>2, <1>5, <1>7 DEF CountType
<1>9. ASSUME NEW x \in Obj
      PROVE  /\ Travelling(x)' = Travelling(x)
             /\ Probing(x)' <=> Probing(x)
             /\ Known(x)' <=> Known(x)
  BY <1>1, SameSums, SameMonitor
<1>10. ASSUME NEW x \in Obj PROVE OInv(x)'
  <2>1. CASE x # o
    BY <1>1, <1>5, <1>7, <1>8, <1>9, <2>1, Untouched
  <2>2. CASE x = o
    <3>1. Held(o) \in Nat /\ Travelling(o) \in Nat /\ closing[o] \in Nat /\ refcount[o] \in Int
      BY <1>2, Numbers
    <3>2. Held(o)' = Held(o) - 1
      BY <1>3, <1>5, <3>1
    <3>3. plan.mode = "socket" /\ phase[o] \in Born => Counted(o)' = Counted(o)
      BY <1>1, <1>6, <1>7, <1>9, <3>1, <3>2 DEF Counted
    <3>4. closing[o] = 0 /\ Closed(o) = 0 => closing'[o] = 0
      BY <1>7
    <3>5. plan.mode = "uds" => closing'[o] = 0
      BY <1>2, <1>6, <3>4 DEF OInv, NoCloses
    <3>6. /\ plan.mode = "socket" /\ phase[o] # "gone" =>
               refcount'[o] - Counted(o)' = refcount[o] - Counted(o)
          /\ refcount'[o] - Travelling(o)' = refcount[o] - Travelling(o)
      BY <1>1, <1>4, <1>9, <3>3 DEF Born
    <3> QED BY <1>1, <1>4, <1>8, <2>2, <3>5, <3>6, Shifted
  <2> QED BY <2>1, <2>2
<1>11. ASSUME NEW x \in Obj PROVE Owner(x)'
  <2>1. CASE x # o
    BY <1>1, <1>5, <1>9, <2>1, OwnerKept
  <2>2. CASE x = o
    BY <1>1, <1>4, <2>2 DEF Owner
  <2> QED BY <2>1, <2>2
<1> QED BY <1>8, <1>10, <1>11 DEF CInv

\* A close: the count of the connection is given back, unless it was never taken.
LEMMA OnCloseConnectionR ==
    ASSUME CInv, NEW o \in Obj, OnCloseConnection(o)
    PROVE  CInv'
<1>1. /\ closing[o] > 0
      /\ closing' = [closing EXCEPT ![o] = closing[o] - 1]
      /\ refcount' = [refcount EXCEPT ![o] = IF Exists(o) THEN Less(o) ELSE refcount[o]]
      /\ orphans' = IF phase[o] = "building" THEN orphans \cup {o} ELSE orphans
      /\ UNCHANGED <<plan, phase, alloc, refs, queued, serving, conc, pending, calls>>
      /\ UNCHANGED <<mon, managed, toMon>> /\ UNCHANGED touched
  BY DEF OnCloseConnection, life, inside, monitor
<1>2. CountType /\ \A x \in Obj : OInv(x) /\ Owner(x)
  BY DEF CInv
<1>3. Held(o) \in Nat /\ Travelling(o) \in Nat /\ closing[o] \in Nat /\ refcount[o] \in Int
  BY <1>2, Numbers
<1>4. phase[o] \in {"building", "alive", "draining", "gone"} /\ plan.mode # "uds"
  BY <1>1, <1>2, <1>3 DEF OInv, Unborn, NoCloses, CountType, Phases, Early
<1>5. /\ closing' \in [Obj -> Nat] /\ closing'[o] = closing[o] - 1
      /\ \A x \in Obj \ {o} : closing'[x] = closing[x]
  BY <1>1, <1>2, <1>3 DEF CountType
<1>6. Less(o) \in Int
  BY <1>3 DEF Less
<1>7. /\ refcount' \in [Obj -> Int]
      /\ refcount'[o] = IF Exists(o) THEN Less(o) ELSE refcount[o]
      /\ \A x \in Obj \ {o} : refcount'[x] = refcount[x]
  BY <1>1, <1>2, <1>3, <1>6 DEF CountType
<1>8. CountType'
  BY <1>1, <1>2, <1>5, <1>7 DEF CountType
<1>9. ASSUME NEW x \in Obj
      PROVE  /\ Travelling(x)' = Travelling(x) /\ Held(x)' = Held(x)
             /\ Probing(x)' <=> Probing(x)
             /\ Known(x)' <=> Known(x)
  BY <1>1, SameSums, SameMonitor
<1>10. Counted(o)' = Counted(o) - 1 /\ Counted(o) \in Int /\ Counted(o) >= 1
  BY <1>1, <1>3, <1>5, <1>9 DEF Counted
<1>11. ASSUME NEW x \in Obj PROVE OInv(x)'
  <2>1. CASE x # o
    <3>1. x \in orphans' <=> x \in orphans
      BY <1>1, <2>1
    <3> QED BY <1>1, <1>5, <1>7, <1>8, <1>9, <2>1, <3>1, Untouched
  <2>2. CASE x = o /\ phase[o] = "building"
    <3>1. refcount'[o] = refcount[o] /\ o \in orphans'
      BY <1>1, <1>7, <2>2 DEF Exists
    <3> QED BY <1>1, <1>2, <1>3, <1>4, <1>9, <1>10, <2>2, <3>1
            DEF OInv, Unborn, Unsent, NoCloses, Covered, Early, Born
  <2>3. CASE x = o /\ phase[o] # "building"
    <3>1. phase[o] \in {"alive", "draining"} /\ o \notin touched =>
             refcount[o] >= Counted(o) /\ Exists(o)
      BY <1>2, <1>4, Mode DEF OInv, Covered, Born, Exists
    <3>2. Floor \in Nat
      BY ApplicationAssumption
    <3>3. phase[o] \in {"alive", "draining"} /\ o \notin touched =>
             refcount'[o] = refcount[o] - 1
      BY <1>3, <1>7, <1>10, <3>1, <3>2 DEF Less
    <3>5. phase[o] # "gone" /\ o \notin touched =>
             refcount'[o] - Counted(o)' = refcount[o] - Counted(o)
      BY <1>3, <1>4, <1>10, <2>3, <3>3
    <3> QED BY <1>1, <1>4, <1>8, <2>3, <3>5, Shifted
  <2> QED BY <2>1, <2>2, <2>3
<1>12. ASSUME NEW x \in Obj PROVE Owner(x)'
  BY <1>1, <1>9, OwnerKept
<1> QED BY <1>8, <1>11, <1>12 DEF CInv

\* An object that leaves its serving loop keeps its count.
LEMMA LeaveR ==
    ASSUME CInv, NEW o \in Obj, Leave(o)
    PROVE  CInv'
<1>1. /\ phase[o] = "alive" /\ refcount[o] <= 0 /\ phase' = [phase EXCEPT ![o] = "draining"]
      /\ UNCHANGED <<plan, alloc, refcount, closing, refs, queued, serving, conc, pending, calls>>
      /\ UNCHANGED <<mon, managed, toMon>> /\ UNCHANGED <<touched, orphans>>
  BY DEF Leave, count, inside, monitor, marks
<1>2. CountType /\ \A x \in Obj : OInv(x) /\ Owner(x)
  BY DEF CInv
<1>3. CountType'
  BY <1>1, <1>2 DEF CountType, Phases
<1>4. ASSUME NEW x \in Obj PROVE OInv(x)'
  <2>1. /\ Probing(x)' <=> Probing(x)
        /\ Known(x)' <=> Known(x)
        /\ Held(x)' = Held(x) /\ Travelling(x)' = Travelling(x)
    BY <1>1, SameMonitor, SameSums
  <2>2. CASE x # o
    <3>1. phase'[x] = phase[x]
      BY <1>1, <1>2, <2>2 DEF CountType
    <3> QED BY <1>1, <1>3, <2>1, <3>1, Untouched
  <2>3. CASE x = o
    <3>1. phase'[o] = "draining" /\ phase[o] = "alive"
      BY <1>1, <1>2 DEF CountType
    <3>2. Counted(o)' = Counted(o)
      BY <1>1, <2>1, <2>3 DEF Counted
    <3>8. Unborn(o)' /\ Unsent(o)' /\ NoCloses(o)'
      BY <1>1, <1>2, <3>1 DEF OInv, Unborn, Unsent, NoCloses, Early
    <3>9. Covered(o)'
      BY <1>1, <1>2, <2>1, <2>3, <3>1, <3>2 DEF OInv, Covered, Born
    <3> QED BY <2>3, <3>8, <3>9 DEF OInv
  <2> QED BY <2>2, <2>3
<1>5. ASSUME NEW x \in Obj PROVE Owner(x)'
  <2>1. Probing(x)' <=> Probing(x)
    BY <1>1, SameMonitor
  <2>2. phase'[x] = "building" => phase[x] = "building"
    BY <1>1, <1>2 DEF CountType
  <2> QED BY <1>1, <2>1, <2>2, OwnerKept
<1> QED BY <1>3, <1>4, <1>5 DEF CInv

\* A packed reference is counted while it travels, for nothing when the call is lost.
LEMMA CallR ==
    ASSUME CInv, NEW p \in Proc, NEW q \in Obj, NEW x \in Obj \cup {None}, Call(p, q, x)
    PROVE  CInv'
<1>1. /\ calls < plan.calls /\ (x # None => Exists(x))
      /\ calls' = calls + 1
      /\ refcount' = IF x = None THEN refcount ELSE [refcount EXCEPT ![x] = refcount[x] + 1]
      /\ queued' = [queued EXCEPT ![q] = IF Exists(q) THEN Append(queued[q], x) ELSE queued[q]]
      /\ orphans' = IF x # None /\ ~Exists(q) THEN orphans \cup {x} ELSE orphans
      /\ UNCHANGED <<plan, phase, alloc, refs, closing, serving, conc, pending>>
      /\ UNCHANGED <<mon, managed, toMon>> /\ UNCHANGED touched
  BY DEF Call, life, monitor
<1>2. CountType /\ \A y \in Obj : OInv(y) /\ Owner(y)
  BY DEF CInv
<1>3. queued[q] \in Seq(Obj \cup {None}) /\ queued \in Fifos
  BY <1>2 DEF CountType, Fifos
<1>4. /\ queued' \in Fifos /\ \A y \in Obj \ {q} : queued'[y] = queued[y]
      /\ queued'[q] = IF Exists(q) THEN Append(queued[q], x) ELSE queued[q]
  BY <1>1, <1>3 DEF Fifos
<1>5. calls' \in 0..plan.calls
  <2>1. plan.calls \in Nat /\ calls \in 0..plan.calls
    BY <1>2, ApplicationAssumption DEF CountType, PlanType
  <2> QED BY <1>1, <2>1
<1>6. refcount' \in [Obj -> Int]
  BY <1>1, <1>2 DEF CountType
<1>7. CountType'
  BY <1>1, <1>2, <1>4, <1>5, <1>6 DEF CountType
<1>8. ASSUME NEW y \in Obj
      PROVE  /\ Held(y)' = Held(y)
             /\ Probing(y)' <=> Probing(y)
             /\ Known(y)' <=> Known(y)
             /\ Held(y) \in Nat /\ Travelling(y) \in Nat /\ closing[y] \in Nat
             /\ refcount[y] \in Int
  BY <1>1, <1>2, SameSums, SameMonitor, Numbers
<1>9. ASSUME NEW y \in Obj
      PROVE  Travelling(y)' = Travelling(y) + (IF Exists(q) /\ x = y THEN 1 ELSE 0)
  <2>1. pending' \in Sent /\ \A z \in Obj \ {q} : pending'[z][y] = pending[z][y]
    BY <1>1, <1>2 DEF CountType
  <2>2. /\ Travelling(y)' = Travelling(y) - (pending[q][y] + Occurs(queued[q], y))
                                          + (pending'[q][y] + Occurs(queued'[q], y))
        /\ pending[q][y] \in Nat /\ Occurs(queued[q], y) \in Nat
    BY <1>2, <1>4, <2>1, TravelNext
  <2>3. Occurs(Append(queued[q], x), y) = Occurs(queued[q], y) + (IF x = y THEN 1 ELSE 0)
    BY <1>3, OccursAppend
  <2>4. Occurs(queued'[q], y) = Occurs(queued[q], y) + (IF Exists(q) /\ x = y THEN 1 ELSE 0)
    BY <1>4, <2>2, <2>3
  <2>5. pending'[q][y] = pending[q][y]
    BY <1>1
  <2> QED BY <1>8, <2>2, <2>4, <2>5
<1>10. ASSUME NEW y \in Obj PROVE OInv(y)'
  <2>1. CASE y # x
    <3>1. Travelling(y)' = Travelling(y)
      BY <1>8, <1>9, <2>1
    <3>2. refcount'[y] = refcount[y] /\ (y \in orphans' <=> y \in orphans)
      BY <1>1, <1>2, <2>1 DEF CountType
    <3> QED BY <1>1, <1>7, <1>8, <2>1, <3>1, <3>2, Untouched
  <2>2. CASE y = x
    <3>1. x \in Obj /\ x # None
      BY <2>2, ApplicationAssumption DEF Proc
    <3>2. phase[x] \in {"alive", "draining"}
      BY <1>1, <3>1 DEF Exists
    <3>3. refcount'[x] = refcount[x] + 1
      BY <1>1, <1>2, <3>1 DEF CountType
    <3>4. CASE Exists(q)
      <4>1. Travelling(x)' = Travelling(x) + 1
        BY <1>9, <3>1, <3>4
      <4>2. Counted(x)' = Counted(x) + 1 /\ Counted(x) \in Int
        <5>1. Held(x)' = Held(x) /\ closing'[x] = closing[x] /\ (Probing(x)' <=> Probing(x))
          BY <1>1, <1>8, <3>1
        <5> QED BY <1>2, <1>7, <1>8, <3>1, <4>1, <5>1, CountedNext
      <4>3. /\ refcount'[x] - Counted(x)' = refcount[x] - Counted(x)
            /\ refcount'[x] - Travelling(x)' = refcount[x] - Travelling(x)
        BY <1>8, <3>1, <3>3, <4>1, <4>2
      <4>4. plan.mode = "uds" => closing'[x] = 0
        BY <1>1, <1>2, <3>1 DEF OInv, NoCloses
      <4>5. x \in orphans => x \in orphans'
        BY <1>1
      <4> QED BY <1>1, <1>7, <2>2, <3>1, <3>2, <4>3, <4>4, <4>5, Shifted
    <3>5. CASE ~Exists(q)
      <4>1. Travelling(x)' = Travelling(x) /\ x \in orphans'
        BY <1>1, <1>8, <1>9, <3>1, <3>5
      <4>2. Counted(x)' = Counted(x) /\ Counted(x) \in Int
        BY <1>1, <1>8, <3>1, <4>1 DEF Counted
      <4>3. OInv(x) /\ refcount[x] \in Int /\ Travelling(x) \in Nat
        BY <1>2, <1>8, <3>1
      <4>4. Covered(x)'
        BY <1>1, <3>2, <3>3, <4>1, <4>2, <4>3 DEF OInv, Covered, Born
      <4>5. Unborn(x)' /\ Unsent(x)' /\ NoCloses(x)'
        BY <1>1, <1>8, <3>1, <3>2, <4>1, <4>3 DEF OInv, Unborn, Unsent, NoCloses, Early
      <4> QED BY <2>2, <4>4, <4>5 DEF OInv
    <3> QED BY <3>4, <3>5
  <2> QED BY <2>1, <2>2
<1>11. ASSUME NEW y \in Obj PROVE Owner(y)'
  BY <1>1, <1>8, OwnerKept
<1> QED BY <1>7, <1>10, <1>11 DEF CInv

\* The packed reference becomes a connection of the receiver, counted before
\* the count it travelled with is given back.
LEMMA StartR ==
    ASSUME CInv, NEW o \in Obj, Start(o)
    PROVE  CInv'
<1>1. PICK x : x = Head(queued[o])
  OBVIOUS
<1>2. /\ phase[o] = "alive" /\ queued[o] # <<>>
      /\ queued' = [queued EXCEPT ![o] = Tail(queued[o])]
      /\ UNCHANGED <<plan, phase, alloc, closing, calls>>
      /\ UNCHANGED <<mon, managed, toMon>> /\ UNCHANGED <<touched, orphans>>
  BY DEF Start, life, monitor, marks
<1>3. \/ /\ x # None /\ ~Exists(x)
         /\ UNCHANGED <<refs, refcount, pending, serving, conc>>
      \/ /\ x = None
         /\ UNCHANGED <<refs, refcount, pending>>
      \/ /\ x # None /\ Exists(x)
         /\ refs' = [refs EXCEPT ![o][x] = refs[o][x] + 1]
         /\ refcount' = [refcount EXCEPT ![x] = refcount[x] + Opened(x)]
         /\ pending' = [pending EXCEPT ![o][x] = pending[o][x] + 1]
  BY <1>1 DEF Start
<1>4. \/ UNCHANGED <<serving, conc>>
      \/ serving' = [serving EXCEPT ![o] = TRUE] /\ UNCHANGED conc
      \/ conc' = [conc EXCEPT ![o] = conc[o] + 1] /\ UNCHANGED serving
  BY <1>1 DEF Start
<1>5. CountType /\ \A y \in Obj : OInv(y) /\ Owner(y)
  BY DEF CInv
<1>6. serving' \in [Obj -> BOOLEAN] /\ conc' \in [Obj -> Nat]
  <2>1. serving \in [Obj -> BOOLEAN] /\ conc \in [Obj -> Nat] /\ conc[o] + 1 \in Nat
    BY <1>5 DEF CountType
  <2>2. [serving EXCEPT ![o] = TRUE] \in [Obj -> BOOLEAN]
    BY <2>1
  <2>3. [conc EXCEPT ![o] = conc[o] + 1] \in [Obj -> Nat]
    BY <2>1
  <2> QED BY <1>4, <2>1, <2>2, <2>3
<1>7. queued[o] \in Seq(Obj \cup {None}) /\ queued \in Fifos
  BY <1>5 DEF CountType, Fifos
<1>8. /\ queued' \in Fifos /\ queued'[o] = Tail(queued[o])
      /\ \A y \in Obj \ {o} : queued'[y] = queued[y]
  BY <1>2, <1>7 DEF Fifos
<1>9. x \in Obj \cup {None}
  BY <1>1, <1>2, <1>7
<1>10. ASSUME NEW y \in Obj
       PROVE  /\ Probing(y)' <=> Probing(y)
              /\ Known(y)' <=> Known(y)
              /\ Held(y) \in Nat /\ Travelling(y) \in Nat /\ closing[y] \in Nat
              /\ refcount[y] \in Int
  BY <1>2, <1>5, SameMonitor, Numbers
<1>11. ASSUME NEW y \in Obj
       PROVE  Occurs(Tail(queued[o]), y) = Occurs(queued[o], y) - (IF x = y THEN 1 ELSE 0)
  BY <1>1, <1>2, <1>7, OccursTail
<1>12. ASSUME pending' \in Sent, NEW y \in Obj,
              \A z \in Obj \ {o} : pending'[z][y] = pending[z][y]
       PROVE  /\ Travelling(y)' = Travelling(y) - pending[o][y] + pending'[o][y]
                                  - (IF x = y THEN 1 ELSE 0)
              /\ Travelling(y) >= pending[o][y] + Occurs(queued[o], y)
              /\ pending[o][y] \in Nat /\ pending'[o][y] \in Nat
              /\ Occurs(queued[o], y) \in Nat /\ Occurs(queued'[o], y) \in Nat
  <2>1. /\ Travelling(y)' = Travelling(y) - (pending[o][y] + Occurs(queued[o], y))
                                          + (pending'[o][y] + Occurs(queued'[o], y))
        /\ Travelling(y) >= pending[o][y] + Occurs(queued[o], y)
        /\ pending[o][y] \in Nat /\ Occurs(queued[o], y) \in Nat
        /\ pending'[o][y] \in Nat /\ Occurs(queued'[o], y) \in Nat
    BY <1>5, <1>8, <1>12, TravelNext
  <2>2. Occurs(queued'[o], y) = Occurs(queued[o], y) - (IF x = y THEN 1 ELSE 0)
    BY <1>8, <1>11
  <2> QED BY <1>10, <2>1, <2>2
<1>13. x \in Obj => Travelling(x) > 0 /\ phase[x] \in {"alive", "draining", "gone"}
  <2> HAVE x \in Obj
  <2>1. Occurs(queued[o], x) # 0
    <3>1. Occurs(queued[o], x) = 0 <=> \A i \in 1..Len(queued[o]) : queued[o][i] # x
      BY <1>7, OccursType
    <3>2. 1 \in 1..Len(queued[o]) /\ queued[o][1] = x
      BY <1>1, <1>2, <1>7
    <3> QED BY <3>1, <3>2
  <2>2. pending \in Sent
    BY <1>5 DEF CountType
  <2>3. /\ Travelling(x) = SentSum(pending, queued, x)
        /\ SentSum(pending, queued, x) >= pending[o][x] + Occurs(queued[o], x)
    BY <1>5, <1>7, <2>2, Numbers, SentSumType
  <2>4. pending[o][x] \in Nat /\ Occurs(queued[o], x) \in Nat
    BY <1>7, <2>2, SentPart
  <2>5. Travelling(x) > 0
    BY <1>10, <2>1, <2>3, <2>4
  <2>6. phase[x] \notin Early \cup {"building"}
    BY <1>5, <2>5 DEF OInv, Unsent
  <2> QED BY <1>5, <2>5, <2>6 DEF CountType, Phases, Early
<1>14. CASE x = None \/ ~Exists(x)
  <2>1. UNCHANGED <<refs, refcount, pending>>
    BY <1>3, <1>14
  <2>2. CountType'
    BY <1>2, <1>5, <1>6, <1>8, <2>1 DEF CountType
  <2>3. ASSUME NEW y \in Obj PROVE OInv(y)' /\ Owner(y)'
    <3>1. Travelling(y)' = Travelling(y) - (IF x = y THEN 1 ELSE 0)
      BY <1>5, <1>10, <1>12, <2>1 DEF CountType
    <3>2. Held(y)' = Held(y)
      BY <2>1, SameSums
    <3>3. CASE y # x
      <4>1. Travelling(y)' = Travelling(y)
        BY <1>10, <3>1, <3>3
      <4> QED BY <1>2, <1>10, <2>1, <2>2, <3>2, <4>1, Untouched, OwnerKept
    <3>4. CASE y = x
      <4>1. phase[y] = "gone"
        BY <1>9, <1>13, <1>14, <3>4, ApplicationAssumption DEF Exists, Proc
      <4>2. plan.mode = "uds" => closing'[y] = 0
        BY <1>2, <1>5 DEF OInv, NoCloses
      <4> QED BY <1>2, <1>10, <2>1, <2>2, <4>1, <4>2, Shifted, OwnerKept
    <3> QED BY <3>3, <3>4
  <2> QED BY <2>2, <2>3 DEF CInv
<1>15. CASE x # None /\ Exists(x)
  <2>1. x \in Obj /\ phase[x] \in {"alive", "draining"}
    BY <1>9, <1>13, <1>15 DEF Exists
  <2>2. /\ refs' = [refs EXCEPT ![o][x] = refs[o][x] + 1]
        /\ refcount' = [refcount EXCEPT ![x] = refcount[x] + Opened(x)]
        /\ pending' = [pending EXCEPT ![o][x] = pending[o][x] + 1]
    BY <1>3, <1>15
  <2>3. o \in Proc
    BY DEF Proc
  <2>4. refs[o][x] \in Nat
    BY <1>5, <2>1, <2>3, Numbers
  <2>5. /\ refs' \in Rows /\ Held(x)' = Held(x) + 1
        /\ \A y \in Obj \ {x} : Held(y)' = Held(y)
        /\ \A q \in Proc, y \in Obj : q # o \/ y # x => refs'[q][y] = refs[q][y]
    <3>1. PICK v \in Nat : v = refs[o][x] + 1
      BY <2>4
    <3>2. refs' = Put(refs, o, x, v)
      BY <2>2, <3>1 DEF Put
    <3>3. /\ refs' \in Rows /\ Held(x)' = Held(x) - refs[o][x] + v
          /\ \A y \in Obj \ {x} : Held(y)' = Held(y)
          /\ \A q \in Proc, y \in Obj : q # o \/ y # x => refs'[q][y] = refs[q][y]
      BY <1>5, <2>1, <2>3, <3>2, HeldOne
    <3> QED BY <1>10, <2>1, <2>4, <3>1, <3>3
  <2>6. /\ pending' \in Sent /\ pending'[o][x] = pending[o][x] + 1
        /\ \A q, y \in Obj : q # o \/ y # x => pending'[q][y] = pending[q][y]
    BY <1>5, <2>1, <2>2 DEF CountType, Sent
  <2>7. /\ Opened(x) \in {0, 1}
        /\ plan.mode = "socket" => Opened(x) = 1
        /\ plan.mode = "uds" => Opened(x) = 0
    BY <1>15 DEF Opened
  <2>8. /\ refcount' \in [Obj -> Int] /\ refcount'[x] = refcount[x] + Opened(x)
        /\ \A y \in Obj \ {x} : refcount'[y] = refcount[y]
    <3>1. refcount \in [Obj -> Int] /\ refcount[x] + Opened(x) \in Int
      BY <1>5, <2>1, <2>7 DEF CountType
    <3> QED BY <2>1, <2>2, <3>1
  <2>9. CountType'
    BY <1>2, <1>5, <1>6, <1>8, <2>5, <2>6, <2>8 DEF CountType
  <2>10. ASSUME NEW y \in Obj PROVE Travelling(y)' = Travelling(y)
    <3>1. /\ Travelling(y)' = Travelling(y) - pending[o][y] + pending'[o][y]
                              - (IF x = y THEN 1 ELSE 0)
          /\ pending[o][y] \in Nat
      BY <1>12, <2>6
    <3>2. pending'[o][y] = pending[o][y] + (IF x = y THEN 1 ELSE 0)
      BY <2>1, <2>6, <3>1
    <3> QED BY <1>10, <3>1, <3>2
  <2>11. ASSUME NEW y \in Obj PROVE OInv(y)' /\ Owner(y)'
    <3>1. CASE y # x
      BY <1>2, <1>10, <2>5, <2>8, <2>9, <2>10, <3>1, Untouched, OwnerKept
    <3>2. CASE y = x
      <4>1. Counted(x)' = Counted(x) + 1 /\ Counted(x) \in Int
        <5>1. /\ closing'[x] = closing[x] /\ Travelling(x)' = Travelling(x)
              /\ Probing(x)' <=> Probing(x)
          BY <1>2, <1>10, <2>1, <2>10
        <5> QED BY <1>5, <1>10, <2>1, <2>5, <2>9, <5>1, CountedNext
      <4>2. /\ plan.mode = "socket" => refcount'[x] - Counted(x)' = refcount[x] - Counted(x)
            /\ plan.mode = "uds" => refcount'[x] - Travelling(x)' = refcount[x] - Travelling(x)
        BY <1>10, <2>1, <2>7, <2>8, <2>10, <4>1
      <4>3. plan.mode = "uds" => closing'[x] = 0
        BY <1>2, <1>5, <2>1 DEF OInv, NoCloses
      <4>4. OInv(x)'
        BY <1>2, <2>1, <2>9, <4>2, <4>3, Shifted
      <4>5. Owner(x)'
        BY <1>2, <2>1 DEF Owner
      <4> QED BY <3>2, <4>4, <4>5
    <3> QED BY <3>1, <3>2
  <2> QED BY <2>9, <2>11 DEF CInv
<1> QED BY <1>14, <1>15

\* The count a packed reference travelled with is given back once.
LEMMA UnpackedR ==
    ASSUME CInv, NEW o \in Obj, NEW x \in Obj, Unpacked(o, x)
    PROVE  CInv'
<1>1. /\ pending[o][x] > 0
      /\ pending' = [pending EXCEPT ![o][x] = pending[o][x] - 1]
      /\ refcount' = [refcount EXCEPT ![x] = IF Exists(x) THEN Less(x) ELSE refcount[x]]
      /\ UNCHANGED <<plan, phase, alloc, refs, closing, queued, serving, conc, calls>>
      /\ UNCHANGED <<mon, managed, toMon>> /\ UNCHANGED <<touched, orphans>>
  BY DEF Unpacked, life, monitor, marks
<1>2. CountType /\ \A y \in Obj : OInv(y) /\ Owner(y)
  BY DEF CInv
<1>3. pending \in Sent /\ queued \in Fifos /\ queued' \in Fifos /\ pending[o][x] \in Nat
  BY <1>1, <1>2 DEF CountType, Sent
<1>4. /\ pending' \in Sent /\ pending'[o][x] = pending[o][x] - 1
      /\ \A q, y \in Obj : q # o \/ y # x => pending'[q][y] = pending[q][y]
  BY <1>1, <1>3 DEF Sent
<1>5. ASSUME NEW y \in Obj
      PROVE  /\ Probing(y)' <=> Probing(y)
             /\ Known(y)' <=> Known(y)
             /\ Held(y)' = Held(y)
             /\ Held(y) \in Nat /\ Travelling(y) \in Nat /\ closing[y] \in Nat
             /\ refcount[y] \in Int
  BY <1>1, <1>2, SameMonitor, SameSums, Numbers
<1>6. Less(x) \in Int
  BY <1>5 DEF Less
<1>7. /\ refcount' \in [Obj -> Int]
      /\ refcount'[x] = IF Exists(x) THEN Less(x) ELSE refcount[x]
      /\ \A y \in Obj \ {x} : refcount'[y] = refcount[y]
  BY <1>1, <1>2, <1>5, <1>6 DEF CountType
<1>8. CountType'
  BY <1>1, <1>2, <1>4, <1>7 DEF CountType
<1>9. ASSUME NEW y \in Obj
      PROVE  /\ Travelling(y)' = Travelling(y) - (IF y = x THEN 1 ELSE 0)
             /\ Travelling(y) >= pending[o][y]
  <2>1. \A z \in Obj \ {o} : pending'[z][y] = pending[z][y] /\ queued'[z] = queued[z]
    BY <1>1, <1>4
  <2>2. /\ Travelling(y)' = Travelling(y) - (pending[o][y] + Occurs(queued[o], y))
                                          + (pending'[o][y] + Occurs(queued'[o], y))
        /\ Travelling(y) >= pending[o][y] + Occurs(queued[o], y)
        /\ pending[o][y] \in Nat /\ Occurs(queued[o], y) \in Nat
    BY <1>2, <1>3, <1>4, <2>1, TravelNext
  <2>3. pending'[o][y] = pending[o][y] - (IF y = x THEN 1 ELSE 0)
    BY <1>4, <2>2
  <2>4. queued'[o] = queued[o]
    BY <1>1
  <2> QED BY <1>5, <2>2, <2>3, <2>4
<1>10. Travelling(x) >= 1
  BY <1>1, <1>3, <1>5, <1>9
<1>11. phase[x] \in {"alive", "draining", "gone"}
  <2>1. phase[x] \notin Early \cup {"building"}
    BY <1>2, <1>5, <1>10 DEF OInv, Unsent
  <2> QED BY <1>2, <2>1 DEF CountType, Phases, Early
<1>12. phase[x] # "gone" /\ x \notin touched => refcount'[x] = refcount[x] - 1
  <2> SUFFICES ASSUME phase[x] # "gone", x \notin touched PROVE refcount'[x] = refcount[x] - 1
    OBVIOUS
  <2>1. Exists(x) /\ phase[x] \in Born
    BY <1>11 DEF Exists, Born
  <2>2. refcount[x] >= Counted(x) \/ refcount[x] >= 1 + Travelling(x)
    BY <1>2, <2>1, Mode DEF OInv, Covered
  <2>3. Counted(x) >= Travelling(x) /\ Counted(x) \in Int
    BY <1>5 DEF Counted
  <2>4. Floor \in Nat
    BY ApplicationAssumption
  <2> QED BY <1>5, <1>7, <1>10, <2>1, <2>2, <2>3, <2>4 DEF Less
<1>13. ASSUME NEW y \in Obj PROVE OInv(y)'
  <2>1. CASE y # x
    <3>1. Travelling(y)' = Travelling(y)
      BY <1>5, <1>9, <2>1
    <3> QED BY <1>1, <1>5, <1>7, <1>8, <2>1, <3>1, Untouched
  <2>2. CASE y = x
    <3>1. Travelling(x)' = Travelling(x) - 1
      BY <1>9
    <3>2. Counted(x)' = Counted(x) - 1 /\ Counted(x) \in Int
      <4>1. Held(x)' = Held(x) /\ closing'[x] = closing[x] /\ (Probing(x)' <=> Probing(x))
        BY <1>1, <1>5
      <4> QED BY <1>2, <1>5, <1>8, <3>1, <4>1, CountedNext
    <3>3. phase[x] # "gone" /\ x \notin touched =>
            /\ refcount'[x] - Counted(x)' = refcount[x] - Counted(x)
            /\ refcount'[x] - Travelling(x)' = refcount[x] - Travelling(x)
      BY <1>5, <1>12, <3>1, <3>2
    <3>4. plan.mode = "uds" => closing'[x] = 0
      BY <1>1, <1>2 DEF OInv, NoCloses
    <3> QED BY <1>1, <1>8, <1>11, <2>2, <3>3, <3>4, Shifted
  <2> QED BY <2>1, <2>2
<1>14. ASSUME NEW y \in Obj PROVE Owner(y)'
  BY <1>1, <1>5, OwnerKept
<1> QED BY <1>8, <1>13, <1>14 DEF CInv

\* The end of a call moves no reference.
LEMMA EndCallR ==
    ASSUME CInv, NEW o \in Obj, EndCall(o)
    PROVE  CInv'
<1>1. /\ UNCHANGED <<plan, phase, alloc, refcount, closing, refs, queued, pending, calls>>
      /\ UNCHANGED <<mon, managed, toMon>> /\ UNCHANGED <<touched, orphans>>
  BY DEF EndCall, life, count, monitor, marks
<1>2. CountType
  BY DEF CInv
<1>3. serving' \in [Obj -> BOOLEAN] /\ conc' \in [Obj -> Nat]
  <2>1. serving \in [Obj -> BOOLEAN] /\ conc \in [Obj -> Nat]
    BY <1>2 DEF CountType
  <2>2. \/ serving' = [serving EXCEPT ![o] = FALSE] /\ conc' = conc
        \/ conc[o] > 0 /\ conc' = [conc EXCEPT ![o] = conc[o] - 1] /\ serving' = serving
    BY DEF EndCall
  <2>3. [serving EXCEPT ![o] = FALSE] \in [Obj -> BOOLEAN]
    BY <2>1
  <2>4. conc[o] > 0 => [conc EXCEPT ![o] = conc[o] - 1] \in [Obj -> Nat]
    BY <2>1
  <2> QED BY <2>1, <2>2, <2>3, <2>4
<1>4. CountType'
  BY <1>1, <1>2, <1>3 DEF CountType
<1>5. ASSUME NEW y \in Obj PROVE OInv(y)' /\ Owner(y)'
  <2>1. /\ Probing(y)' <=> Probing(y)
        /\ Known(y)' <=> Known(y)
        /\ Held(y)' = Held(y) /\ Travelling(y)' = Travelling(y)
    BY <1>1, SameMonitor, SameSums
  <2> QED BY <1>1, <1>4, <2>1, Untouched, OwnerKept
<1> QED BY <1>4, <1>5 DEF CInv

-----------------------------------------------------------------------------
(* Processes that end. *)

\* The connections of a process that ends are closed.
LEMMA ProcessEndsType ==
    ASSUME CountType, NEW p \in Proc, ProcessEnds(p)
    PROVE  /\ refs' \in Rows /\ closing' \in [Obj -> Nat] /\ alloc' \in [Proc -> Obj \cup {None}]
           /\ \A x \in Obj : Held(x)' = Held(x) - refs[p][x] /\ refs'[p][x] = 0
           /\ \A q \in Proc \ {p} : refs'[q] = refs[q] /\ alloc'[q] = alloc[q]
           /\ \A x \in Obj : x # p => closing'[x] = closing[x] + refs[p][x] * Closed(x)
           /\ \A x \in Obj : x = p => closing'[x] = 0
<1>1. /\ refs' = [refs EXCEPT ![p] = Zero]
      /\ closing' = [o \in Obj |-> IF o = p THEN 0 ELSE closing[o] + refs[p][o] * Closed(o)]
      /\ alloc' = [alloc EXCEPT ![p] = None]
  BY DEF ProcessEnds
<1>2. Zero \in [Obj -> Nat] /\ \A x \in Obj : Zero[x] = 0
  BY DEF Zero
<1>3. refs \in Rows /\ closing \in [Obj -> Nat] /\ alloc \in [Proc -> Obj \cup {None}]
  BY DEF CountType
<1>4. /\ refs' \in Rows /\ refs'[p] = Zero
      /\ \A q \in Proc \ {p} : refs'[q] = refs[q]
  BY <1>1, <1>2, <1>3 DEF Rows
<1>5. alloc' \in [Proc -> Obj \cup {None}] /\ \A q \in Proc \ {p} : alloc'[q] = alloc[q]
  BY <1>1, <1>3
<1>6. ASSUME NEW x \in Obj PROVE closing[x] + refs[p][x] * Closed(x) \in Nat
  <2>1. Closed(x) \in {0, 1} /\ refs[p][x] \in Nat /\ closing[x] \in Nat
    BY <1>3 DEF Closed, Rows
  <2>2. CASE Closed(x) = 0
    BY <2>1, <2>2
  <2>3. CASE Closed(x) = 1
    BY <2>1, <2>3
  <2> QED BY <2>1, <2>2, <2>3
<1>7. closing' \in [Obj -> Nat]
  BY <1>1, <1>6
<1>8. ASSUME NEW x \in Obj PROVE Held(x)' = Held(x) - refs[p][x] /\ refs'[p][x] = 0
  <2>1. refs'[p][x] = 0 /\ \A q \in Proc \ {p} : refs'[q][x] = refs[q][x]
    BY <1>2, <1>4
  <2>2. Held(x)' = Held(x) - refs[p][x] + refs'[p][x]
    BY <1>4, <2>1, HeldNext
  <2>3. Held(x) \in Nat /\ refs[p][x] \in Nat
    BY Numbers
  <2> QED BY <2>1, <2>2, <2>3
<1>9. /\ \A x \in Obj : x # p => closing'[x] = closing[x] + refs[p][x] * Closed(x)
      /\ \A x \in Obj : x = p => closing'[x] = 0
  BY <1>1
<1> QED BY <1>4, <1>5, <1>7, <1>8, <1>9

\* An object another process that ends had references to, or for: the closes
\* are counted later, what travelled to the process is lost.
LEMMA EndsFor ==
    ASSUME CInv, CountType', NEW p \in Proc, ProcessEnds(p), NEW x \in Obj, x # p,
           plan' = plan, phase'[x] = phase[x], refcount'[x] = refcount[x],
           Travelling(x)' <= Travelling(x),
           Travelling(x)' # Travelling(x) => x \in orphans',
           x \in orphans => x \in orphans', x \in touched' <=> x \in touched,
           Probing(x)' <=> Probing(x), Known(x)' => Known(x)
    PROVE  OInv(x)' /\ Owner(x)'
<1>1. CountType /\ OInv(x) /\ Owner(x)
  BY DEF CInv
<1>2. /\ Held(x)' = Held(x) - refs[p][x] /\ refs'[p][x] = 0
      /\ \A q \in Proc \ {p} : refs'[q] = refs[q] /\ alloc'[q] = alloc[q]
      /\ closing'[x] = closing[x] + refs[p][x] * Closed(x)
  BY <1>1, ProcessEndsType
<1>3. /\ Held(x) \in Nat /\ Travelling(x) \in Nat /\ closing[x] \in Nat
      /\ refcount[x] \in Int /\ phase[x] \in Phases
      /\ refs[p][x] \in Nat /\ Held(x) >= refs[p][x]
  BY <1>1, Numbers
<1>4. Held(x)' \in Nat /\ Travelling(x)' \in Nat /\ closing'[x] \in Nat
  BY NumbersNext
<1>5. Closed(x) \in {0, 1}
  BY DEF Closed
<1>6. /\ Closed(x) = 0 => closing'[x] = closing[x]
      /\ Closed(x) = 1 => closing'[x] = closing[x] + refs[p][x]
  BY <1>2, <1>3
<1>7. plan.mode = "uds" => Closed(x) = 0
  BY DEF Closed
<1>8. plan.mode = "socket" /\ phase[x] \in Born => Closed(x) = 1
  BY DEF Closed, Reachable, Exists, Born
<1>9. /\ Counted(x) \in Nat /\ Counted(x)' \in Nat
      /\ plan.mode = "socket" /\ phase[x] \in Born =>
           Counted(x)' = Counted(x) + (Travelling(x)' - Travelling(x))
  <2>1. /\ Counted(x) \in Nat /\ Counted(x)' \in Nat
        /\ Counted(x)' = Counted(x) + (Held(x)' - Held(x)) + (closing'[x] - closing[x])
                         + (Travelling(x)' - Travelling(x))
    BY <1>1, CountedNext
  <2> QED BY <1>2, <1>3, <1>4, <1>6, <1>8, <2>1
<1>10. Unborn(x)'
  <2> SUFFICES ASSUME phase[x] \in Early PROVE Held(x)' = 0 /\ closing'[x] = 0 /\ ~Known(x)'
    BY DEF Unborn
  <2>1. Held(x) = 0 /\ closing[x] = 0 /\ ~Known(x)
    BY <1>1 DEF OInv, Unborn
  <2>2. refs[p][x] = 0
    BY <1>3, <2>1
  <2> QED BY <1>2, <1>3, <1>5, <1>6, <2>1, <2>2
<1>11. Unsent(x)'
  BY <1>1, <1>3, <1>4 DEF OInv, Unsent
<1>12. NoCloses(x)'
  BY <1>1, <1>6, <1>7 DEF OInv, NoCloses
<1>13. Covered(x)'
  BY <1>1, <1>3, <1>4, <1>9 DEF OInv, Covered
<1>15. Owner(x)'
  <2>1. \A q \in Proc : refs'[q][x] > 0 => refs[q][x] > 0 /\ alloc'[q] = alloc[q]
    BY <1>2
  <2> QED BY <2>1, OwnerKept
<1> QED BY <1>10, <1>11, <1>12, <1>13, <1>15 DEF OInv

\* An object's process ends: what travelled in its calls is lost, and recorded.
LEMMA ObjectEndsR ==
    ASSUME CInv, NEW o \in Obj, ObjectEnds(o), plan' = plan, calls' = calls,
           toMon' \subseteq {"manage", "unmanage"} \X Obj,
           \A x \in Obj \ {o} : (Probing(x)' <=> Probing(x)) /\ (Known(x)' => Known(x))
    PROVE  CInv'
<1>1. /\ ProcessEnds(o)
      /\ phase' = [phase EXCEPT ![o] = "gone"]
      /\ refcount' = [refcount EXCEPT ![o] = 0]
      /\ queued' = [queued EXCEPT ![o] = <<>>]
      /\ serving' = [serving EXCEPT ![o] = FALSE]
      /\ conc' = [conc EXCEPT ![o] = 0]
      /\ pending' = [pending EXCEPT ![o] = Zero]
      /\ orphans' = (orphans \cup Carried(o) \cup {x \in Obj : pending[o][x] > 0}) \ {o}
      /\ touched' = touched \ {o}
  BY DEF ObjectEnds
<1>2. CountType /\ \A x \in Obj : OInv(x) /\ Owner(x)
  BY DEF CInv
<1>3. /\ refs' \in Rows /\ closing' \in [Obj -> Nat] /\ alloc' \in [Proc -> Obj \cup {None}]
      /\ closing'[o] = 0
  BY <1>1, <1>2, ProcessEndsType DEF Proc
<1>4. Zero \in [Obj -> Nat] /\ \A x \in Obj : Zero[x] = 0
  BY DEF Zero
<1>5. /\ pending' \in Sent /\ pending'[o] = Zero
      /\ \A y \in Obj \ {o} : pending'[y] = pending[y]
  BY <1>1, <1>2, <1>4 DEF CountType, Sent
<1>6. /\ queued' \in Fifos /\ queued'[o] = <<>>
      /\ \A y \in Obj \ {o} : queued'[y] = queued[y]
  <2>1. <<>> \in Seq(Obj \cup {None}) /\ queued \in [Obj -> Seq(Obj \cup {None})]
    BY <1>2 DEF CountType, Fifos
  <2> QED BY <1>1, <2>1 DEF Fifos
<1>7. /\ phase' \in [Obj -> Phases] /\ phase'[o] = "gone"
      /\ refcount' \in [Obj -> Int]
      /\ \A x \in Obj \ {o} : phase'[x] = phase[x] /\ refcount'[x] = refcount[x]
  BY <1>1, <1>2 DEF CountType, Phases
<1>8. serving' \in [Obj -> BOOLEAN] /\ conc' \in [Obj -> Nat]
  <2>1. serving \in [Obj -> BOOLEAN] /\ conc \in [Obj -> Nat]
    BY <1>2 DEF CountType
  <2> QED BY <1>1, <2>1
<1>9. CountType'
  BY <1>2, <1>3, <1>5, <1>6, <1>7, <1>8 DEF CountType
<1>10. ASSUME NEW x \in Obj, x # o PROVE OInv(x)' /\ Owner(x)'
  <2>1. \A y \in Obj \ {o} : pending'[y][x] = pending[y][x] /\ queued'[y] = queued[y]
    BY <1>5, <1>6
  <2>2. /\ Travelling(x)' = Travelling(x) - (pending[o][x] + Occurs(queued[o], x))
                                          + (pending'[o][x] + Occurs(queued'[o], x))
        /\ pending[o][x] \in Nat /\ Occurs(queued[o], x) \in Nat
    BY <1>2, <1>5, <1>6, <2>1, TravelNext
  <2>3. pending'[o][x] = 0
    BY <1>4, <1>5
  <2>4. Occurs(queued'[o], x) = 0
    <3>0. <<>> \in Seq(Obj)
      OBVIOUS
    <3>1. PICK e \in Seq(Obj) : e = <<>>
      BY <3>0
    <3>2. \A i \in 1..Len(e) : e[i] # x
      BY <3>1
    <3>3. Occurs(e, x) = 0
      BY <3>2, OccursType
    <3> QED BY <1>6, <3>1, <3>3
  <2>5. Travelling(x) \in Nat
    BY <1>2, Numbers
  <2>6. Travelling(x)' <= Travelling(x)
    BY <2>2, <2>3, <2>4, <2>5
  <2>7. Travelling(x)' # Travelling(x) => x \in orphans'
    <3> SUFFICES ASSUME Travelling(x)' # Travelling(x) PROVE x \in orphans'
      OBVIOUS
    <3>1. pending[o][x] > 0 \/ Occurs(queued[o], x) # 0
      BY <2>2, <2>3, <2>4, <2>5
    <3>2. ASSUME Occurs(queued[o], x) # 0 PROVE x \in Carried(o)
      <4>1. queued \in Fifos /\ pending \in Sent
        BY <1>2 DEF CountType
      <4>2. \E i \in 1..Len(queued[o]) : queued[o][i] = x
        BY <3>2, <4>1, SentPart
      <4>3. x # None
        BY ApplicationAssumption DEF Proc
      <4> QED BY <4>2, <4>3 DEF Carried
    <3> QED BY <1>1, <1>10, <3>1, <3>2
  <2>8. /\ x \in orphans => x \in orphans'
        /\ x \in touched' <=> x \in touched
    BY <1>1, <1>10
  <2>9. /\ Probing(x)' <=> Probing(x)
        /\ Known(x)' => Known(x)
    BY <1>10
  <2>10. o \in Proc
    BY DEF Proc
  <2> QED BY <1>1, <1>7, <1>9, <1>10, <2>6, <2>7, <2>8, <2>9, <2>10, EndsFor
<1>11. OInv(o)' /\ Owner(o)'
  BY <1>3, <1>7 DEF OInv, Unborn, Unsent, NoCloses, Covered, Owner, Early, Born
<1> QED BY <1>9, <1>10, <1>11 DEF CInv

LEMMA AlarmR ==
    ASSUME CInv, NEW o \in Obj, Alarm(o)
    PROVE  CInv'
<1>1. ObjectEnds(o) /\ UNCHANGED <<plan, calls>> /\ UNCHANGED <<mon, managed, toMon>>
  BY DEF Alarm, monitor
<1>2. toMon' \subseteq {"manage", "unmanage"} \X Obj
  BY <1>1 DEF CInv, CountType
<1> QED BY <1>1, <1>2, ObjectEndsR, SameMonitor

LEMMA ExitR ==
    ASSUME CInv, NEW o \in Obj, Exit(o)
    PROVE  CInv'
<1>1. /\ ObjectEnds(o) /\ toMon' = toMon \cup {<<"unmanage", o>>}
      /\ UNCHANGED <<plan, calls>> /\ UNCHANGED <<mon, managed>>
  BY DEF Exit, monitor
<1>2. toMon' \subseteq {"manage", "unmanage"} \X Obj
  BY <1>1 DEF CInv, CountType
<1>3. \A x \in Obj \ {o} : (Probing(x)' <=> Probing(x)) /\ (Known(x)' => Known(x))
  BY <1>1 DEF Probing, Known
<1> QED BY <1>1, <1>2, <1>3, ObjectEndsR

-----------------------------------------------------------------------------
(* The monitor and main. *)

\* A step of the monitor or of main that changes no count of an object, and
\* perhaps ends the main process.
LEMMA MonitorR ==
    ASSUME CInv, UNCHANGED <<plan, phase, refcount, calls>>, UNCHANGED inside, UNCHANGED marks,
           toMon' \subseteq toMon,
           ProcessEnds(Main) \/ UNCHANGED <<refs, closing, alloc>>,
           \A x \in Obj : (Probing(x)' <=> Probing(x)) /\ (Known(x)' => Known(x))
    PROVE  CInv'
<1>1. UNCHANGED <<queued, serving, conc, pending>> /\ UNCHANGED <<touched, orphans>>
  BY DEF inside, marks
<1>2. CountType /\ Main \in Proc /\ Main \notin Obj
  BY ApplicationAssumption DEF CInv, Proc
<1>3. refs' \in Rows /\ closing' \in [Obj -> Nat] /\ alloc' \in [Proc -> Obj \cup {None}]
  <2>1. CASE ProcessEnds(Main)
    BY <1>2, <2>1, ProcessEndsType
  <2>2. CASE UNCHANGED <<refs, closing, alloc>>
    BY <1>2, <2>2 DEF CountType
  <2> QED BY <2>1, <2>2
<1>4. CountType'
  BY <1>1, <1>2, <1>3 DEF CountType
<1>5. ASSUME NEW x \in Obj PROVE OInv(x)' /\ Owner(x)'
  <2>1. /\ Travelling(x)' = Travelling(x)
        /\ Travelling(x) \in Nat
        /\ Probing(x)' <=> Probing(x)
        /\ Known(x)' => Known(x)
    BY <1>1, <1>2, SameSums, Numbers
  <2>2. CASE ProcessEnds(Main)
    <3>1. x # Main /\ Travelling(x)' <= Travelling(x)
      BY <1>2, <2>1
    <3> QED BY <1>1, <1>2, <1>4, <2>1, <2>2, <3>1, EndsFor
  <2>3. CASE UNCHANGED <<refs, closing, alloc>>
    <3>1. Held(x)' = Held(x)
      BY <2>3, SameSums
    <3> QED BY <1>1, <1>4, <2>1, <2>3, <3>1, Untouched, OwnerKept
  <2> QED BY <2>2, <2>3
<1> QED BY <1>4, <1>5 DEF CInv

\* Erasing from the list drops an object and keeps each of the others once.
LEMMA WithoutList ==
    ASSUME NEW s \in Seq(Obj), NEW o
    PROVE  /\ Range(Without(s, o)) \subseteq Range(s)
           /\ Once(s) => Once(Without(s, o))
<1>1. CASE o \notin Range(s)
  BY <1>1 DEF Without
<1>2. CASE o \in Range(s)
  <2>1. \E j \in 1..Len(s) : s[j] = o
    BY <1>2 DEF Range
  <2>2. PICK i \in 1..Len(s) : i = CHOOSE j \in 1..Len(s) : s[j] = o
    BY <2>1
  <2>3. Len(s) \in Nat /\ DOMAIN s = 1..Len(s)
    OBVIOUS
  <2>4. PICK n \in Nat : n = Len(s)
    BY <2>3
  <2>5. PICK a : a = SubSeq(s, 1, i - 1)
    OBVIOUS
  <2>6. PICK b : b = SubSeq(s, i + 1, n)
    OBVIOUS
  <2>7. PICK w : w = a \o b
    OBVIOUS
  <2>8. Without(s, o) = w
    BY <1>2, <2>2, <2>4, <2>5, <2>6, <2>7 DEF Without, RemoveAt
  <2>9. /\ a \in Seq(Obj) /\ Len(a) = i - 1
        /\ \A j \in 1..(i - 1) : a[j] = s[j]
    BY <2>3, <2>5
  <2>10. /\ b \in Seq(Obj)
         /\ Len(b) = IF i + 1 <= n THEN n - (i + 1) + 1 ELSE 0
         /\ \A j \in 1..(n - (i + 1) + 1) : b[j] = s[(i + 1) + j - 1]
    <3>1. i + 1 \in 1..(n + 1) /\ n \in (i + 1) - 1..n
      BY <2>3, <2>4
    <3> QED BY <2>4, <2>6, <3>1, SubSeqProperties
  <2>11. Len(b) = n - i /\ \A j \in 1..(n - i) : b[j] = s[i + j]
    <3>1. n - (i + 1) + 1 = n - i /\ \A j \in 1..(n - i) : (i + 1) + j - 1 = i + j
      BY <2>4
    <3> QED BY <2>4, <2>10, <3>1
  <2>12. /\ w \in Seq(Obj) /\ Len(w) = Len(a) + Len(b)
         /\ \A j \in 1..(Len(a) + Len(b)) : w[j] = IF j <= Len(a) THEN a[j] ELSE b[j - Len(a)]
    BY <2>7, <2>9, <2>10, ConcatProperties
  <2>13. Len(w) = n - 1 /\ DOMAIN w = 1..(n - 1)
    BY <2>4, <2>9, <2>11, <2>12
  <2>14. ASSUME NEW j \in 1..(n - 1), j < i PROVE w[j] = s[j] /\ j \in 1..n
    BY <2>4, <2>9, <2>11, <2>12, <2>14
  <2>15. ASSUME NEW j \in 1..(n - 1), ~(j < i) PROVE w[j] = s[j + 1] /\ j + 1 \in 1..n
    <3>1. PICK k : k = j - Len(a)
      OBVIOUS
    <3>2. k \in 1..(n - i) /\ i + k = j + 1 /\ ~(j <= Len(a)) /\ j \in 1..(Len(a) + Len(b))
      BY <2>4, <2>9, <2>11, <2>15, <3>1
    <3>3. w[j] = b[k]
      BY <2>12, <3>1, <3>2
    <3>4. b[k] = s[i + k]
      BY <2>11, <3>2
    <3> QED BY <3>2, <3>3, <3>4
  <2>16. Range(w) \subseteq Range(s)
    <3>1. ASSUME NEW j \in DOMAIN w PROVE w[j] \in Range(s)
      <4>1. \E k \in DOMAIN s : w[j] = s[k]
        BY <2>3, <2>4, <2>13, <2>14, <2>15
      <4> QED BY <4>1 DEF Range
    <3> QED BY <3>1 DEF Range
  <2>17. ASSUME Once(s) PROVE Once(w)
    <3> SUFFICES ASSUME NEW j \in 1..Len(w), NEW k \in 1..Len(w), w[j] = w[k]
                 PROVE  j = k
      BY DEF Once
    <3>1. \A x, y \in 1..n : s[x] = s[y] => x = y
      BY <2>4, <2>17 DEF Once
    <3>2. j \in 1..(n - 1) /\ k \in 1..(n - 1)
      BY <2>13
    <3>3. CASE j < i /\ k < i
      BY <2>14, <3>1, <3>2, <3>3
    <3>4. CASE j < i /\ ~(k < i)
      BY <2>4, <2>14, <2>15, <3>1, <3>2, <3>4
    <3>5. CASE ~(j < i) /\ k < i
      BY <2>4, <2>14, <2>15, <3>1, <3>2, <3>5
    <3>6. CASE ~(j < i) /\ ~(k < i)
      <4>1. j + 1 = k + 1
        BY <2>15, <3>1, <3>2, <3>6
      <4> QED BY <3>2, <4>1
    <3> QED BY <3>3, <3>4, <3>5, <3>6
  <2> QED BY <2>8, <2>16, <2>17
<1> QED BY <1>1, <1>2

LEMMA AppendList ==
    ASSUME NEW s \in Seq(Obj), NEW o \in Obj
    PROVE  /\ Range(Append(s, o)) = Range(s) \cup {o}
           /\ Once(s) /\ o \notin Range(s) => Once(Append(s, o))
<1>1. /\ Len(s) \in Nat /\ Len(Append(s, o)) = Len(s) + 1
      /\ DOMAIN s = 1..Len(s) /\ DOMAIN Append(s, o) = 1..(Len(s) + 1)
      /\ \A i \in 1..Len(s) : Append(s, o)[i] = s[i]
      /\ Append(s, o)[Len(s) + 1] = o
  OBVIOUS
<1>2. Range(Append(s, o)) = Range(s) \cup {o}
  BY <1>1 DEF Range
<1>3. ASSUME Once(s), o \notin Range(s) PROVE Once(Append(s, o))
  <2>1. \A i \in 1..Len(s) : s[i] # o
    BY <1>1, <1>3 DEF Range
  <2> QED BY <1>1, <1>3, <2>1 DEF Once
<1> QED BY <1>2, <1>3

LEMMA HeadIn ==
    ASSUME NEW s \in Seq(Obj), s # <<>>
    PROVE  Head(s) \in Range(s) /\ Range(Tail(s)) \subseteq Range(s)
<1>1. /\ Tail(s) \in Seq(Obj) /\ Len(s) \in Nat \ {0} /\ Len(Tail(s)) = Len(s) - 1
      /\ DOMAIN s = 1..Len(s) /\ DOMAIN Tail(s) = 1..Len(Tail(s))
      /\ Head(s) = s[1]
      /\ \A i \in 1..(Len(s) - 1) : Tail(s)[i] = s[i + 1]
  OBVIOUS
<1> QED BY <1>1 DEF Range

\* The registration of an object and its end.
LEMMA DeliverR ==
    ASSUME CInv, ListInv, NEW o \in Obj, NEW op \in {"manage", "unmanage"}, Deliver(op, o)
    PROVE  CInv'
<1>1. /\ <<op, o>> \in toMon /\ toMon' = toMon \ {<<op, o>>}
      /\ managed' = IF op = "unmanage" THEN Without(managed, o)
                    ELSE IF o \in Range(managed) THEN managed
                    ELSE Append(managed, o)
      /\ UNCHANGED <<plan, phase, refcount, calls>> /\ UNCHANGED inside /\ UNCHANGED marks
      /\ UNCHANGED <<refs, closing, alloc>> /\ mon' = mon
  BY DEF Deliver, life, count
<1>2. Range(managed') \subseteq Range(managed) \cup {o}
  BY <1>1, WithoutList, AppendList DEF ListInv
<1>3. Known(o)
  BY <1>1 DEF Known
<1>4. ASSUME NEW x \in Obj PROVE (Probing(x)' <=> Probing(x)) /\ (Known(x)' => Known(x))
  <2>1. Probing(x)' <=> Probing(x)
    BY <1>1 DEF Probing
  <2>2. CASE x = o
    BY <1>3, <2>1, <2>2
  <2>3. CASE x # o
    BY <1>1, <1>2, <2>1, <2>3 DEF Known
  <2> QED BY <2>2, <2>3
<1>5. toMon' \subseteq toMon
  BY <1>1
<1> QED BY <1>1, <1>4, <1>5, MonitorR

LEMMA CheckObjectsR ==
    ASSUME CInv, ListInv, CheckObjects
    PROVE  CInv'
<1>1. /\ mon.pc = "idle" /\ managed' = managed /\ toMon' = toMon
      /\ \/ mon' = mon
         \/ mon' = [mon EXCEPT !.pc = "bind", !.todo = managed, !.active = FALSE]
      /\ UNCHANGED <<plan, phase, refcount, calls>> /\ UNCHANGED inside /\ UNCHANGED marks
  BY DEF CheckObjects
<1>2. ProcessEnds(Main) \/ UNCHANGED <<refs, closing, alloc>>
  BY DEF CheckObjects, MainProcess
<1>3. /\ mon'.pc \in {"idle", "bind"} /\ (mon'.todo = mon.todo \/ mon'.todo = managed)
  BY <1>1 DEF ListInv, MonType
<1>4. ASSUME NEW x \in Obj PROVE (Probing(x)' <=> Probing(x)) /\ (Known(x)' => Known(x))
  BY <1>1, <1>3 DEF Probing, Known
<1>5. toMon' \subseteq toMon
  BY <1>1
<1> QED BY <1>1, <1>2, <1>4, <1>5, MonitorR

LEMMA CheckReturnsR ==
    ASSUME CInv, ListInv, CheckReturns
    PROVE  CInv'
<1>1. /\ mon.pc = "bind" /\ managed' = managed /\ toMon' = toMon
      /\ mon' = [mon EXCEPT !.pc = "idle"]
      /\ UNCHANGED <<plan, phase, refcount, calls>> /\ UNCHANGED inside /\ UNCHANGED marks
  BY DEF CheckReturns
<1>2. ProcessEnds(Main) \/ UNCHANGED <<refs, closing, alloc>>
  BY DEF CheckReturns, MainProcess
<1>3. mon'.pc = "idle" /\ mon'.todo = mon.todo
  BY <1>1 DEF ListInv, MonType
<1>4. ASSUME NEW x \in Obj PROVE (Probing(x)' <=> Probing(x)) /\ (Known(x)' => Known(x))
  BY <1>1, <1>3 DEF Probing, Known
<1>5. toMon' \subseteq toMon
  BY <1>1
<1> QED BY <1>1, <1>2, <1>4, <1>5, MonitorR

LEMMA KillAllR ==
    ASSUME CInv, ListInv, KillAll
    PROVE  CInv'
<1>1. /\ mon.pc = "idle" /\ managed' = managed /\ toMon' = toMon
      /\ mon' = [mon EXCEPT !.pc = "kill", !.todo = managed, !.killall = FALSE]
      /\ UNCHANGED <<plan, phase, refcount, calls>> /\ UNCHANGED inside /\ UNCHANGED marks
      /\ UNCHANGED <<refs, closing, alloc>>
  BY DEF KillAll, life, count
<1>2. mon'.pc = "kill" /\ mon'.todo = managed
  BY <1>1 DEF ListInv, MonType
<1>3. ASSUME NEW x \in Obj PROVE (Probing(x)' <=> Probing(x)) /\ (Known(x)' => Known(x))
  BY <1>1, <1>2 DEF Probing, Known
<1>4. toMon' \subseteq toMon
  BY <1>1
<1> QED BY <1>1, <1>3, <1>4, MonitorR

LEMMA KillReturnsR ==
    ASSUME CInv, ListInv, KillReturns
    PROVE  CInv'
<1>1. /\ mon.pc = "kill" /\ managed' = <<>> /\ toMon' = toMon
      /\ mon' = [mon EXCEPT !.pc = "idle"]
      /\ UNCHANGED <<plan, phase, refcount, calls>> /\ UNCHANGED inside /\ UNCHANGED marks
      /\ UNCHANGED <<refs, closing, alloc>>
  BY DEF KillReturns, life, count
<1>2. mon'.pc = "idle" /\ mon'.todo = mon.todo
  BY <1>1 DEF ListInv, MonType
<1>3. Range(managed') = {}
  BY <1>1 DEF Range
<1>4. ASSUME NEW x \in Obj PROVE (Probing(x)' <=> Probing(x)) /\ (Known(x)' => Known(x))
  BY <1>1, <1>2, <1>3 DEF Probing, Known
<1>5. toMon' \subseteq toMon
  BY <1>1
<1> QED BY <1>1, <1>4, <1>5, MonitorR

LEMMA MainStepsR ==
    ASSUME CInv, ListInv, MainReturns \/ MainFails
    PROVE  CInv'
<1>1. /\ managed' = managed /\ toMon' = toMon
      /\ mon' = mon \/ mon' = [mon EXCEPT !.killall = TRUE]
      /\ UNCHANGED <<plan, phase, refcount, calls>> /\ UNCHANGED inside /\ UNCHANGED marks
  BY DEF MainReturns, MainFails, monitor, life, count
<1>2. ProcessEnds(Main) \/ UNCHANGED <<refs, closing, alloc>>
  BY DEF MainReturns, MainFails, life, count
<1>3. mon'.pc = mon.pc /\ mon'.todo = mon.todo
  BY <1>1 DEF ListInv, MonType
<1>4. ASSUME NEW x \in Obj PROVE (Probing(x)' <=> Probing(x)) /\ (Known(x)' => Known(x))
  BY <1>1, <1>3 DEF Probing, Known
<1>5. toMon' \subseteq toMon
  BY <1>1
<1> QED BY <1>1, <1>2, <1>4, <1>5, MonitorR

LEMMA KillNextR ==
    ASSUME CInv, ListInv, NEW o \in Obj, KillNext(o)
    PROVE  CInv'
<1>1. /\ mon.pc \in {"kill", "ack"} /\ mon.todo # <<>>
      /\ managed' = managed /\ toMon' = toMon /\ UNCHANGED <<plan, calls>>
      /\ \/ mon' = [mon EXCEPT !.pc = "kill", !.todo = Tail(mon.todo)]
         \/ mon.pc = "kill" /\ mon' = [mon EXCEPT !.todo = Tail(mon.todo)]
         \/ mon' = [mon EXCEPT !.pc = "ack"]
  BY DEF KillNext
<1>2. \/ ObjectEnds(o)
      \/ /\ UNCHANGED <<phase, refcount>> /\ UNCHANGED inside /\ UNCHANGED marks
         /\ UNCHANGED <<refs, closing, alloc>>
  BY DEF KillNext, life, count
<1>3. mon \in MonType /\ Range(Tail(mon.todo)) \subseteq Range(mon.todo)
  <2>1. mon \in MonType /\ mon.todo \in Seq(Obj)
    BY DEF ListInv, MonType
  <2> QED BY <1>1, <2>1, HeadIn
<1>4. mon'.pc \in {"kill", "ack"} /\ (mon'.todo = mon.todo \/ mon'.todo = Tail(mon.todo))
  BY <1>1, <1>3 DEF MonType
<1>5. ASSUME NEW x \in Obj PROVE (Probing(x)' <=> Probing(x)) /\ (Known(x)' => Known(x))
  BY <1>1, <1>3, <1>4 DEF Probing, Known
<1>6. toMon' \subseteq toMon /\ toMon' \subseteq {"manage", "unmanage"} \X Obj
  BY <1>1 DEF CInv, CountType
<1>7. CASE ObjectEnds(o)
  BY <1>1, <1>5, <1>6, <1>7, ObjectEndsR
<1>8. CASE /\ UNCHANGED <<phase, refcount>> /\ UNCHANGED inside /\ UNCHANGED marks
           /\ UNCHANGED <<refs, closing, alloc>>
  BY <1>1, <1>5, <1>6, <1>8, MonitorR
<1> QED BY <1>2, <1>7, <1>8

\* The list of a ping names objects whose constructor has begun.
LEMMA HeadKnown ==
    ASSUME CInv, ListInv, mon.todo # <<>>
    PROVE  /\ mon.todo \in Seq(Obj) /\ Head(mon.todo) \in Obj /\ Known(Head(mon.todo))
           /\ Range(Tail(mon.todo)) \subseteq Range(mon.todo)
           /\ phase[Head(mon.todo)] \in {"building", "alive", "draining", "gone"}
<1>1. mon.todo \in Seq(Obj)
  BY DEF ListInv, MonType
<1>2. Head(mon.todo) \in Obj
  BY <1>1, TailRange
<1>3. Head(mon.todo) \in Range(mon.todo) /\ Range(Tail(mon.todo)) \subseteq Range(mon.todo)
  BY <1>1, HeadIn
<1>4. PICK h \in Obj : h = Head(mon.todo)
  BY <1>2
<1>5. Known(h)
  BY <1>3, <1>4 DEF Known
<1>6. phase[h] \in Phases /\ phase[h] \notin Early
  BY <1>5 DEF CInv, CountType, OInv, Unborn
<1>7. phase[h] \in {"building", "alive", "draining", "gone"}
  BY <1>6 DEF Phases, Early
<1>8. Known(Head(mon.todo))
  BY <1>3 DEF Known
<1> QED BY <1>1, <1>2, <1>3, <1>4, <1>7, <1>8

\* Everything but the counts of one object and the monitor's list and check.
PingFrame ==
    /\ UNCHANGED <<plan, phase, alloc, refs, calls>>
    /\ UNCHANGED <<queued, serving, conc, pending>>
    /\ toMon' = toMon /\ orphans' = orphans

\* An object that is gone, or that a ping reached too early, is erased.
LEMMA ErasedR ==
    ASSUME CInv, ListInv, PingFrame, mon.todo # <<>>, NEW o \in Obj, o = Head(mon.todo),
           mon.pc \in {"bind", "unref", "ask", "drop"}, Erased(o), ~Exists(o), mon.pc = "bind" => ~Reachable(o)
    PROVE  CInv'
<1>1. /\ managed' = Without(managed, o)
      /\ mon' = [mon EXCEPT !.pc = "bind", !.todo = Tail(mon.todo)]
      /\ refcount' = refcount /\ closing' = closing /\ touched' = touched
  BY DEF Erased, count
<1>2. mon'.pc = "bind" /\ mon'.todo = Tail(mon.todo)
  BY <1>1 DEF ListInv, MonType
<1>3. /\ Range(mon'.todo) \subseteq Range(mon.todo)
      /\ Range(managed') \subseteq Range(managed)
  BY <1>1, <1>2, HeadKnown, WithoutList DEF ListInv
<1>4. CountType /\ \A x \in Obj : OInv(x) /\ Owner(x)
  BY DEF CInv
<1>5. CountType'
  BY <1>1, <1>4 DEF CountType, PingFrame
<1>6. ASSUME NEW x \in Obj
      PROVE  /\ Held(x)' = Held(x) /\ Travelling(x)' = Travelling(x)
             /\ Known(x)' => Known(x)
             /\ ~Probing(x)'
             /\ phase'[x] = phase[x] /\ refcount'[x] = refcount[x] /\ closing'[x] = closing[x]
             /\ x \in touched' <=> x \in touched
             /\ x \in orphans' <=> x \in orphans
  BY <1>1, <1>2, <1>3, SameSums DEF PingFrame, Known, Probing
<1>7. phase[o] = "gone" \/ (phase[o] = "building" /\ mon.pc \in {"unref", "ask", "drop"})
  BY HeadKnown DEF Exists, Reachable
<1>8. phase[o] = "building" => o \in touched
  BY <1>4, <1>7 DEF Owner, Probing
<1>9. ASSUME NEW x \in Obj PROVE Owner(x)'
  BY <1>6, OwnerKept DEF PingFrame
<1>10. ASSUME NEW x \in Obj PROVE OInv(x)'
  <2>1. CASE x # o
    <3>1. ~Probing(x)
      BY <2>1 DEF Probing
    <3> QED BY <1>5, <1>6, <3>1, Untouched DEF PingFrame
  <2>2. CASE x = o
    <3>1. Unborn(o)' /\ Unsent(o)' /\ NoCloses(o)'
      BY <1>4, <1>6 DEF OInv, Unborn, Unsent, NoCloses, PingFrame
    <3>2. Covered(o)'
      BY <1>6, <1>7, <1>8 DEF Covered, Born
    <3> QED BY <2>2, <3>1, <3>2 DEF OInv
  <2> QED BY <2>1, <2>2
<1> QED BY <1>5, <1>9, <1>10 DEF CInv

\* The probe's connection is closed: what it counted for is a close under way.
LEMMA ProbeClosedR ==
    ASSUME CInv, ListInv, PingFrame, mon.todo # <<>>, NEW o \in Obj, o = Head(mon.todo),
           mon.pc \in {"unref", "ask", "drop"}, NEW a, ProbeClosed(o, a),
           \/ refcount' = refcount /\ touched' = touched
           \/ /\ refcount' = [refcount EXCEPT ![o] = Less(o)]
              /\ touched' = touched \cup {o}
    PROVE  CInv'
<1>1. /\ managed' = managed
      /\ mon' = [mon EXCEPT !.pc = "bind", !.todo = Tail(mon.todo), !.active = a]
      /\ closing' = [closing EXCEPT ![o] = closing[o] + Closed(o)]
  BY DEF ProbeClosed
<1>2. mon'.pc = "bind" /\ mon'.todo = Tail(mon.todo)
  BY <1>1 DEF ListInv, MonType
<1>3. Range(mon'.todo) \subseteq Range(mon.todo)
  BY <1>2, HeadKnown
<1>4. CountType /\ \A x \in Obj : OInv(x) /\ Owner(x)
  BY DEF CInv
<1>5. /\ Closed(o) \in {0, 1}
      /\ plan.mode = "uds" => Closed(o) = 0
      /\ plan.mode = "socket" /\ phase[o] \in Born => Closed(o) = 1
  BY DEF Closed, Reachable, Exists, Born
<1>6. /\ closing' \in [Obj -> Nat] /\ closing'[o] = closing[o] + Closed(o)
      /\ \A x \in Obj \ {o} : closing'[x] = closing[x]
  <2>1. closing \in [Obj -> Nat] /\ closing[o] + Closed(o) \in Nat
    BY <1>4, <1>5 DEF CountType
  <2> QED BY <1>1, <2>1
<1>7. /\ refcount' \in [Obj -> Int]
      /\ \A x \in Obj \ {o} : refcount'[x] = refcount[x]
      /\ o \notin touched' => refcount'[o] = refcount[o]
  <2>1. refcount \in [Obj -> Int] /\ Less(o) \in Int
    BY <1>4 DEF CountType, Less
  <2> QED BY <2>1
<1>8. CountType'
  BY <1>4, <1>6, <1>7 DEF CountType, PingFrame
<1>9. ASSUME NEW x \in Obj
      PROVE  /\ Held(x)' = Held(x) /\ Travelling(x)' = Travelling(x)
             /\ Known(x)' => Known(x)
             /\ ~Probing(x)'
             /\ Probing(x) <=> x = o
             /\ phase'[x] = phase[x]
             /\ x \in touched => x \in touched'
             /\ x # o => (x \in touched' <=> x \in touched)
             /\ x \in orphans' <=> x \in orphans
  BY <1>1, <1>2, <1>3, SameSums DEF PingFrame, Known, Probing
<1>10. phase[o] \in {"building", "alive", "draining", "gone"}
  BY HeadKnown
<1>11. phase[o] = "building" => o \in touched'
  BY <1>4, <1>9 DEF Owner
<1>12. ASSUME NEW x \in Obj PROVE Owner(x)'
  BY <1>9, OwnerKept DEF PingFrame
<1>13. ASSUME NEW x \in Obj PROVE OInv(x)'
  <2>1. CASE x # o
    BY <1>6, <1>7, <1>8, <1>9, <2>1, Untouched DEF PingFrame
  <2>2. CASE x = o
    <3>1. plan.mode = "uds" => closing'[o] = 0
      BY <1>4, <1>5, <1>6 DEF OInv, NoCloses
    <3>2. CASE phase[o] = "building"
      <4>1. Unborn(o)' /\ Unsent(o)' /\ NoCloses(o)'
        BY <1>4, <1>9, <3>1, <3>2 DEF OInv, Unborn, Unsent, NoCloses, PingFrame, Early
      <4>2. Covered(o)'
        BY <1>9, <1>11, <3>2 DEF Covered, Born
      <4> QED BY <2>2, <4>1, <4>2 DEF OInv
    <3>3. CASE phase[o] # "building"
      <4>1. Held(o) \in Nat /\ Travelling(o) \in Nat /\ closing[o] \in Nat /\ refcount[o] \in Int
        BY <1>4, Numbers
      <4>2. /\ Counted(o) = Held(o) + closing[o] + Travelling(o) + 1
            /\ Counted(o)' = Held(o)' + closing'[o] + Travelling(o)'
        BY <1>4, <1>8, <1>9, CountedNext
      <4>3. plan.mode = "socket" /\ phase[o] # "gone" => Counted(o)' = Counted(o)
        BY <1>5, <1>6, <1>9, <1>10, <4>1, <4>2 DEF Born
      <4>4. /\ plan.mode = "socket" /\ phase[o] # "gone" /\ o \notin touched' =>
                 refcount'[o] - Counted(o)' = refcount[o] - Counted(o)
            /\ o \notin touched' => refcount'[o] - Travelling(o)' = refcount[o] - Travelling(o)
        BY <1>7, <1>9, <4>3
      <4> QED BY <1>8, <1>9, <1>10, <2>2, <3>1, <3>3, <4>4, Shifted DEF PingFrame
    <3> QED BY <3>2, <3>3
  <2> QED BY <2>1, <2>2
<1> QED BY <1>8, <1>12, <1>13 DEF CInv

\* The probe connects: counted, or not yet when there is no object.
LEMMA PingBindR ==
    ASSUME CInv, ListInv, NEW o \in Obj, PingBind(o)
    PROVE  CInv'
<1>1. mon.pc = "bind" /\ mon.todo # <<>> /\ o = Head(mon.todo) /\ PingFrame
  BY DEF PingBind, PingFrame, life, inside
<1>2. CASE ~Reachable(o)
  <2>1. Erased(o) /\ ~Exists(o)
    BY <1>2 DEF PingBind, Reachable
  <2> QED BY <1>1, <1>2, <2>1, ErasedR
<1>3. CASE Reachable(o)
  <2>1. /\ \E c \in {"unref", "ask"} : mon' = [mon EXCEPT !.pc = c]
        /\ refcount' = [refcount EXCEPT ![o] = refcount[o] + Opened(o)]
        /\ touched' = IF Exists(o) THEN touched ELSE touched \cup {o}
        /\ UNCHANGED <<closing, managed>>
    BY <1>3 DEF PingBind
  <2>2. mon'.pc \in {"unref", "ask"} /\ mon'.todo = mon.todo
    BY <2>1 DEF ListInv, MonType
  <2>3. CountType /\ \A x \in Obj : OInv(x) /\ Owner(x)
    BY DEF CInv
  <2>4. phase[o] \in {"building", "alive", "draining"}
    BY <1>1, <1>3, HeadKnown DEF Reachable, Exists
  <2>5. /\ Opened(o) \in {0, 1}
        /\ plan.mode = "socket" /\ phase[o] # "building" => Opened(o) = 1
        /\ plan.mode = "uds" => Opened(o) = 0
    BY <2>4 DEF Opened, Exists
  <2>6. /\ refcount' \in [Obj -> Int] /\ refcount'[o] = refcount[o] + Opened(o)
        /\ \A x \in Obj \ {o} : refcount'[x] = refcount[x]
    <3>1. refcount \in [Obj -> Int] /\ refcount[o] + Opened(o) \in Int
      BY <2>3, <2>5 DEF CountType
    <3> QED BY <2>1, <3>1
  <2>7. CountType'
    BY <1>1, <2>1, <2>3, <2>6 DEF CountType, PingFrame
  <2>8. ASSUME NEW x \in Obj
        PROVE  /\ Held(x)' = Held(x) /\ Travelling(x)' = Travelling(x)
               /\ Known(x)' => Known(x)
               /\ ~Probing(x)
               /\ Probing(x)' <=> x = o
               /\ phase'[x] = phase[x] /\ closing'[x] = closing[x]
               /\ x \in touched => x \in touched'
               /\ x # o => (x \in touched' <=> x \in touched)
               /\ x \in orphans' <=> x \in orphans
    BY <1>1, <2>1, <2>2, SameSums DEF PingFrame, Known, Probing
  <2>9. phase[o] = "building" => o \in touched'
    BY <2>1 DEF Exists
  <2>10. ASSUME NEW x \in Obj PROVE Owner(x)'
    <3>1. CASE x = o /\ phase[o] # "building"
      BY <2>8, <3>1 DEF Owner
    <3>2. CASE ~(x = o /\ phase[o] # "building")
      BY <1>1, <2>8, <2>9, <3>2, OwnerKept DEF PingFrame
    <3> QED BY <3>1, <3>2
  <2>11. ASSUME NEW x \in Obj PROVE OInv(x)'
    <3>1. CASE x # o
      BY <1>1, <2>6, <2>7, <2>8, <3>1, Untouched DEF PingFrame
    <3>2. CASE x = o /\ phase[o] = "building"
      <4>1. Unborn(o)' /\ Unsent(o)' /\ NoCloses(o)'
        BY <1>1, <2>3, <2>8, <3>2 DEF OInv, Unborn, Unsent, NoCloses, PingFrame, Early
      <4>2. Covered(o)'
        BY <2>8, <2>9, <3>2 DEF Covered, Born
      <4> QED BY <3>2, <4>1, <4>2 DEF OInv
    <3>3. CASE x = o /\ phase[o] # "building"
      <4>1. Held(o) \in Nat /\ Travelling(o) \in Nat /\ closing[o] \in Nat /\ refcount[o] \in Int
        BY <2>3, Numbers
      <4>2. /\ Counted(o) = Held(o) + closing[o] + Travelling(o)
            /\ Counted(o)' = Held(o)' + closing'[o] + Travelling(o)' + 1
        BY <2>3, <2>7, <2>8, CountedNext
      <4>3. Counted(o)' = Counted(o) + 1 /\ Counted(o) \in Int
        BY <2>8, <4>1, <4>2
      <4>4. /\ plan.mode = "socket" => refcount'[o] - Counted(o)' = refcount[o] - Counted(o)
            /\ plan.mode = "uds" =>
                 refcount'[o] - Travelling(o)' = refcount[o] - Travelling(o)
        BY <2>5, <2>6, <2>8, <3>3, <4>1, <4>3
      <4>6. plan.mode = "uds" => closing'[o] = 0
        BY <2>3, <2>8 DEF OInv, NoCloses
      <4> QED BY <1>1, <2>4, <2>7, <2>8, <3>3, <4>4, <4>6, Shifted DEF PingFrame
    <3> QED BY <3>1, <3>2, <3>3
  <2> QED BY <2>7, <2>10, <2>11 DEF CInv
<1> QED BY <1>2, <1>3

\* The count that the mark takes away is recorded.
LEMMA PingUnrefR ==
    ASSUME CInv, ListInv, NEW o \in Obj, PingUnref(o)
    PROVE  CInv'
<1>1. mon.pc = "unref" /\ mon.todo # <<>> /\ o = Head(mon.todo) /\ PingFrame
  BY DEF PingUnref, PingFrame, ListInv, life, inside
<1>2. CASE ~Reachable(o)
  <2>1. Erased(o) /\ ~Exists(o)
    BY <1>2 DEF PingUnref, Reachable
  <2> QED BY <1>1, <1>2, <2>1, ErasedR
<1>3. CASE Reachable(o)
  <2>1. /\ Exists(o) /\ mon' = [mon EXCEPT !.pc = "ask"]
        /\ refcount' = [refcount EXCEPT ![o] = Less(o)] /\ touched' = touched \cup {o}
        /\ UNCHANGED <<closing, managed>>
    BY <1>3 DEF PingUnref
  <2>2. mon'.pc = "ask" /\ mon'.todo = mon.todo
    BY <2>1 DEF ListInv, MonType
  <2>3. CountType /\ \A x \in Obj : OInv(x) /\ Owner(x)
    BY DEF CInv
  <2>4. /\ refcount' \in [Obj -> Int]
        /\ \A x \in Obj \ {o} : refcount'[x] = refcount[x]
    <3>1. refcount \in [Obj -> Int] /\ Less(o) \in Int
      BY <2>3 DEF CountType, Less
    <3> QED BY <2>1, <3>1
  <2>5. CountType'
    BY <1>1, <2>1, <2>3, <2>4 DEF CountType, PingFrame
  <2>6. ASSUME NEW x \in Obj
        PROVE  /\ Held(x)' = Held(x) /\ Travelling(x)' = Travelling(x)
               /\ Known(x)' => Known(x)
               /\ Probing(x)' <=> Probing(x)
               /\ phase'[x] = phase[x] /\ closing'[x] = closing[x]
               /\ x \in touched => x \in touched'
               /\ x # o => (x \in touched' <=> x \in touched)
               /\ x \in orphans' <=> x \in orphans
    BY <1>1, <2>1, <2>2, SameSums DEF PingFrame, Known, Probing
  <2>7. ASSUME NEW x \in Obj PROVE Owner(x)'
    BY <1>1, <2>6, OwnerKept DEF PingFrame
  <2>8. ASSUME NEW x \in Obj PROVE OInv(x)'
    <3>1. CASE x # o
      BY <1>1, <2>4, <2>5, <2>6, <3>1, Untouched DEF PingFrame
    <3>2. CASE x = o
      <4>1. o \in touched' /\ phase[o] \in {"alive", "draining"}
        BY <2>1 DEF Exists
      <4>2. Unborn(o)' /\ Unsent(o)' /\ NoCloses(o)'
        BY <1>1, <2>3, <2>6, <4>1 DEF OInv, Unborn, Unsent, NoCloses, PingFrame, Early
      <4>3. Covered(o)'
        BY <4>1 DEF Covered
      <4> QED BY <3>2, <4>2, <4>3 DEF OInv
    <3> QED BY <3>1, <3>2
  <2> QED BY <2>5, <2>7, <2>8 DEF CInv
<1> QED BY <1>2, <1>3

LEMMA PingAskR ==
    ASSUME CInv, ListInv, NEW o \in Obj, PingAsk(o)
    PROVE  CInv'
<1>1. /\ mon.pc = "ask" /\ mon.todo # <<>> /\ o = Head(mon.todo) /\ PingFrame
  BY DEF PingAsk, PingFrame, ListInv, life, inside
<1>2. CASE ~Reachable(o)
  <2>1. Erased(o) /\ ~Exists(o)
    BY <1>2 DEF PingAsk, Reachable
  <2> QED BY <1>1, <2>1, ErasedR
<1>3. CASE Reachable(o)
  <2>1. /\ \/ mon' = [mon EXCEPT !.pc = "drop"] /\ UNCHANGED <<closing, managed>>
           \/ ProbeClosed(o, mon.active \/ ObjectActive(o))
        /\ refcount' = refcount /\ touched' = touched
    BY <1>3 DEF PingAsk
  <2>2. CASE mon' = [mon EXCEPT !.pc = "drop"] /\ UNCHANGED <<closing, managed>>
    <3>1. mon'.pc = "drop" /\ mon'.todo = mon.todo
      BY <2>2 DEF ListInv, MonType
    <3>2. \A x \in Obj : (Probing(x)' <=> Probing(x)) /\ (Known(x)' => Known(x))
      BY <1>1, <2>2, <3>1 DEF Probing, Known, PingFrame
    <3>3. /\ UNCHANGED <<plan, phase, refcount, calls>> /\ UNCHANGED inside /\ UNCHANGED marks
          /\ toMon' \subseteq toMon /\ UNCHANGED <<refs, closing, alloc>>
      BY <1>1, <2>1, <2>2 DEF PingFrame, inside, marks
    <3> QED BY <3>2, <3>3, MonitorR
  <2>3. CASE ProbeClosed(o, mon.active \/ ObjectActive(o))
    <3>1. PICK a : a = (mon.active \/ ObjectActive(o))
      OBVIOUS
    <3>2. ProbeClosed(o, a)
      BY <2>3, <3>1 DEF ProbeClosed
    <3> QED BY <1>1, <2>1, <3>2, ProbeClosedR
  <2> QED BY <2>1, <2>2, <2>3
<1> QED BY <1>2, <1>3

LEMMA PingDropR ==
    ASSUME CInv, ListInv, NEW o \in Obj, PingDrop(o)
    PROVE  CInv'
<1>1. /\ mon.pc = "drop" /\ mon.todo # <<>> /\ o = Head(mon.todo) /\ PingFrame
  BY DEF PingDrop, PingFrame, ListInv, life, inside
<1>2. CASE ~Exists(o)
  <2>1. Erased(o)
    BY <1>2 DEF PingDrop
  <2> QED BY <1>1, <1>2, <2>1, ErasedR
<1>3. CASE Exists(o)
  <2>1. /\ refcount' = [refcount EXCEPT ![o] = Less(o)]
        /\ touched' = touched \cup {o} /\ ProbeClosed(o, FALSE)
    BY <1>3 DEF PingDrop
  <2>2. PICK a : a = FALSE
    OBVIOUS
  <2>3. ProbeClosed(o, a)
    BY <2>1, <2>2
  <2> QED BY <1>1, <2>1, <2>3, ProbeClosedR
<1> QED BY <1>2, <1>3

\* The list of the monitor keeps each object once.
LEMMA OnceKept ==
    ASSUME RInv, ListInv, Step
    PROVE  Once(managed)'
<1>1. managed \in Seq(Obj) /\ Once(managed)
  BY DEF RInv, ListInv
<1>2. CASE managed' = managed
  BY <1>1, <1>2 DEF Once
<1>3. CASE \E o : managed' = Without(managed, o)
  BY <1>1, <1>3, WithoutList DEF Once
<1>4. CASE \E o \in Obj : o \notin Range(managed) /\ managed' = Append(managed, o)
  BY <1>1, <1>4, AppendList DEF Once
<1>5. CASE managed' = <<>>
  BY <1>5 DEF Once
<1>6. CASE \/ \E p \in Proc : UserStep(p) \/ CreateStep(p)
           \/ \E o \in Obj : ObjMain(o) \/ OpenThis(o) \/ Built(o) \/ Alarm(o)
                             \/ OnCloseConnection(o) \/ ObjectStep(o)
           \/ MainReturns
           \/ MainFails
  <2>1. managed' = managed
    BY <1>6 DEF UserStep, CreateStep, ObjectStep, Allocate, CopyReference, Release, Call,
           Construct, AllocFails, ObjMain, OpenThis, Built, Alarm, OnCloseConnection, Start, EndCall,
           Unpacked, Leave, Exit, MainReturns, MainFails, monitor
  <2> QED BY <1>2, <2>1
<1>7. CASE \E o \in Obj : DeliverStep(o)
  BY <1>2, <1>3, <1>4, <1>7 DEF DeliverStep, Deliver
<1>8. CASE \E o \in Obj : PingBind(o) \/ PingUnref(o) \/ PingAsk(o) \/ PingDrop(o)
  BY <1>2, <1>3, <1>8 DEF PingBind, PingUnref, PingAsk, PingDrop, Erased, ProbeClosed
<1>9. CASE \E o \in Obj : KillNext(o)
  BY <1>2, <1>9 DEF KillNext
<1>10. CASE CheckObjects \/ CheckReturns \/ KillAll
  BY <1>2, <1>10 DEF CheckObjects, CheckReturns, KillAll
<1>11. CASE KillReturns
  BY <1>5, <1>11 DEF KillReturns
<1> QED BY <1>6, <1>7, <1>8, <1>9, <1>10, <1>11 DEF Step, MonitorStep

\* Only objects are connected to themselves.
LEMMA SelfKept ==
    ASSUME self \subseteq Obj, Step
    PROVE  self' \subseteq Obj
<1>1. CASE self' = self \/ \E o \in Obj : self' = self \cup {o} \/ self' = self \ {o}
  BY <1>1
<1>2. CASE \/ \E p \in Proc : UserStep(p) \/ CreateStep(p)
           \/ \E o \in Obj : ObjMain(o) \/ Built(o) \/ OnCloseConnection(o) \/ DeliverStep(o)
           \/ MainReturns
           \/ MainFails
  <2>1. self' = self
    BY <1>2 DEF UserStep, CreateStep, Allocate, CopyReference, Release, Call, Construct,
           AllocFails, ObjMain, Built, OnCloseConnection, DeliverStep, Deliver, MainReturns,
           MainFails, life
  <2> QED BY <1>1, <2>1
<1>3. CASE \E o \in Obj : OpenThis(o) \/ Alarm(o)
  BY <1>1, <1>3 DEF OpenThis, Alarm, ObjectEnds
<1>4. CASE \E o \in Obj : ObjectStep(o)
  BY <1>1, <1>4 DEF ObjectStep, Start, EndCall, Unpacked, Leave, Exit, ObjectEnds, life
<1>5. CASE MonitorStep
  BY <1>1, <1>5 DEF MonitorStep, PingBind, PingUnref, PingAsk, PingDrop, KillNext, CheckReturns,
         KillAll, KillReturns, ObjectEnds, life
<1>6. CASE CheckObjects
  BY <1>1, <1>6 DEF CheckObjects
<1> QED BY <1>2, <1>3, <1>4, <1>5, <1>6 DEF Step

\* The loop of Finalize counts within its bounds.
LEMMA MainKept ==
    ASSUME RInv, ListInv, Step
    PROVE  main' \in MainType
<1>1. /\ main \in MainType /\ ResetAt \in Nat
      /\ managed \in Seq(Obj) /\ Len(managed) \in Nat
  BY ApplicationAssumption DEF RInv, ListInv
<1>2. CASE main' = main
  BY <1>1, <1>2
<1>3. ASSUME FinalizeRound(Len(managed)) PROVE main' \in MainType
  <2>1. PICK n \in Nat : n = Len(managed)
    BY <1>1
  <2>2. PICK l : l = IF main.oldcount = n /\ main.loop < ResetAt THEN main.loop + 1 ELSE 0
    OBVIOUS
  <2>3. l \in 0..ResetAt
    BY <1>1, <2>2 DEF MainType
  <2>4. \/ main' = [main EXCEPT !.pc = "done"]
        \/ main' = [main EXCEPT !.pc = "finalize", !.oldcount = n, !.loop = l]
    BY <1>3, <2>1, <2>2 DEF FinalizeRound
  <2> QED BY <1>1, <2>3, <2>4 DEF MainType
<1>4. CASE main' = [main EXCEPT !.pc = "wait"] \/ main' = [main EXCEPT !.pc = "finalize"]
  BY <1>1, <1>4 DEF MainType
<1>5. CASE main' = [main EXCEPT !.pc = "done", !.normal = FALSE]
  BY <1>1, <1>5 DEF MainType
<1>6. CASE \/ \E p \in Proc : UserStep(p) \/ CreateStep(p)
           \/ \E o \in Obj : ObjMain(o) \/ OpenThis(o) \/ Built(o) \/ Alarm(o)
                             \/ OnCloseConnection(o) \/ ObjectStep(o)
  <2>1. main' = main
    BY <1>6 DEF UserStep, CreateStep, ObjectStep, Allocate, CopyReference, Release, Call,
           Construct, AllocFails, ObjMain, OpenThis, Built, Alarm, OnCloseConnection, Start, EndCall,
           Unpacked, Leave, Exit
  <2> QED BY <1>2, <2>1
<1>7. CASE \E o \in Obj : DeliverStep(o)
  BY <1>2, <1>7 DEF DeliverStep, Deliver
<1>8. CASE \E o \in Obj : \/ PingBind(o) \/ PingUnref(o) \/ PingAsk(o) \/ PingDrop(o)
                         \/ KillNext(o)
  BY <1>2, <1>8 DEF PingBind, PingUnref, PingAsk, PingDrop, KillNext
<1>9. CASE CheckObjects \/ CheckReturns
  BY <1>2, <1>3, <1>4, <1>9 DEF CheckObjects, CheckReturns
<1>10. CASE KillAll \/ KillReturns
  BY <1>2, <1>10 DEF KillAll, KillReturns
<1>11. CASE MainReturns
  BY <1>4, <1>11 DEF MainReturns
<1>12. CASE MainFails
  BY <1>5, <1>12 DEF MainFails
<1> QED BY <1>6, <1>7, <1>8, <1>9, <1>10, <1>11, <1>12 DEF Step, MonitorStep

-----------------------------------------------------------------------------
LEMMA InitR == Init => RInv
<1> SUFFICES ASSUME Init PROVE RInv
  OBVIOUS
<1>1. <<>> \in Seq(Obj) /\ <<>> \in Seq(Obj \cup {None}) /\ ResetAt \in Nat
  BY ApplicationAssumption
<1>2. Zero \in [Obj -> Nat] /\ \A x \in Obj : Zero[x] = 0
  BY DEF Zero
<1>3. plan.calls \in Nat
  BY ApplicationAssumption DEF Init, PlanType
<1>4. /\ refs \in Rows /\ pending \in Sent /\ queued \in Fifos
      /\ refcount \in [Obj -> Int] /\ closing \in [Obj -> Nat] /\ conc \in [Obj -> Nat]
  BY <1>1, <1>2 DEF Init, Rows, Sent, Fifos
<1>5. CountType
  BY <1>3, <1>4 DEF Init, CountType, Phases
<1>6. main \in MainType /\ Once(managed) /\ self \subseteq Obj
  BY <1>1 DEF Init, MainType, Once
<1>7. ASSUME NEW o \in Obj PROVE OInv(o) /\ Owner(o)
  <2>1. phase[o] = "none" /\ closing[o] = 0
    BY <1>2 DEF Init
  <2>2. Held(o) = 0
    <3>1. \A p \in Proc : refs[p][o] = 0
      BY <1>2 DEF Init
    <3> QED BY <1>4, <1>5, <3>1, RowSumType, Numbers
  <2>3. Travelling(o) = 0
    <3>1. \A q \in Obj : pending[q][o] + Occurs(queued[q], o) = 0
      <4>1. ASSUME NEW q \in Obj PROVE pending[q][o] = 0 /\ Occurs(queued[q], o) = 0
        <5>1. pending[q][o] = 0 /\ queued[q] = <<>>
          BY <1>2 DEF Init
        <5>2. \A i \in 1..Len(queued[q]) : queued[q][i] # o
          BY <5>1
        <5> QED BY <1>4, <5>1, <5>2, SentPart
      <4> QED BY <4>1
    <3> QED BY <1>4, <1>5, <3>1, SentSumType, Numbers
  <2>4. ~Known(o)
    <3>1. Range(managed) = {} /\ Range(mon.todo) = {} /\ toMon = {}
      BY DEF Init, Range
    <3> QED BY <3>1 DEF Known
  <2> QED BY <2>1, <2>2, <2>3, <2>4
          DEF OInv, Owner, Unborn, Unsent, NoCloses, Covered, Early, Born
<1> QED BY <1>5, <1>6, <1>7 DEF RInv, CInv

\* Every step keeps the counts.
LEMMA StepR ==
    ASSUME CInv, ListInv, Step
    PROVE  CInv'
<1>1. ASSUME NEW p \in Proc, UserStep(p) PROVE CInv'
  BY <1>1, AllocateR, CopyReferenceR, ReleaseR, CallR DEF UserStep
<1>2. ASSUME NEW p \in Proc, CreateStep(p) PROVE CInv'
  BY <1>2, ConstructR, AllocFailsR DEF CreateStep
<1>3. ASSUME NEW o \in Obj, ObjectStep(o) PROVE CInv'
  BY <1>3, StartR, EndCallR, UnpackedR, LeaveR, ExitR DEF ObjectStep
<1>4. ASSUME NEW o \in Obj, DeliverStep(o) PROVE CInv'
  BY <1>4, DeliverR DEF DeliverStep
<1>5. ASSUME NEW o \in Obj,
             ObjMain(o) \/ OpenThis(o) \/ Built(o) \/ Alarm(o) \/ OnCloseConnection(o)
      PROVE  CInv'
  BY <1>5, ObjMainR, OpenThisR, BuiltR, AlarmR, OnCloseConnectionR
<1>6. ASSUME MonitorStep PROVE CInv'
  BY <1>6, PingBindR, PingUnrefR, PingAskR, PingDropR, KillNextR, CheckReturnsR, KillAllR, KillReturnsR
     DEF MonitorStep
<1> QED BY <1>1, <1>2, <1>3, <1>4, <1>5, <1>6, CheckObjectsR, MainStepsR DEF Step

LEMMA NextR == IInv /\ RInv /\ [Next]_vars => RInv'
<1> SUFFICES ASSUME IInv, RInv, [Next]_vars PROVE RInv'
  OBVIOUS
<1>1. CASE UNCHANGED vars
  <2>1. /\ UNCHANGED <<plan, phase, alloc, self, refcount, refs, closing, calls, toMon, main>>
        /\ UNCHANGED <<queued, serving, conc, pending>> /\ UNCHANGED <<managed, mon>>
        /\ UNCHANGED <<touched, orphans>>
    BY <1>1 DEF vars, life, inside, monitor, marks
  <2>2. CountType'
    BY <2>1 DEF RInv, CInv, CountType
  <2>3. CInv
    BY DEF RInv
  <2>4. ASSUME NEW x \in Obj PROVE OInv(x)' /\ Owner(x)'
    <3>1. /\ Probing(x)' <=> Probing(x)
          /\ Known(x)' <=> Known(x)
          /\ Held(x)' = Held(x) /\ Travelling(x)' = Travelling(x)
      BY <2>1, SameMonitor, SameSums
    <3> QED BY <2>1, <2>2, <2>3, <3>1, Untouched, OwnerKept
  <2>5. self' \subseteq Obj /\ main' \in MainType /\ Once(managed)'
    BY <2>1 DEF RInv, Once
  <2> QED BY <2>2, <2>4, <2>5 DEF RInv, CInv
<1>2. CASE Next
  <2>1. Step /\ ListInv /\ CInv
    BY <1>2 DEF Next, IInv, RInv
  <2>2. CInv'
    BY <2>1, StepR
  <2>3. self' \subseteq Obj /\ main' \in MainType /\ Once(managed)'
    BY <2>1, SelfKept, OnceKept, MainKept DEF RInv
  <2> QED BY <2>2, <2>3 DEF RInv
<1> QED BY <1>1, <1>2

\* What RInv says of the counts holds in every state.
THEOREM CountsInductive == Spec => []RInv
  BY InitR, NextR, Inductive, PTL DEF Spec

\* The invariant gives the property.
LEMMA ExactFromInv == IInv /\ RInv => RefExact
<1> SUFFICES ASSUME IInv, RInv PROVE RefExact
  OBVIOUS
<1>1. CountType /\ \A o \in Obj : OInv(o)
  BY DEF RInv, CInv
<1>2. TypeOK
  BY DEF TypeOK, IInv, ListInv, MonType, RInv, CInv, CountType, Rows, Sent, Fifos, MainType, Once
<1>3. ASSUME NEW o \in Obj, plan.mode = "socket", Exists(o), o \notin touched \cup orphans
      PROVE  refcount[o] = Held(o) + closing[o] + Travelling(o) + (IF Probing(o) THEN 1 ELSE 0)
  BY <1>1, <1>3 DEF OInv, Covered, Counted, Exists, Born
<1>4. ASSUME NEW o \in Obj \ touched, phase[o] = "alive", refcount[o] <= 0
      PROVE  plan.mode = "socket" /\ Unreferenced(o)
  <2>1. plan.mode = "socket" /\ Held(o) = 0 /\ Travelling(o) = 0
    <3>1. /\ Held(o) \in Nat /\ Travelling(o) \in Nat /\ closing[o] \in Nat
          /\ refcount[o] \in Int /\ plan.mode \in {"socket", "uds"}
      BY <1>1, Numbers, Mode
    <3>2. /\ plan.mode = "socket" => refcount[o] >= Counted(o)
          /\ plan.mode = "uds" => refcount[o] >= 1 + Travelling(o)
      BY <1>1, <1>4 DEF OInv, Covered, Born
    <3> QED BY <1>4, <3>1, <3>2 DEF Counted
  <2>2. \A p \in Proc : refs[p][o] = 0
    BY <1>1, <2>1, Numbers
  <2>3. ASSUME NEW q \in Obj PROVE pending[q][o] = 0 /\ o \notin Carried(q)
    <3>1. pending \in Sent /\ queued \in Fifos
      BY <1>1 DEF CountType
    <3>2. SentSum(pending, queued, o) >= pending[q][o] + Occurs(queued[q], o)
      BY <3>1, SentSumType
    <3>3. /\ pending[q][o] \in Nat /\ Occurs(queued[q], o) \in Nat
          /\ Occurs(queued[q], o) = 0 <=> \A i \in 1..Len(queued[q]) : queued[q][i] # o
      BY <3>1, SentPart
    <3>4. SentSum(pending, queued, o) = 0
      BY <1>1, <2>1, Numbers
    <3>5. pending[q][o] = 0 /\ Occurs(queued[q], o) = 0
      BY <3>2, <3>3, <3>4
    <3> QED BY <3>3, <3>5 DEF Carried
  <2> QED BY <2>1, <2>2, <2>3 DEF Unreferenced
<1> QED BY <1>2, <1>3, <1>4 DEF RefExact

\* Over sockets refcount is the connections not seen closed plus the references
\* that travel, the connection of the object to itself never among them, and
\* GetRequest lets an object leave its serving loop only unreferenced: RefExact
\* (AddRef, DecRef, OnNewConnection, OnCloseConnection, GetRequest).
THEOREM ReferencesExact == Spec => []RefExact
  BY ExactFromInv, Inductive, CountsInductive, PTL
==============================================================================
