------------------------ MODULE NodeServicesProofs --------------------------
(***************************************************************************)
(* Proofs about NodeServices: the search node and the job manager of a     *)
(* launch are daemons together, for any number of launches, clients and    *)
(* runs of the launcher, any challenges and any configuration.             *)
(***************************************************************************)
EXTENDS NodeServices, TLAPS

Secret == Given \cup Challenges \cup {""}
SvcType == [phase : Phases, refs : Int, daemon : BOOLEAN, challenge : Secret]
LaunchType == [pc : {"idle", "psn", "jm", "bind", "conf", "info", "up", "failed", "close", "done"},
               daemon : BOOLEAN, challenge : Secret]
StopType == [pc : {"idle", "mgr", "psn", "jm", "close", "leave"}, l : Launches \cup {0},
             challenge : Secret, ok : BOOLEAN]

\* What the proofs need of the timers: what they count comes from the file.
Timers == DOMAIN timer = Launches /\ \A l \in Launches : "fired" \in DOMAIN timer[l]

Types ==
    /\ svc \in [Service -> SvcType]
    /\ launch \in [Launches -> LaunchType]
    /\ stopper \in StopType
    /\ stopper.pc # "idle" => stopper.l \in Launches
    /\ Timers

\* A service is a daemon only while its process runs, and is then held; only
\* the end of its lifetime takes a job manager out of this.
Held(l) ==
    /\ svc[Psn(l)].daemon => svc[Psn(l)].phase = "alive" /\ svc[Psn(l)].refs > 0
    /\ svc[Jm(l)].daemon =>
         /\ svc[Jm(l)].phase = "alive" \/ (svc[Jm(l)].phase = "gone" /\ timer[l].fired)
         /\ svc[Jm(l)].refs > 0

\* How far a launch has come, and what it has made of the two services.
Progress(l) ==
    LET p == svc[Psn(l)]
        j == svc[Jm(l)]
        at == launch[l].pc
    IN  /\ at = "idle" => ~p.daemon
        /\ at = "psn" => p.phase = "building" /\ p.refs = 1 /\ ~p.daemon
        /\ at \in {"idle", "psn", "jm"} => j.phase = "none" /\ ~j.daemon
        /\ at \in {"bind", "conf", "info", "up"} => j.phase = "building" /\ j.refs = 1 /\ ~j.daemon
        /\ at = "failed" => j.phase \in {"none", "gone"} /\ ~j.daemon
        /\ at \in {"jm", "bind", "conf", "info", "up", "failed"} => p.daemon = launch[l].daemon
        /\ at # "idle" => p.challenge = launch[l].challenge
        /\ j.phase # "none" => j.challenge = launch[l].challenge

\* The stop of launch l has asked the search node, and not the job manager yet.
Between(l) == stopper.l = l /\ stopper.pc = "jm"

\* The two are daemons together, except while a stop is between them.
Pair(l) ==
    LET p == svc[Psn(l)]
        j == svc[Jm(l)]
    IN  launch[l].pc \in {"close", "done"} /\ ~timer[l].fired =>
          IF Between(l) /\ launch[l].challenge \in {stopper.challenge, ""}
          THEN ~p.daemon
          ELSE p.daemon = j.daemon

\* A stop goes on only with a job manager that was ready.
StopInv == stopper.pc \in {"psn", "jm"} => launch[stopper.l].pc \in {"close", "done"}

LInv(l) == Held(l) /\ Progress(l) /\ Pair(l)

IInv ==
    /\ Types
    /\ \A l \in Launches : LInv(l)
    /\ StopInv

-----------------------------------------------------------------------------
(* Services. *)

\* The services of the launches are different ones.
LEMMA Names ==
    /\ \A l \in Launches : Psn(l) \in Service /\ Jm(l) \in Service
    /\ \A k, l \in Launches : /\ Psn(k) # Jm(l)
                              /\ Psn(k) = Psn(l) => k = l
                              /\ Jm(k) = Jm(l) => k = l
BY DEF Psn, Jm, Service

\* What happens to a service without a launch or a stop: b is a after it.
Same(a, b) ==
    /\ b.daemon = a.daemon /\ b.challenge = a.challenge
    /\ a.phase \in {"none", "building", "gone"} => b.phase = a.phase /\ b.refs = a.refs
    /\ a.phase \in {"alive", "ending"} => b.phase \in {"alive", "ending", "gone"}
    /\ a.daemon => b.phase = a.phase /\ b.refs = a.refs

\* A step that does nothing else to the services of a launch, and leaves the
\* launch and a stop of it where they are, keeps what is said of the launch.
LEMMA Keeps ==
    ASSUME IInv, NEW l \in Launches,
           Same(svc[Psn(l)], svc'[Psn(l)]), Same(svc[Jm(l)], svc'[Jm(l)]),
           launch'[l] = launch[l], timer'[l].fired = timer[l].fired,
           Between(l)' = Between(l), Between(l) => stopper'.challenge = stopper.challenge
    PROVE  LInv(l)'
<1>1. svc[Psn(l)] \in SvcType /\ svc[Jm(l)] \in SvcType
  BY Names DEF IInv, Types
<1>2. svc[Psn(l)].phase \in Phases /\ svc[Jm(l)].phase \in Phases
  BY <1>1 DEF SvcType
<1>3. Held(l) /\ Progress(l) /\ Pair(l)
  BY DEF IInv, LInv
<1>4. Held(l)'
  BY <1>3 DEF Held, Same
<1>5. Progress(l)'
  BY <1>2, <1>3 DEF Progress, Same, Phases
<1>6. Pair(l)'
  BY <1>3 DEF Pair, Same
<1> QED BY <1>4, <1>5, <1>6 DEF LInv

\* A step of clients and of the services themselves.
LEMMA Quiet ==
    ASSUME IInv, svc' \in [Service -> SvcType], \A s \in Service : Same(svc[s], svc'[s]),
           UNCHANGED <<launch, stopper>>, Timers',
           \A l \in Launches : timer'[l].fired = timer[l].fired
    PROVE  IInv'
<1>1. ASSUME NEW l \in Launches PROVE LInv(l)'
  BY Keeps, Names DEF Between
<1> QED BY <1>1 DEF IInv, Types, StopInv

\* Connections opened and closed change the count, and that of no daemon.
LEMMA Counted ==
    ASSUME NEW s \in SvcType
    PROVE  /\ OnNewConnection(s) \in SvcType /\ Same(s, OnNewConnection(s))
           /\ OnCloseConnection(s) \in SvcType /\ Same(s, OnCloseConnection(s))
           /\ Same(s, s)
BY DEF SvcType, Same, OnNewConnection, OnCloseConnection, AddRef, DecRef, Phases

\* A service whose process ends was not a daemon.
LEMMA Ended ==
    ASSUME NEW s \in SvcType, ~s.daemon, s.phase \in {"alive", "ending"},
           NEW where \in {"ending", "gone"}
    PROVE  [s EXCEPT !.phase = where] \in SvcType /\ Same(s, [s EXCEPT !.phase = where])
BY DEF SvcType, Same, Phases

\* Nothing happens to the others.
LEMMA EndedOnly ==
    ASSUME svc \in [Service -> SvcType], NEW s \in Service, ~svc[s].daemon,
           svc[s].phase \in {"alive", "ending"}, NEW where \in {"ending", "gone"},
           svc' = [svc EXCEPT ![s] = [svc[s] EXCEPT !.phase = where]]
    PROVE  svc' \in [Service -> SvcType] /\ \A x \in Service : Same(svc[x], svc'[x])
<1> DEFINE r == [svc[s] EXCEPT !.phase = where]
<1>1. svc[s] \in SvcType
  OBVIOUS
<1>2. r \in SvcType /\ Same(svc[s], r)
  BY <1>1, Ended
<1>3. svc' = [svc EXCEPT ![s] = r]
  OBVIOUS
<1> HIDE DEF r
<1>4. svc' \in [Service -> SvcType] /\ svc'[s] = r
  BY <1>2, <1>3
<1>5. ASSUME NEW x \in Service PROVE Same(svc[x], svc'[x])
  <2>1. CASE x = s
    BY <1>2, <1>4, <2>1
  <2>2. CASE x # s
    <3>1. svc'[x] = svc[x] /\ svc[x] \in SvcType
      BY <1>3, <2>2
    <3> QED BY <3>1, Counted
  <2> QED BY <2>1, <2>2
<1> QED BY <1>4, <1>5

-----------------------------------------------------------------------------
(* Clients and services. *)

\* Noticing a closed connection keeps the invariant.
LEMMA NoticeCloseInv ==
    ASSUME IInv, NEW s \in Service, NoticeClose(s)
    PROVE  IInv'
<1>1. /\ svc' = [svc EXCEPT ![s] = OnCloseConnection(@)]
      /\ UNCHANGED <<launch, stopper, timer>> /\ Timers' /\ svc \in [Service -> SvcType]
  BY DEF NoticeClose, IInv, Types, Timers
<1>2. svc' \in [Service -> SvcType] /\ \A x \in Service : Same(svc[x], svc'[x])
  BY <1>1, Counted
<1> QED BY <1>1, <1>2, Quiet

\* The end of a search node keeps the invariant: a daemon is held.
LEMMA PsnExitInv ==
    ASSUME IInv, NEW l \in Launches, PsnExit(l)
    PROVE  IInv'
<1>1. /\ svc' = [svc EXCEPT ![Psn(l)].phase = "gone"]
      /\ UNCHANGED <<launch, stopper, timer>> /\ Timers' /\ svc \in [Service -> SvcType] /\ Psn(l) \in Service
      /\ svc[Psn(l)].phase = "alive" /\ svc[Psn(l)].refs <= 0
  BY Names DEF PsnExit, End, IInv, Types, Timers
<1>2. svc[Psn(l)].refs \in Int
  BY <1>1 DEF SvcType
<1>3. ~svc[Psn(l)].daemon
  BY <1>1, <1>2 DEF IInv, LInv, Held
<1>4. svc' = [svc EXCEPT ![Psn(l)] = [svc[Psn(l)] EXCEPT !.phase = "gone"]]
  BY <1>1
<1>5. svc' \in [Service -> SvcType] /\ \A x \in Service : Same(svc[x], svc'[x])
  BY <1>1, <1>3, <1>4, EndedOnly
<1> QED BY <1>1, <1>5, Quiet

\* So does the end of a job manager.
LEMMA JmExitInv ==
    ASSUME IInv, NEW l \in Launches, JmExit(l)
    PROVE  IInv'
<1>1. /\ svc' = [svc EXCEPT ![Jm(l)].phase = "ending"]
      /\ UNCHANGED <<launch, stopper, timer>> /\ Timers' /\ svc \in [Service -> SvcType] /\ Jm(l) \in Service
      /\ svc[Jm(l)].phase = "alive" /\ svc[Jm(l)].refs <= 0
  BY Names DEF JmExit, IInv, Types, Timers
<1>2. svc[Jm(l)].refs \in Int
  BY <1>1 DEF SvcType
<1>3. ~svc[Jm(l)].daemon
  BY <1>1, <1>2 DEF IInv, LInv, Held
<1>4. svc' = [svc EXCEPT ![Jm(l)] = [svc[Jm(l)] EXCEPT !.phase = "ending"]]
  BY <1>1
<1>5. svc' \in [Service -> SvcType] /\ \A x \in Service : Same(svc[x], svc'[x])
  BY <1>1, <1>3, <1>4, EndedOnly
<1> QED BY <1>1, <1>5, Quiet

\* The destructor of a job manager keeps the invariant.
LEMMA JmDestroyInv ==
    ASSUME IInv, NEW l \in Launches, JmDestroy(l)
    PROVE  IInv'
<1> DEFINE p == svc[Psn(l)]
           p2 == IF Connectable(p) THEN OnNewConnection(p) ELSE p
           j2 == [svc[Jm(l)] EXCEPT !.phase = "gone"]
<1>1. /\ UNCHANGED <<launch, stopper>> /\ svc \in [Service -> SvcType]
      /\ Psn(l) \in Service /\ Jm(l) \in Service /\ Psn(l) # Jm(l)
      /\ svc[Jm(l)].phase = "ending" /\ timer' = [timer EXCEPT ![l].on = FALSE]
  BY Names DEF JmDestroy, IInv, Types
<1>2. ~svc[Jm(l)].daemon
  BY <1>1 DEF IInv, LInv, Held
<1>3. Timers' /\ \A k \in Launches : timer'[k].fired = timer[k].fired
  BY <1>1 DEF IInv, Types, Timers
<1>4. \A x \in Service : svc'[x] = IF x = Psn(l) THEN p2 ELSE IF x = Jm(l) THEN j2 ELSE svc[x]
  BY <1>1 DEF JmDestroy
<1>5. DOMAIN svc' = Service /\ svc' = [x \in Service |-> svc'[x]]
  BY <1>1 DEF JmDestroy
<1>6. p \in SvcType /\ svc[Jm(l)] \in SvcType
  BY <1>1
<1>7. /\ p2 \in SvcType /\ Same(p, p2)
      /\ j2 \in SvcType /\ Same(svc[Jm(l)], j2)
  BY <1>1, <1>2, <1>6, Ended, Counted
<1>8. \A x \in Service : svc'[x] \in SvcType /\ Same(svc[x], svc'[x])
  <2> HIDE DEF p2, j2
  <2> QED BY <1>1, <1>4, <1>7, Counted
<1>9. svc' \in [Service -> SvcType]
  BY <1>5, <1>8
<1> QED BY <1>1, <1>3, <1>8, <1>9, Quiet

\* A client that connects keeps the invariant.
LEMMA ClientOpenInv ==
    ASSUME IInv, NEW c \in Clients, NEW s \in Service, ClientOpen(c, s)
    PROVE  IInv'
<1>1. /\ svc' = [svc EXCEPT ![s] = OnNewConnection(@)]
      /\ UNCHANGED <<launch, stopper, timer>> /\ Timers' /\ svc \in [Service -> SvcType]
  BY DEF ClientOpen, Open, IInv, Types, Timers
<1>2. svc' \in [Service -> SvcType] /\ \A x \in Service : Same(svc[x], svc'[x])
  BY <1>1, Counted
<1> QED BY <1>1, <1>2, Quiet

\* A client that leaves keeps it.
LEMMA ClientCloseInv ==
    ASSUME IInv, NEW c \in Clients, NEW s \in Service, ClientClose(c, s)
    PROVE  IInv'
<1>1. UNCHANGED <<svc, launch, stopper, timer>> /\ Timers' /\ svc \in [Service -> SvcType]
  BY DEF ClientClose, IInv, Types, Timers
<1>2. \A x \in Service : Same(svc[x], svc'[x])
  BY <1>1, Counted
<1> QED BY <1>1, <1>2, Quiet

\* The Kill call keeps it: a daemon refuses.
LEMMA ClientKillInv ==
    ASSUME IInv, NEW c \in Clients, NEW s \in Service, ClientKill(c, s)
    PROVE  IInv'
<1>1. /\ svc' = [svc EXCEPT ![s].phase = "gone"]
      /\ UNCHANGED <<launch, stopper>> /\ svc \in [Service -> SvcType]
      /\ svc[s].phase = "alive" /\ ~svc[s].daemon
      /\ timer' = IF s[1] = "jm" THEN [timer EXCEPT ![s[2]].on = FALSE] ELSE timer
  BY DEF ClientKill, End, CanKill, IInv, Types
<1>2. svc' = [svc EXCEPT ![s] = [svc[s] EXCEPT !.phase = "gone"]]
  BY <1>1
<1>3. svc' \in [Service -> SvcType] /\ \A x \in Service : Same(svc[x], svc'[x])
  BY <1>1, <1>2, EndedOnly
<1>4. Timers' /\ \A k \in Launches : timer'[k].fired = timer[k].fired
  BY <1>1 DEF IInv, Types, Timers
<1> QED BY <1>1, <1>3, <1>4, Quiet

\* The timer thread keeps it, a lifetime that is over included.
LEMMA TimerWakeInv ==
    ASSUME IInv, NEW l \in Launches, TimerWake(l)
    PROVE  IInv'
<1>1. UNCHANGED <<launch, stopper>> /\ svc \in [Service -> SvcType] /\ Jm(l) \in Service
  BY Names DEF TimerWake, IInv, Types
<1>2. CASE Checkpoint(timer[l])
  <2>1. UNCHANGED svc /\ timer' = [timer EXCEPT ![l] = Slept(timer[l])]
    BY <1>2 DEF TimerWake
  <2>2. Timers' /\ \A k \in Launches : timer'[k].fired = timer[k].fired
    BY <2>1 DEF IInv, Types, Timers, Slept
  <2>3. \A x \in Service : Same(svc[x], svc'[x])
    BY <1>1, <2>1, Counted
  <2> QED BY <1>1, <2>1, <2>2, <2>3, Quiet
<1>3. CASE ~Checkpoint(timer[l])
  <2>1. /\ svc' = [svc EXCEPT ![Jm(l)].phase = "gone"] /\ svc[Jm(l)].phase = "alive"
        /\ timer' = [timer EXCEPT ![l].on = FALSE, ![l].fired = TRUE, ![l].slept = @ + timer[l].left]
    BY <1>3 DEF TimerWake, End
  <2>2. /\ Timers' /\ \A k \in Launches : timer'[k].fired = IF k = l THEN TRUE ELSE timer[k].fired
        /\ svc' = [svc EXCEPT ![Jm(l)] = [svc[Jm(l)] EXCEPT !.phase = "gone"]]
    BY <2>1 DEF IInv, Types, Timers
  <2>3. [svc[Jm(l)] EXCEPT !.phase = "gone"] \in SvcType
    BY <1>1 DEF SvcType, Phases
  <2>4. svc' \in [Service -> SvcType]
    BY <1>1, <2>2, <2>3
  <2>5. ASSUME NEW k \in Launches PROVE LInv(k)'
    <3>1. CASE k = l
      <4>1. LInv(l) /\ svc'[Psn(l)] = svc[Psn(l)] /\ svc'[Jm(l)] = [svc[Jm(l)] EXCEPT !.phase = "gone"]
        BY <1>1, <2>2, Names DEF IInv
      <4>2. /\ svc'[Jm(l)].phase = "gone" /\ svc'[Jm(l)].daemon = svc[Jm(l)].daemon
            /\ svc'[Jm(l)].refs = svc[Jm(l)].refs /\ svc'[Jm(l)].challenge = svc[Jm(l)].challenge
        BY <1>1, <4>1 DEF SvcType
      <4>3. Held(l)' /\ Pair(l)'
        BY <1>1, <2>2, <4>1, <4>2 DEF LInv, Held, Pair
      <4>4. Progress(l)'
        BY <1>1, <2>1, <4>1, <4>2 DEF LInv, Progress
      <4> QED BY <3>1, <4>3, <4>4 DEF LInv
    <3>2. CASE k # l
      <4>1. svc'[Psn(k)] = svc[Psn(k)] /\ svc'[Jm(k)] = svc[Jm(k)]
        BY <1>1, <2>2, <3>2, Names
      <4>2. Same(svc[Psn(k)], svc'[Psn(k)]) /\ Same(svc[Jm(k)], svc'[Jm(k)])
        BY <1>1, <4>1, Names, Counted
      <4> QED BY <1>1, <2>2, <3>2, <4>2, Keeps DEF Between
    <3> QED BY <3>1, <3>2
  <2> QED BY <1>1, <2>2, <2>4, <2>5 DEF IInv, Types, StopInv
<1> QED BY <1>2, <1>3

-----------------------------------------------------------------------------
(* jobmgr_launcher start. *)

\* A step of the launch l touches no other one.
Elsewhere(l) ==
    \A k \in Launches \ {l} :
        /\ launch'[k] = launch[k] /\ timer'[k].fired = timer[k].fired
        /\ svc'[Psn(k)] = svc[Psn(k)] /\ svc'[Jm(k)] = svc[Jm(k)]

\* It keeps the invariant when it keeps what is said of l itself.
LEMMA LaunchOnly ==
    ASSUME IInv, NEW l \in Launches, Elsewhere(l), UNCHANGED stopper,
           svc' \in [Service -> SvcType], launch' \in [Launches -> LaunchType], Timers',
           launch[l].pc \in {"close", "done"} => launch'[l].pc \in {"close", "done"},
           LInv(l)'
    PROVE  IInv'
<1>1. ASSUME NEW k \in Launches PROVE LInv(k)'
  <2>1. CASE k = l
    BY <2>1
  <2>2. CASE k # l
    <3>1. Same(svc[Psn(k)], svc'[Psn(k)]) /\ Same(svc[Jm(k)], svc'[Jm(k)])
      BY <2>2, Names, Counted DEF Elsewhere, IInv, Types
    <3> QED BY <2>2, <3>1, Keeps DEF Elsewhere, Between
  <2> QED BY <2>1, <2>2
<1>2. StopInv'
  <2>1. ASSUME stopper.pc \in {"psn", "jm"} PROVE launch'[stopper.l].pc \in {"close", "done"}
    BY <2>1 DEF IInv, Types, StopInv, Elsewhere
  <2> QED BY <2>1 DEF StopInv
<1> QED BY <1>1, <1>2 DEF IInv, Types

\* The same, for a step that changes the position of the launch only by GoTo.
LEMMA Moves ==
    ASSUME IInv, NEW l \in Launches, NEW where,
           where \in {"jm", "bind", "conf", "info", "up", "failed", "close", "done"},
           GoTo(l, where)
    PROVE  /\ launch' \in [Launches -> LaunchType]
           /\ \A k \in Launches \ {l} : launch'[k] = launch[k]
           /\ launch'[l].pc = where
           /\ launch'[l].daemon = launch[l].daemon /\ launch'[l].challenge = launch[l].challenge
<1>1. launch \in [Launches -> LaunchType] /\ launch' = [launch EXCEPT ![l].pc = where]
  BY DEF IInv, Types, GoTo
<1>2. launch' = [launch EXCEPT ![l] = [launch[l] EXCEPT !.pc = where]]
  BY <1>1
<1>3. launch[l] \in LaunchType
  BY <1>1
<1>4. [launch[l] EXCEPT !.pc = where] \in LaunchType
  BY <1>3 DEF LaunchType
<1> QED BY <1>1, <1>2, <1>3, <1>4 DEF LaunchType

\* A launch that is not over has no stop past the job manager.
LEMMA NotStopped ==
    ASSUME IInv, NEW l \in Launches, launch[l].pc \notin {"close", "done"}
    PROVE  ~Between(l)
BY DEF IInv, StopInv, Between

\* The launcher that creates the search node keeps the invariant.
LEMMA LaunchPsnInv ==
    ASSUME IInv, NEW l \in Launches, NEW d \in BOOLEAN, NEW c \in Given, LaunchPsn(l, d, c)
    PROVE  IInv'
<1> DEFINE n == [pc |-> "psn", daemon |-> d, challenge |-> c]
<1>1. /\ launch' = [launch EXCEPT ![l] = n]
      /\ svc' = [svc EXCEPT ![Psn(l)] = NewService(c)]
      /\ UNCHANGED <<stopper, timer>> /\ launch[l].pc = "idle"
      /\ svc \in [Service -> SvcType] /\ launch \in [Launches -> LaunchType] /\ Timers /\ LInv(l)
  BY DEF LaunchPsn, IInv, Types
<1>2. n \in LaunchType /\ NewService(c) \in SvcType
  <2>0. c \in Secret
    BY Zenon DEF Secret
  <2>1. c \in Secret /\ "building" \in Phases /\ 1 \in Int /\ FALSE \in BOOLEAN
    BY <2>0 DEF Phases
  <2>2. n \in LaunchType
    BY <2>1, Zenon DEF LaunchType
  <2>3. NewService(c) \in SvcType
    BY <2>1, Zenon DEF SvcType, NewService
  <2> QED BY <2>2, <2>3
<1>3. launch' \in [Launches -> LaunchType] /\ svc' \in [Service -> SvcType] /\ Timers'
  BY <1>1, <1>2 DEF Timers
<1>4. Elsewhere(l) /\ launch'[l] = n /\ svc'[Psn(l)] = NewService(c) /\ svc'[Jm(l)] = svc[Jm(l)]
  BY <1>1, Names DEF Elsewhere
<1>5. Held(l)' /\ Pair(l)'
  BY <1>1, <1>4 DEF LInv, Held, Pair, NewService
<1>6. Progress(l)'
  BY <1>1, <1>4 DEF LInv, Progress, NewService
<1> QED BY <1>1, <1>3, <1>4, <1>5, <1>6, LaunchOnly DEF LInv

\* A service whose constructor ends is alive and held by its creator.
Made(s, daemon) ==
    LET t == [s EXCEPT !.phase = "alive"]
    IN  IF daemon THEN Start(t) ELSE t

\* The record it is then.
LEMMA MadeType ==
    ASSUME NEW s \in SvcType, s.refs = 1, ~s.daemon, NEW d \in BOOLEAN
    PROVE  /\ Made(s, d) \in SvcType
           /\ Made(s, d).phase = "alive" /\ Made(s, d).refs = 1
           /\ Made(s, d).daemon = d /\ Made(s, d).challenge = s.challenge
BY DEF Made, Start, SvcType, Phases

\* The search node that is ready keeps the invariant.
LEMMA PsnReadyInv ==
    ASSUME IInv, NEW l \in Launches, PsnReady(l)
    PROVE  IInv'
<1> DEFINE m == Made(svc[Psn(l)], launch[l].daemon)
<1>1. /\ GoTo(l, "jm") /\ svc' = [svc EXCEPT ![Psn(l)] = m]
      /\ UNCHANGED <<stopper, timer>> /\ launch[l].pc = "psn"
      /\ svc \in [Service -> SvcType] /\ launch \in [Launches -> LaunchType] /\ Timers /\ LInv(l)
  BY DEF PsnReady, Made, IInv, Types
<1>2. svc[Psn(l)] \in SvcType /\ launch[l].daemon \in BOOLEAN
  BY <1>1, Names DEF LaunchType
<1>3. svc[Psn(l)].refs = 1 /\ ~svc[Psn(l)].daemon
  BY <1>1 DEF LInv, Progress
<1>4. /\ m \in SvcType /\ m.phase = "alive" /\ m.refs = 1
      /\ m.daemon = launch[l].daemon /\ m.challenge = svc[Psn(l)].challenge
  BY <1>2, <1>3, MadeType
<1> HIDE DEF m
<1>5. svc' \in [Service -> SvcType] /\ Timers'
  BY <1>1, <1>4 DEF Timers
<1>6. svc'[Psn(l)] = m /\ svc'[Jm(l)] = svc[Jm(l)]
  BY <1>1, Names
<1>7. /\ launch' \in [Launches -> LaunchType] /\ launch'[l].pc = "jm"
      /\ launch'[l].daemon = launch[l].daemon /\ launch'[l].challenge = launch[l].challenge
      /\ \A k \in Launches \ {l} : launch'[k] = launch[k]
  BY <1>1, Moves
<1>8. Elsewhere(l)
  BY <1>1, <1>7, Names DEF Elsewhere
<1>9. Held(l)' /\ Pair(l)'
  BY <1>1, <1>4, <1>6, <1>7 DEF LInv, Held, Pair
<1>10. Progress(l)'
  BY <1>1, <1>4, <1>6, <1>7 DEF LInv, Progress
<1> QED BY <1>1, <1>5, <1>7, <1>8, <1>9, <1>10, LaunchOnly DEF LInv

\* Creating the process of the job manager keeps the invariant.
LEMMA LaunchJmInv ==
    ASSUME IInv, NEW l \in Launches, LaunchJm(l)
    PROVE  IInv'
<1> DEFINE n == NewService(launch[l].challenge)
<1>1. /\ UNCHANGED <<stopper, timer>> /\ launch[l].pc = "jm" /\ Timers /\ LInv(l)
      /\ svc \in [Service -> SvcType] /\ launch \in [Launches -> LaunchType]
      /\ Timers' /\ Psn(l) \in Service /\ Jm(l) \in Service /\ ~Between(l)
  BY Names, NotStopped DEF LaunchJm, IInv, Types, Timers
<1>2. CASE GoTo(l, "failed") /\ UNCHANGED <<svc, conns>>
  <2>1. /\ launch' \in [Launches -> LaunchType] /\ launch'[l].pc = "failed"
        /\ launch'[l].daemon = launch[l].daemon /\ launch'[l].challenge = launch[l].challenge
        /\ \A k \in Launches \ {l} : launch'[k] = launch[k]
    BY <1>2, Moves
  <2>2. Elsewhere(l)
    BY <1>1, <1>2, <2>1 DEF Elsewhere
  <2>3. Held(l)' /\ Pair(l)'
    BY <1>1, <1>2, <2>1 DEF LInv, Held, Pair
  <2>4. Progress(l)'
    BY <1>1, <1>2, <2>1 DEF LInv, Progress
  <2> QED BY <1>1, <1>2, <2>1, <2>2, <2>3, <2>4, LaunchOnly DEF LInv
<1>3. CASE GoTo(l, "bind") /\ svc' = [svc EXCEPT ![Jm(l)] = n]
  <2>1. /\ launch' \in [Launches -> LaunchType] /\ launch'[l].pc = "bind"
        /\ launch'[l].daemon = launch[l].daemon /\ launch'[l].challenge = launch[l].challenge
        /\ \A k \in Launches \ {l} : launch'[k] = launch[k]
    BY <1>3, Moves
  <2>2. launch[l].challenge \in Secret /\ "building" \in Phases /\ 1 \in Int /\ FALSE \in BOOLEAN
    BY <1>1 DEF LaunchType, Phases
  <2>3. n \in SvcType
    BY <2>2, Zenon DEF SvcType, NewService
  <2>4. svc' \in [Service -> SvcType] /\ svc'[Jm(l)] = n /\ svc'[Psn(l)] = svc[Psn(l)]
    <3> HIDE DEF n
    <3> QED BY <1>1, <1>3, <2>3, Names
  <2>5. Elsewhere(l)
    BY <1>1, <1>3, <2>1, Names DEF Elsewhere
  <2>6. /\ n.phase = "building" /\ n.refs = 1 /\ ~n.daemon /\ n.challenge = launch[l].challenge
    BY DEF NewService
  <2> HIDE DEF n
  <2>7. Held(l)' /\ Pair(l)'
    BY <1>1, <2>1, <2>4, <2>6 DEF LInv, Held, Pair
  <2>8. Progress(l)'
    BY <1>1, <2>1, <2>4, <2>6 DEF LInv, Progress
  <2> QED BY <1>1, <2>1, <2>4, <2>5, <2>7, <2>8, LaunchOnly DEF LInv
<1> QED BY <1>2, <1>3 DEF LaunchJm

\* A constructor of the job manager that throws keeps the invariant.
LEMMA JmThrowsInv ==
    ASSUME IInv, NEW l \in Launches, JmThrows(l), UNCHANGED stopper,
           launch[l].pc \in {"bind", "conf", "info", "up"}
    PROVE  IInv'
<1> DEFINE n == [svc[Jm(l)] EXCEPT !.phase = "gone"]
<1>1. /\ GoTo(l, "failed") /\ svc' = [svc EXCEPT ![Jm(l)] = n]
      /\ UNCHANGED timer /\ Timers' /\ LInv(l) /\ ~Between(l)
      /\ svc \in [Service -> SvcType] /\ launch \in [Launches -> LaunchType]
      /\ Psn(l) \in Service /\ Jm(l) \in Service
  BY Names, NotStopped DEF JmThrows, IInv, Types, Timers
<1>2. svc[Jm(l)] \in SvcType
  BY <1>1
<1>3. /\ n \in SvcType /\ n.phase = "gone" /\ n.daemon = svc[Jm(l)].daemon
      /\ n.challenge = svc[Jm(l)].challenge
  BY <1>2 DEF SvcType, Phases
<1> HIDE DEF n
<1>4. svc' \in [Service -> SvcType] /\ svc'[Jm(l)] = n /\ svc'[Psn(l)] = svc[Psn(l)]
  BY <1>1, <1>3, Names
<1>5. /\ launch' \in [Launches -> LaunchType] /\ launch'[l].pc = "failed"
      /\ launch'[l].daemon = launch[l].daemon /\ launch'[l].challenge = launch[l].challenge
      /\ \A k \in Launches \ {l} : launch'[k] = launch[k]
  BY <1>1, Moves
<1>6. Elsewhere(l)
  BY <1>1, <1>5, Names DEF Elsewhere
<1>7. svc[Jm(l)].phase = "building" /\ ~svc[Jm(l)].daemon
  BY <1>1 DEF LInv, Progress
<1>8. Held(l)' /\ Pair(l)'
  BY <1>1, <1>3, <1>4, <1>5, <1>7 DEF LInv, Held, Pair
<1>9. Progress(l)'
  BY <1>1, <1>3, <1>4, <1>5, <1>7 DEF LInv, Progress
<1> QED BY <1>1, <1>4, <1>5, <1>6, <1>8, <1>9, LaunchOnly DEF LInv

\* A constructor that goes on, the search node at most counting a connection,
\* keeps it too.
LEMMA JmGoesOn ==
    ASSUME IInv, NEW l \in Launches, UNCHANGED <<stopper, timer>>,
           launch[l].pc \in {"bind", "conf", "info"},
           NEW where \in {"conf", "info", "up"}, GoTo(l, where),
           svc' = svc \/ svc' = [svc EXCEPT ![Psn(l)] = OnNewConnection(svc[Psn(l)])]
    PROVE  IInv'
<1> DEFINE p == svc[Psn(l)]
           q == svc'[Psn(l)]
<1>1. /\ Timers' /\ LInv(l) /\ ~Between(l)
      /\ svc \in [Service -> SvcType] /\ launch \in [Launches -> LaunchType]
      /\ Psn(l) \in Service /\ Jm(l) \in Service
  BY Names, NotStopped DEF IInv, Types, Timers
<1>2. p \in SvcType
  BY <1>1
<1>3. OnNewConnection(p) \in SvcType /\ Same(p, OnNewConnection(p)) /\ Same(p, p)
  BY <1>2, Counted
<1>4. svc' \in [Service -> SvcType] /\ Same(p, q) /\ svc'[Jm(l)] = svc[Jm(l)]
  BY <1>1, <1>3, Names
<1>5. /\ launch' \in [Launches -> LaunchType] /\ launch'[l].pc = where
      /\ launch'[l].daemon = launch[l].daemon /\ launch'[l].challenge = launch[l].challenge
      /\ \A k \in Launches \ {l} : launch'[k] = launch[k]
  BY Moves
<1>6. Elsewhere(l)
  BY <1>1, <1>5, Names DEF Elsewhere
<1>7. Held(l)' /\ Pair(l)'
  BY <1>1, <1>4, <1>5 DEF LInv, Held, Pair, Same
<1>8. Progress(l)'
  BY <1>1, <1>4, <1>5 DEF LInv, Progress, Same
<1> QED BY <1>1, <1>4, <1>5, <1>6, <1>7, <1>8, LaunchOnly DEF LInv

\* Binding to the search node, reading the file and publishing.
LEMMA JmBuildsInv ==
    ASSUME IInv, NEW l \in Launches, JmBind(l) \/ JmConf(l) \/ JmInfo(l)
    PROVE  IInv'
<1>1. CASE JmBind(l)
  BY <1>1, JmThrowsInv, JmGoesOn DEF JmBind, Open
<1>2. CASE JmConf(l)
  BY <1>2, JmThrowsInv, JmGoesOn DEF JmConf
<1>3. CASE JmInfo(l)
  BY <1>3, JmThrowsInv, JmGoesOn DEF JmInfo
<1> QED BY <1>1, <1>2, <1>3

\* The job manager that is ready is a daemon just when its search node is.
LEMMA JmReadyInv ==
    ASSUME IInv, NEW l \in Launches, JmReady(l)
    PROVE  IInv'
<1> DEFINE m == Made(svc[Jm(l)], launch[l].daemon)
           t == NewTimer(LoadConf(conf))
<1>1. /\ GoTo(l, "close") /\ svc' = [svc EXCEPT ![Jm(l)] = m] /\ timer' = [timer EXCEPT ![l] = t]
      /\ UNCHANGED stopper /\ launch[l].pc = "up"
      /\ svc \in [Service -> SvcType] /\ launch \in [Launches -> LaunchType] /\ Timers /\ LInv(l)
  BY DEF JmReady, Made, IInv, Types
<1>2. "fired" \in DOMAIN t
  BY DEF NewTimer, NoTimer
<1>3. svc[Jm(l)] \in SvcType /\ launch[l].daemon \in BOOLEAN
  BY <1>1, Names DEF LaunchType
<1>4. svc[Jm(l)].refs = 1 /\ ~svc[Jm(l)].daemon
  BY <1>1 DEF LInv, Progress
<1>5. /\ m \in SvcType /\ m.phase = "alive" /\ m.refs = 1
      /\ m.daemon = launch[l].daemon /\ m.challenge = svc[Jm(l)].challenge
  BY <1>3, <1>4, MadeType
<1> HIDE DEF m, t
<1>6. svc' \in [Service -> SvcType] /\ Timers' /\ \A k \in Launches \ {l} : timer'[k] = timer[k]
  BY <1>1, <1>2, <1>5 DEF Timers
<1>7. svc'[Jm(l)] = m /\ svc'[Psn(l)] = svc[Psn(l)] /\ ~Between(l)
  BY <1>1, Names, NotStopped
<1>8. /\ launch' \in [Launches -> LaunchType] /\ launch'[l].pc = "close"
      /\ launch'[l].daemon = launch[l].daemon /\ launch'[l].challenge = launch[l].challenge
      /\ \A k \in Launches \ {l} : launch'[k] = launch[k]
  BY <1>1, Moves
<1>9. Elsewhere(l)
  BY <1>1, <1>6, <1>8, Names DEF Elsewhere
<1>10. Held(l)'
  BY <1>1, <1>5, <1>7, <1>8 DEF LInv, Held
<1>11. Pair(l)'
  <2>1. svc[Psn(l)].daemon = launch[l].daemon
    BY <1>1 DEF LInv, Progress
  <2>2. ~Between(l)'
    BY <1>1, <1>7 DEF Between
  <2> QED BY <2>1, <2>2, <1>5, <1>7 DEF Pair
<1>12. Progress(l)'
  BY <1>1, <1>5, <1>7, <1>8 DEF LInv, Progress
<1> QED BY <1>1, <1>6, <1>8, <1>9, <1>10, <1>11, <1>12, LaunchOnly DEF LInv

\* What a stop makes of a service.
LEMMA Stopped ==
    ASSUME NEW s \in SvcType, NEW c
    PROVE  /\ Stop(s, c) \in SvcType
           /\ Stop(s, c).phase = s.phase /\ Stop(s, c).refs = s.refs
           /\ Stop(s, c).challenge = s.challenge
           /\ s.challenge \in {c, ""} => ~Stop(s, c).daemon
           /\ s.challenge \notin {c, ""} => Stop(s, c).daemon = s.daemon
           /\ Stop(s, c).daemon => s.daemon
<1>1. CASE Accepts(s, c)
  <2>1. Stop(s, c) = [s EXCEPT !.daemon = FALSE] /\ s.challenge \in {c, ""}
    BY <1>1 DEF Stop, Accepts
  <2> QED BY <2>1 DEF SvcType
<1>2. CASE ~Accepts(s, c)
  <2>1. Stop(s, c) = s /\ s.challenge \notin {c, ""}
    BY <1>2 DEF Stop, Accepts
  <2> QED BY <2>1
<1> QED BY <1>1, <1>2

\* A launch that failed leaves no daemon.
LEMMA LaunchFailsInv ==
    ASSUME IInv, NEW l \in Launches, LaunchFails(l)
    PROVE  IInv'
<1> DEFINE p == svc[Psn(l)]
           q == svc'[Psn(l)]
<1>1. /\ GoTo(l, "close") /\ UNCHANGED <<stopper, timer>> /\ launch[l].pc = "failed"
      /\ Timers' /\ LInv(l) /\ ~Between(l)
      /\ svc \in [Service -> SvcType] /\ launch \in [Launches -> LaunchType]
      /\ Psn(l) \in Service /\ Jm(l) \in Service
  BY Names, NotStopped DEF LaunchFails, IInv, Types, Timers
<1>2. p \in SvcType /\ p.challenge = launch[l].challenge
  BY <1>1 DEF LInv, Progress
<1>3. /\ svc' \in [Service -> SvcType] /\ \A x \in Service \ {Psn(l)} : svc'[x] = svc[x]
      /\ ~q.daemon /\ q.challenge = p.challenge
  <2>1. CASE p.phase = "alive"
    <3> DEFINE r == Stop(p, launch[l].challenge)
    <3>1. svc' = [svc EXCEPT ![Psn(l)] = r]
      BY <2>1 DEF LaunchFails
    <3>2. r \in SvcType /\ ~r.daemon /\ r.challenge = p.challenge
      BY <1>2, Stopped
    <3> HIDE DEF r
    <3> QED BY <1>1, <3>1, <3>2
  <2>2. CASE p.phase # "alive"
    BY <1>1, <2>2 DEF LaunchFails, LInv, Held
  <2> QED BY <2>1, <2>2
<1>4. svc'[Jm(l)] = svc[Jm(l)]
  BY <1>1, <1>3, Names
<1>5. /\ launch' \in [Launches -> LaunchType] /\ launch'[l].pc = "close"
      /\ launch'[l].daemon = launch[l].daemon /\ launch'[l].challenge = launch[l].challenge
      /\ \A k \in Launches \ {l} : launch'[k] = launch[k]
  BY <1>1, Moves
<1>6. Elsewhere(l)
  BY <1>1, <1>3, <1>5, Names DEF Elsewhere
<1>7. ~svc[Jm(l)].daemon
  BY <1>1 DEF LInv, Progress
<1>8. Held(l)' /\ Pair(l)'
  <2>1. q.daemon = svc'[Jm(l)].daemon
    BY <1>1, <1>3, <1>4, <1>7 DEF SvcType
  <2>2. Held(l)'
    BY <1>1, <1>3, <1>4, <1>7 DEF LInv, Held
  <2>3. Pair(l)'
    BY <1>3, <2>1 DEF Pair
  <2> QED BY <2>2, <2>3
<1>9. Progress(l)'
  BY <1>1, <1>2, <1>3, <1>4, <1>5 DEF LInv, Progress
<1> QED BY <1>1, <1>3, <1>5, <1>6, <1>8, <1>9, LaunchOnly DEF LInv

\* Destroying the interfaces of the launcher keeps the invariant.
LEMMA LaunchCloseInv ==
    ASSUME IInv, NEW l \in Launches, LaunchClose(l)
    PROVE  IInv'
<1>1. /\ GoTo(l, "done") /\ UNCHANGED <<svc, stopper, timer>> /\ launch[l].pc = "close"
      /\ Timers' /\ LInv(l) /\ svc \in [Service -> SvcType]
  BY DEF LaunchClose, IInv, Types, Timers
<1>2. /\ launch' \in [Launches -> LaunchType] /\ launch'[l].pc = "done"
      /\ launch'[l].daemon = launch[l].daemon /\ launch'[l].challenge = launch[l].challenge
      /\ \A k \in Launches \ {l} : launch'[k] = launch[k]
  BY <1>1, Moves
<1>3. Elsewhere(l)
  BY <1>1, <1>2 DEF Elsewhere
<1>4. Held(l)' /\ Pair(l)'
  BY <1>1, <1>2 DEF LInv, Held, Pair, Between
<1>5. Progress(l)'
  BY <1>1, <1>2 DEF LInv, Progress
<1> QED BY <1>1, <1>2, <1>3, <1>4, <1>5, LaunchOnly DEF LInv

-----------------------------------------------------------------------------
(* jobmgr_launcher stop. *)

\* The stop that reaches the job manager keeps the invariant.
LEMMA StopConnectInv ==
    ASSUME IInv, NEW c \in Challenges, StopConnect(c)
    PROVE  IInv'
<1>1. PICK l \in Launches :
        /\ stopper' = [pc |-> "mgr", l |-> l, challenge |-> c, ok |-> FALSE]
        /\ svc' = [svc EXCEPT ![Jm(l)] = OnNewConnection(@)]
  BY DEF StopConnect, Open
<1>2. /\ UNCHANGED <<launch, timer>> /\ stopper.pc = "idle" /\ Timers'
      /\ svc \in [Service -> SvcType] /\ launch' \in [Launches -> LaunchType]
  BY DEF StopConnect, IInv, Types, Timers
<1>3. svc' \in [Service -> SvcType] /\ \A x \in Service : Same(svc[x], svc'[x])
  BY <1>1, <1>2, Counted
<1>4. stopper'.pc = "mgr" /\ stopper'.l = l
  BY <1>1
<1>5. stopper' \in StopType
  <2>1. c \in Secret
    BY Zenon DEF Secret
  <2> QED BY <1>1, <2>1 DEF StopType
<1>6. ASSUME NEW k \in Launches PROVE LInv(k)'
  BY <1>2, <1>3, <1>4, Keeps, Names DEF Between
<1> QED BY <1>2, <1>3, <1>4, <1>5, <1>6 DEF IInv, Types, StopInv

\* What StopTo makes of the stop.
LEMMA StopMoves ==
    ASSUME IInv, NEW where \in {"psn", "jm", "close", "leave"}, StopTo(where)
    PROVE  /\ stopper' \in StopType /\ stopper'.pc = where
           /\ stopper'.l = stopper.l /\ stopper'.challenge = stopper.challenge
BY DEF IInv, Types, StopTo, StopType

\* The stop that asks for the search node keeps it.
LEMMA StopNodeInv ==
    ASSUME IInv, StopNode
    PROVE  IInv'
<1> DEFINE l == stopper.l
<1>1. /\ UNCHANGED <<launch, timer>> /\ stopper.pc = "mgr" /\ Timers' /\ l \in Launches
      /\ svc \in [Service -> SvcType] /\ launch' \in [Launches -> LaunchType]
  BY DEF StopNode, IInv, Types, Timers
<1>2. CASE svc[Jm(l)].phase = "alive" /\ Connectable(svc[Psn(l)])
  <2>1. StopTo("psn") /\ svc' = [svc EXCEPT ![Psn(l)] = OnNewConnection(@)]
    BY <1>2 DEF StopNode, Open
  <2>2. svc' \in [Service -> SvcType] /\ \A x \in Service : Same(svc[x], svc'[x])
    BY <1>1, <2>1, Counted
  <2>3. stopper' \in StopType /\ stopper'.pc = "psn" /\ stopper'.l = l
    BY <2>1, StopMoves
  <2>4. ASSUME NEW k \in Launches PROVE LInv(k)'
    BY <1>1, <2>2, <2>3, Keeps, Names DEF Between
  <2>5. launch[l].pc \in {"close", "done"}
    <3>1. Progress(l) /\ launch[l] \in LaunchType
      BY <1>1 DEF IInv, LInv, Types
    <3> QED BY <1>2, <3>1 DEF Progress, LaunchType
  <2> QED BY <1>1, <2>2, <2>3, <2>4, <2>5 DEF IInv, Types, StopInv
<1>3. CASE ~(svc[Jm(l)].phase = "alive" /\ Connectable(svc[Psn(l)]))
  <2>1. StopTo("close") /\ UNCHANGED svc
    BY <1>3 DEF StopNode
  <2>2. \A x \in Service : Same(svc[x], svc'[x])
    BY <1>1, <2>1, Counted
  <2>3. stopper' \in StopType /\ stopper'.pc = "close" /\ stopper'.l = l
    BY <2>1, StopMoves
  <2>4. ASSUME NEW k \in Launches PROVE LInv(k)'
    BY <1>1, <2>2, <2>3, Keeps, Names DEF Between
  <2> QED BY <1>1, <2>1, <2>3, <2>4 DEF IInv, Types, StopInv
<1> QED BY <1>2, <1>3

\* Stopping the search node keeps it: the job manager is next.
LEMMA StopPsnInv ==
    ASSUME IInv, StopPsn
    PROVE  IInv'
<1>0. PICK l \in Launches : l = stopper.l
  BY DEF StopPsn, IInv, Types
<1> DEFINE p == svc[Psn(l)]
<1>1. /\ UNCHANGED <<launch, timer>> /\ stopper.pc = "psn" /\ Timers' /\ l \in Launches /\ LInv(l)
      /\ svc \in [Service -> SvcType] /\ launch' \in [Launches -> LaunchType]
      /\ launch[l].pc \in {"close", "done"}
  BY <1>0 DEF StopPsn, IInv, Types, Timers, StopInv
<1>2. CASE p.phase = "alive"
  <2> DEFINE q == Stop(p, stopper.challenge)
  <2>1. StopTo("jm") /\ svc' = [svc EXCEPT ![Psn(l)] = q]
    BY <1>0, <1>2 DEF StopPsn
  <2>2. p \in SvcType
    BY <1>1, Names
  <2>3. /\ q \in SvcType /\ q.phase = p.phase /\ q.refs = p.refs /\ q.challenge = p.challenge
        /\ p.challenge \in {stopper.challenge, ""} => ~q.daemon
        /\ p.challenge \notin {stopper.challenge, ""} => q.daemon = p.daemon
        /\ q.daemon => p.daemon
    BY <2>2, Stopped
  <2> HIDE DEF q
  <2>4. svc' \in [Service -> SvcType] /\ svc'[Psn(l)] = q /\ svc'[Jm(l)] = svc[Jm(l)]
    BY <1>1, <2>1, <2>3, Names
  <2>5. /\ stopper' \in StopType /\ stopper'.pc = "jm" /\ stopper'.l = l
        /\ stopper'.challenge = stopper.challenge
    BY <1>0, <2>1, StopMoves
  <2>6. ASSUME NEW k \in Launches PROVE LInv(k)'
    <3>1. CASE k = l
      <4>1. Held(l)'
        BY <1>1, <2>3, <2>4 DEF LInv, Held
      <4>2. Progress(l)'
        BY <1>1, <2>3, <2>4 DEF LInv, Progress
      <4>3. p.challenge = launch[l].challenge /\ ~Between(l) /\ Between(l)'
        BY <1>1, <1>0, <2>5 DEF LInv, Progress, Between
      <4>4. Pair(l)'
        BY <1>1, <2>3, <2>4, <2>5, <4>3 DEF LInv, Pair
      <4> QED BY <3>1, <4>1, <4>2, <4>4 DEF LInv
    <3>2. CASE k # l
      <4>1. svc'[Psn(k)] = svc[Psn(k)] /\ svc'[Jm(k)] = svc[Jm(k)]
        BY <1>1, <2>1, <3>2, Names
      <4>2. Same(svc[Psn(k)], svc'[Psn(k)]) /\ Same(svc[Jm(k)], svc'[Jm(k)])
        BY <1>1, <4>1, Names, Counted
      <4> QED BY <1>1, <2>5, <3>2, <4>2, <1>0, Keeps DEF Between
    <3> QED BY <3>1, <3>2
  <2> QED BY <1>1, <2>4, <2>5, <2>6 DEF IInv, Types, StopInv
<1>3. CASE p.phase # "alive"
  <2>1. StopTo("close") /\ UNCHANGED svc
    BY <1>0, <1>3 DEF StopPsn
  <2>2. \A x \in Service : Same(svc[x], svc'[x])
    BY <1>1, <2>1, Counted
  <2>3. stopper' \in StopType /\ stopper'.pc = "close" /\ stopper'.l = l
    BY <1>0, <2>1, StopMoves
  <2>4. ASSUME NEW k \in Launches PROVE LInv(k)'
    BY <1>1, <2>2, <2>3, <1>0, Keeps, Names DEF Between
  <2> QED BY <1>1, <2>1, <2>3, <2>4 DEF IInv, Types, StopInv
<1> QED BY <1>2, <1>3

\* Stopping the job manager keeps it: it answers as the search node did.
LEMMA StopJmInv ==
    ASSUME IInv, StopJm
    PROVE  IInv'
<1>0. PICK l \in Launches : l = stopper.l
  BY DEF StopJm, IInv, Types
<1> DEFINE j == svc[Jm(l)]
           r == svc'[Jm(l)]
<1>1. /\ UNCHANGED <<launch, timer>> /\ stopper.pc = "jm" /\ Timers' /\ l \in Launches /\ LInv(l)
      /\ svc \in [Service -> SvcType] /\ launch' \in [Launches -> LaunchType]
      /\ launch[l].pc \in {"close", "done"} /\ stopper \in StopType
  BY <1>0 DEF StopJm, IInv, Types, Timers, StopInv
<1>2. j \in SvcType /\ svc[Psn(l)].daemon \in BOOLEAN
  BY <1>1, Names DEF SvcType
<1>3. /\ svc' \in [Service -> SvcType] /\ \A x \in Service \ {Jm(l)} : svc'[x] = svc[x]
      /\ r.phase = j.phase /\ r.refs = j.refs /\ r.challenge = j.challenge
      /\ r.daemon => j.daemon
      /\ j.phase = "alive" /\ j.challenge \in {stopper.challenge, ""} => ~r.daemon
      /\ j.phase = "alive" /\ j.challenge \notin {stopper.challenge, ""} => r.daemon = j.daemon
      /\ j.phase # "alive" => r = j
  <2>1. CASE j.phase = "alive"
    <3> DEFINE q == Stop(j, stopper.challenge)
    <3>1. svc' = [svc EXCEPT ![Jm(l)] = q]
      BY <1>0, <2>1 DEF StopJm
    <3>2. /\ q \in SvcType /\ q.phase = j.phase /\ q.refs = j.refs /\ q.challenge = j.challenge
          /\ j.challenge \in {stopper.challenge, ""} => ~q.daemon
          /\ j.challenge \notin {stopper.challenge, ""} => q.daemon = j.daemon
          /\ q.daemon => j.daemon
      BY <1>2, Stopped
    <3> HIDE DEF q
    <3>3. r = q /\ svc' \in [Service -> SvcType] /\ \A x \in Service \ {Jm(l)} : svc'[x] = svc[x]
      BY <1>1, <3>1, <3>2, Names
    <3> QED BY <2>1, <3>2, <3>3
  <2>2. CASE j.phase # "alive"
    BY <1>0, <1>1, <2>2 DEF StopJm
  <2> QED BY <2>1, <2>2
<1>4. stopper' \in StopType /\ stopper'.pc = "close" /\ stopper'.l = l
  <2>1. CASE j.phase = "alive"
    <3>1. stopper' = [stopper EXCEPT !.pc = "close", !.ok = Accepts(j, stopper.challenge)]
      BY <1>0, <2>1 DEF StopJm
    <3>2. Accepts(j, stopper.challenge) \in BOOLEAN
      BY DEF Accepts
    <3> QED BY <1>0, <1>1, <3>1, <3>2 DEF StopType
  <2>2. CASE j.phase # "alive"
    BY <1>0, <2>2, StopMoves DEF StopJm
  <2> QED BY <2>1, <2>2
<1>5. ASSUME NEW k \in Launches PROVE LInv(k)'
  <2>1. CASE k = l
    <3>1. svc'[Psn(l)] = svc[Psn(l)] /\ r \in SvcType
      BY <1>1, <1>3, Names
    <3>2. Held(l)'
      BY <1>1, <1>3, <3>1 DEF LInv, Held
    <3>3. Progress(l)'
      BY <1>1, <1>3, <3>1 DEF LInv, Progress
    <3>4. Between(l) /\ ~Between(l)'
      BY <1>0, <1>1, <1>4 DEF Between
    <3>5. ASSUME ~timer[l].fired PROVE svc[Psn(l)].daemon = r.daemon
      <4>1. CASE launch[l].challenge \in {stopper.challenge, ""}
        <5>1. ~svc[Psn(l)].daemon
          BY <1>1, <3>4, <3>5, <4>1 DEF LInv, Pair
        <5>2. ~r.daemon
          BY <1>1, <1>3, <3>5, <4>1 DEF LInv, Held, Progress
        <5> QED BY <1>2, <3>1, <5>1, <5>2 DEF SvcType
      <4>2. CASE launch[l].challenge \notin {stopper.challenge, ""}
        <5>1. svc[Psn(l)].daemon = j.daemon
          BY <1>1, <3>5, <4>2 DEF LInv, Pair
        <5>2. r.daemon = j.daemon
          BY <1>1, <1>3, <4>2 DEF LInv, Progress
        <5> QED BY <5>1, <5>2
      <4> QED BY <4>1, <4>2
    <3>6. Pair(l)'
      BY <1>1, <3>1, <3>4, <3>5 DEF Pair
    <3> QED BY <2>1, <3>2, <3>3, <3>6 DEF LInv
  <2>2. CASE k # l
    <3>1. svc'[Psn(k)] = svc[Psn(k)] /\ svc'[Jm(k)] = svc[Jm(k)]
      BY <1>1, <1>3, <2>2, Names
    <3>2. Same(svc[Psn(k)], svc'[Psn(k)]) /\ Same(svc[Jm(k)], svc'[Jm(k)])
      BY <1>1, <3>1, Names, Counted
    <3> QED BY <1>1, <1>4, <2>2, <3>2, <1>0, Keeps DEF Between
  <2> QED BY <2>1, <2>2
<1> QED BY <1>1, <1>3, <1>4, <1>5 DEF IInv, Types, StopInv

\* The stop that leaves keeps it.
LEMMA StopEndsInv ==
    ASSUME IInv, StopClose \/ StopLeave
    PROVE  IInv'
<1>1. /\ UNCHANGED <<svc, launch, timer>> /\ stopper.pc \in {"close", "leave"} /\ Timers'
      /\ svc \in [Service -> SvcType] /\ launch' \in [Launches -> LaunchType]
      /\ stopper.l \in Launches
  BY DEF StopClose, StopLeave, IInv, Types, Timers
<1>2. \A x \in Service : Same(svc[x], svc'[x])
  BY <1>1, Counted
<1>3. /\ stopper' \in StopType /\ stopper'.pc \in {"leave", "idle"}
      /\ stopper'.pc # "idle" => stopper'.l \in Launches
  <2>1. CASE StopClose
    BY <1>1, <2>1, StopMoves DEF StopClose
  <2>2. CASE StopLeave
    <3>1. "" \in Secret /\ FALSE \in BOOLEAN
      BY Zenon DEF Secret
    <3>2. stopper' = [pc |-> "idle", l |-> 0, challenge |-> "", ok |-> FALSE]
      BY <2>2 DEF StopLeave, Idle
    <3> QED BY <3>1, <3>2 DEF StopType
  <2> QED BY <2>1, <2>2
<1>4. ASSUME NEW k \in Launches PROVE LInv(k)'
  BY <1>1, <1>2, <1>3, Keeps, Names DEF Between
<1> QED BY <1>1, <1>3, <1>4 DEF IInv, Types, StopInv

-----------------------------------------------------------------------------
(* The theorems. *)

\* The invariant holds initially.
LEMMA InitInv == Init => IInv
<1> SUFFICES ASSUME Init PROVE IInv
  OBVIOUS
<1>1. "" \in Secret
  BY Zenon DEF Secret
<1>2. NoService \in SvcType
  <2>1. "none" \in Phases /\ 0 \in Int /\ FALSE \in BOOLEAN
    BY DEF Phases
  <2> QED BY <1>1, <2>1, Zenon DEF NoService, SvcType
<1>3. Types
  <2>1. svc \in [Service -> SvcType]
    BY <1>2 DEF Init
  <2>2. launch \in [Launches -> LaunchType]
    BY <1>1 DEF Init, LaunchType
  <2>3. stopper \in StopType /\ stopper.pc = "idle"
    BY <1>1 DEF Init, Idle, StopType
  <2>4. Timers
    BY DEF Init, Timers, NoTimer
  <2> QED BY <2>1, <2>2, <2>3, <2>4 DEF Types
<1>4. ASSUME NEW l \in Launches PROVE LInv(l)
  <2>1. svc[Psn(l)] = NoService /\ svc[Jm(l)] = NoService /\ launch[l].pc = "idle"
    BY Names DEF Init
  <2>2. NoService.phase = "none" /\ ~NoService.daemon
    BY DEF NoService
  <2> QED BY <2>1, <2>2 DEF LInv, Held, Progress, Pair
<1>5. StopInv
  BY DEF Init, Idle, StopInv
<1> QED BY <1>3, <1>4, <1>5 DEF IInv

\* Every step keeps it.
LEMMA NextInv == IInv /\ [Next]_vars => IInv'
<1> SUFFICES ASSUME IInv, [Next]_vars PROVE IInv'
  OBVIOUS
<1>1. CASE UNCHANGED vars
  <2>1. UNCHANGED <<svc, launch, stopper, timer>>
    BY <1>1 DEF vars
  <2>2. \A x \in Service : Same(svc[x], svc'[x])
    BY <2>1, Counted DEF IInv, Types
  <2> QED BY <2>1, <2>2, Quiet DEF IInv, Types, Timers
<1>2. ASSUME NEW l \in Launches,
             (\E d \in BOOLEAN, c \in Given : LaunchPsn(l, d, c)) \/ LaunchStep(l)
      PROVE  IInv'
  BY <1>2, LaunchPsnInv, PsnReadyInv, LaunchJmInv, JmBuildsInv, JmReadyInv, LaunchFailsInv,
     LaunchCloseInv DEF LaunchStep
<1>3. ASSUME NEW l \in Launches, Ending(l) \/ TimerWake(l)
      PROVE  IInv'
  BY <1>3, PsnExitInv, JmExitInv, JmDestroyInv, TimerWakeInv DEF Ending
<1>4. CASE (\E c \in Challenges : StopConnect(c)) \/ StopStep
  BY <1>4, StopConnectInv, StopNodeInv, StopPsnInv, StopJmInv, StopEndsInv DEF StopStep
<1>5. CASE \/ \E s \in Service : NoticeClose(s)
           \/ \E c \in Clients, s \in Service :
                ClientOpen(c, s) \/ ClientClose(c, s) \/ ClientKill(c, s)
  BY <1>5, NoticeCloseInv, ClientOpenInv, ClientCloseInv, ClientKillInv
<1> QED BY <1>1, <1>2, <1>3, <1>4, <1>5 DEF Next

\* The invariant holds of every behaviour of the launchers and the services.
THEOREM Inductive == Spec => []IInv
<1> QED BY InitInv, NextInv, PTL DEF Spec

\* Whatever launchers, clients and timers do, and in whatever order, the two
\* services of a launch are daemons together once it is over, except while a
\* stop is between the two calls and after the end of a job manager's lifetime.
THEOREM DaemonsTogether == Spec => []DaemonsPaired
<1>1. IInv => DaemonsPaired
  BY DEF IInv, LInv, Pair, Between, DaemonsPaired
<1> QED BY <1>1, Inductive, PTL

=============================================================================
