---------------------------- MODULE NodeServices ----------------------------
(***************************************************************************)
(* The services of a node: the search node (PSN) and the job manager (JM)  *)
(* that jobmgr_launcher starts and stops.                                  *)
(*                                                                         *)
(* "start" creates the PSN, then the JM, whose constructor binds to the    *)
(* PSN, reads the configuration, publishes what it declares on the PSN,    *)
(* becomes a daemon and starts a timer thread; when the JM cannot be       *)
(* created the PSN is stopped.  "stop" reaches the JM at its fixed port,   *)
(* asks it for the PSN, and stops the PSN, then the JM.  The timer thread  *)
(* registers the node again at every checkpoint and ends the process of    *)
(* the JM once the configured lifetime is over.                            *)
(*                                                                         *)
(* Connections are opened and closed by the launchers, by the JM itself    *)
(* and by clients; a close is noticed by the receive thread of the service *)
(* later.  Node information is what Start-up publishes; its use is         *)
(* SearchNode's and JobMgr's subject.                                      *)
(***************************************************************************)
EXTENDS ServiceBase, Sequences, SequencesExt, FiniteSetsExt

CONSTANTS
    Launches,     \* the launchers run with "start", in this order of numbers
    Clients,      \* other programs that connect to the services
    Given,        \* the challenges given to "start"; "" is none
    Challenges,   \* the challenges given to "stop"
    Configs,      \* the configuration files: sequences of lines
    NoFile,       \* a configuration file that cannot be opened
    Daily,        \* SELFREGISTER_TIMEOUT
    DefaultJobs,  \* 100: maxjobs when the file does not say
    Bench,        \* what benchmark_power measures
    MaxOpens,     \* bound: connections clients open
    MaxStops      \* bound: runs of the launcher with "stop"

Service == {"psn", "jm"} \X Launches
Psn(l) == <<"psn", l>>
Jm(l)  == <<"jm", l>>

ASSUME NodeAssumption ==
    /\ Launches \subseteq Nat \ {0}
    /\ Daily \in Nat \ {0}
    /\ DefaultJobs \in Nat /\ Bench \in Nat
    /\ MaxOpens \in Nat /\ MaxStops \in Nat

VARIABLES
    svc,      \* svc[s]: the service, as in ServiceBase
    conns,    \* conns[s]: who holds a connection to s
    closed,   \* closed[s]: closes the receive thread has not noticed
    launch,   \* launch[l]: the launcher l
    stopper,  \* the launcher run with "stop"
    conf,     \* the configuration file of the node
    info,     \* info[l]: nodeInfo of the PSN of l
    timer,    \* timer[l]: paroc_timerthread of the JM of l
    opens,    \* connections opened by clients so far
    stops     \* runs with "stop" so far

vars == <<svc, conns, closed, launch, stopper, conf, info, timer, opens, stops>>

NoInfo == [power |-> 0, ram |-> 0, maxjobs |-> 0]
NoTimer == [on |-> FALSE, update |-> 0, left |-> 0, slept |-> 0, fired |-> FALSE]
Idle == [pc |-> "idle", l |-> 0, challenge |-> "", ok |-> FALSE]

Holder == {<<"launch", l>> : l \in Launches} \cup {<<"jm", l>> : l \in Launches}
              \cup {<<"stop", 0>>} \cup {<<"client", c>> : c \in Clients}

TypeOK ==
    /\ \A s \in Service :
        /\ svc[s].phase \in Phases
        /\ svc[s].refs \in Int
        /\ svc[s].daemon \in BOOLEAN
        /\ conns[s] \subseteq Holder
        /\ closed[s] \in 0..Cardinality(Holder) + MaxOpens
    /\ \A l \in Launches :
        /\ launch[l].pc \in {"idle", "psn", "jm", "bind", "conf", "info", "up",
                             "failed", "close", "done"}
        /\ timer[l].update \in Nat /\ timer[l].left \in Nat
        /\ timer[l].slept \in Nat
    /\ stopper.pc \in {"idle", "mgr", "node", "psn", "jm", "close", "leave"}
    /\ opens \in 0..MaxOpens /\ stops \in 0..MaxStops

Init ==
    /\ svc = [s \in Service |-> NoService]
    /\ conns = [s \in Service |-> {}]
    /\ closed = [s \in Service |-> 0]
    /\ launch = [l \in Launches |-> [pc |-> "idle", daemon |-> FALSE, challenge |-> ""]]
    /\ stopper = Idle
    /\ conf \in Configs \cup {NoFile}
    /\ info = [l \in Launches |-> NoInfo]
    /\ timer = [l \in Launches |-> NoTimer]
    /\ opens = 0
    /\ stops = 0

-----------------------------------------------------------------------------
(* The configuration: a line is [name, n], n negative when the value is     *)
(* negative or no number.                                                   *)

Defaults == [timeout |-> 0, checkpoint |-> Daily, maxjobs |-> DefaultJobs,
             info |-> <<>>]

\* One line of the file; a later line overrides an earlier one.
ReadLine(c, line) ==
    CASE line.name = "timeout" ->
             [c EXCEPT !.timeout = IF line.n > 0 THEN line.n ELSE 0]
      [] line.name = "checkpoint" ->
             [c EXCEPT !.checkpoint = IF line.n > 0 THEN line.n ELSE 0]
      [] line.name = "maxjobs" ->
             [c EXCEPT !.maxjobs = IF line.n >= 0 THEN line.n ELSE DefaultJobs]
      [] OTHER -> [c EXCEPT !.info = Append(@, line)]

LoadConf(file) == FoldLeft(ReadLine, Defaults, file)

\* Query: the first entry of that name, or the default of the caller.
Query(entries, name, default) ==
    LET hits == {i \in 1..Len(entries) : entries[i].name = name}
    IN  IF hits = {} THEN default ELSE entries[Min(hits)].n

\* What the constructor computes and publishes on the PSN.
NodeInfo(c) ==
    LET flops == Query(c.info, "power", Bench)
        np    == Query(c.info, "np", 1)
    IN  [power |-> IF np > 0 THEN flops * np ELSE flops,
         ram |-> Query(c.info, "ram", 0),
         maxjobs |-> c.maxjobs]

-----------------------------------------------------------------------------
(* Connections. *)

Open(h, s) ==
    /\ svc' = [svc EXCEPT ![s] = OnNewConnection(@)]
    /\ conns' = [conns EXCEPT ![s] = @ \cup {h}]

\* The connections of h to the services S are closed.
CloseAll(h, S) ==
    /\ conns' = [s \in Service |-> IF s \in S THEN conns[s] \ {h} ELSE conns[s]]
    /\ closed' = [s \in Service |->
                    IF s \in S /\ h \in conns[s] /\ Connectable(svc[s])
                    THEN closed[s] + 1 ELSE closed[s]]

\* The receive thread finds a closed connection.
NoticeClose(s) ==
    /\ closed[s] > 0
    /\ closed' = [closed EXCEPT ![s] = @ - 1]
    /\ svc' = [svc EXCEPT ![s] = OnCloseConnection(@)]
    /\ UNCHANGED <<conns, launch, stopper, conf, info, timer, opens, stops>>

End(s) ==
    /\ svc' = [svc EXCEPT ![s].phase = "gone"]
    /\ closed' = [closed EXCEPT ![s] = 0]

\* The serving thread of a PSN finds the count at zero.
PsnExit(l) ==
    /\ svc[Psn(l)].phase = "alive" /\ svc[Psn(l)].refs <= 0
    /\ End(Psn(l))
    /\ UNCHANGED <<conns, launch, stopper, conf, info, timer, opens, stops>>

\* So does that of a JM: its combox closes, then its destructor runs.
JmExit(l) ==
    /\ svc[Jm(l)].phase = "alive" /\ svc[Jm(l)].refs <= 0
    /\ svc' = [svc EXCEPT ![Jm(l)].phase = "ending"]
    /\ closed' = [closed EXCEPT ![Jm(l)] = 0]
    /\ UNCHANGED <<conns, launch, stopper, conf, info, timer, opens, stops>>

\* ~JobMgr binds to the PSN to clear its neighbours.  A PSN already gone
\* makes the destructor throw, which ends the process all the same.
JmDestroy(l) ==
    /\ svc[Jm(l)].phase = "ending"
    /\ IF Connectable(svc[Psn(l)])
       THEN /\ svc' = [svc EXCEPT ![Psn(l)] = OnNewConnection(@),
                                  ![Jm(l)].phase = "gone"]
            /\ closed' = [closed EXCEPT ![Psn(l)] = @ + 1]
       ELSE /\ svc' = [svc EXCEPT ![Jm(l)].phase = "gone"]
            /\ UNCHANGED closed
    /\ timer' = [timer EXCEPT ![l].on = FALSE]
    /\ UNCHANGED <<conns, launch, stopper, conf, info, opens, stops>>

ClientOpen(c, s) ==
    /\ opens < MaxOpens
    /\ Connectable(svc[s])
    /\ <<"client", c>> \notin conns[s]
    /\ opens' = opens + 1
    /\ Open(<<"client", c>>, s)
    /\ UNCHANGED <<closed, launch, stopper, conf, info, timer, stops>>

ClientClose(c, s) ==
    /\ <<"client", c>> \in conns[s]
    /\ CloseAll(<<"client", c>>, {s})
    /\ UNCHANGED <<svc, launch, stopper, conf, info, timer, opens, stops>>

\* The Kill call; it is ignored while there is no object.
ClientKill(c, s) ==
    /\ <<"client", c>> \in conns[s]
    /\ svc[s].phase = "alive" /\ CanKill(svc[s])
    /\ End(s)
    /\ timer' = IF s[1] = "jm" THEN [timer EXCEPT ![s[2]].on = FALSE] ELSE timer
    /\ UNCHANGED <<conns, launch, stopper, conf, info, opens, stops>>

-----------------------------------------------------------------------------
(* jobmgr_launcher start. *)

GoTo(l, pc) == launch' = [launch EXCEPT ![l].pc = pc]

\* The launcher creates the PSN: a process whose constructor runs.
LaunchPsn(l, daemon, challenge) ==
    /\ launch[l].pc = "idle"
    /\ \A k \in Launches : k < l => launch[k].pc = "done"
    /\ launch' = [launch EXCEPT ![l] =
                    [pc |-> "psn", daemon |-> daemon, challenge |-> challenge]]
    /\ svc' = [svc EXCEPT ![Psn(l)] = NewService(challenge)]
    /\ conns' = [conns EXCEPT ![Psn(l)] = @ \cup {<<"launch", l>>}]
    /\ UNCHANGED <<closed, stopper, conf, info, timer, opens, stops>>

\* The constructor of the PSN.
PsnReady(l) ==
    /\ launch[l].pc = "psn"
    /\ LET s == [svc[Psn(l)] EXCEPT !.phase = "alive"]
       IN  svc' = [svc EXCEPT ![Psn(l)] = IF launch[l].daemon THEN Start(s) ELSE s]
    /\ GoTo(l, "jm")
    /\ UNCHANGED <<conns, closed, stopper, conf, info, timer, opens, stops>>

\* Another JM has the port of the job manager.
PortTaken(l) == \E k \in Launches \ {l} : Connectable(svc[Jm(k)])

\* The launcher creates the process of the JM, which may fail to start.
LaunchJm(l) ==
    /\ launch[l].pc = "jm"
    /\ \/ GoTo(l, "failed") /\ UNCHANGED <<svc, conns>>
       \/ /\ ~PortTaken(l)
          /\ GoTo(l, "bind")
          /\ svc' = [svc EXCEPT ![Jm(l)] = NewService(launch[l].challenge)]
          /\ conns' = [conns EXCEPT ![Jm(l)] = @ \cup {<<"launch", l>>}]
    /\ UNCHANGED <<closed, stopper, conf, info, timer, opens, stops>>

\* The constructor of the JM throws: its broker has no object and ends, the
\* interfaces of both ends are closed.
JmThrows(l) ==
    /\ svc' = [svc EXCEPT ![Jm(l)].phase = "gone"]
    /\ conns' = [conns EXCEPT ![Jm(l)] = @ \ {<<"launch", l>>},
                              ![Psn(l)] = @ \ {<<"jm", l>>}]
    /\ closed' = [closed EXCEPT ![Jm(l)] = 0,
                    ![Psn(l)] = IF /\ <<"jm", l>> \in conns[Psn(l)]
                                   /\ Connectable(svc[Psn(l)])
                                THEN @ + 1 ELSE @]
    /\ GoTo(l, "failed")
    /\ UNCHANGED <<info, timer>>

\* The constructor binds to the PSN and gives it its own address.
JmBind(l) ==
    /\ launch[l].pc = "bind"
    /\ IF svc[Psn(l)].phase = "alive"
       THEN Open(<<"jm", l>>, Psn(l)) /\ GoTo(l, "conf") /\ UNCHANGED <<closed, info, timer>>
       ELSE JmThrows(l)
    /\ UNCHANGED <<stopper, conf, opens, stops>>

\* It opens the configuration file, and registers with its parents.
JmConf(l) ==
    /\ launch[l].pc = "conf"
    /\ IF conf = NoFile
       THEN JmThrows(l)
       ELSE GoTo(l, "info") /\ UNCHANGED <<svc, conns, closed, info, timer>>
    /\ UNCHANGED <<stopper, conf, opens, stops>>

\* It publishes what the file declares on the PSN.
JmInfo(l) ==
    /\ launch[l].pc = "info"
    /\ IF svc[Psn(l)].phase = "alive"
       THEN /\ info' = [info EXCEPT ![l] = NodeInfo(LoadConf(conf))]
            /\ GoTo(l, "up")
            /\ UNCHANGED <<svc, conns, closed, timer>>
       ELSE JmThrows(l)
    /\ UNCHANGED <<stopper, conf, opens, stops>>

NewTimer(c) ==
    [NoTimer EXCEPT !.on = c.checkpoint > 0 \/ c.timeout > 0,
                    !.update = c.checkpoint, !.left = c.timeout]

\* It becomes a daemon, starts the timer thread and returns: the broker has
\* its object, and the interface to the PSN is destroyed.
JmReady(l) ==
    /\ launch[l].pc = "up"
    /\ LET s == [svc[Jm(l)] EXCEPT !.phase = "alive"]
       IN  svc' = [svc EXCEPT ![Jm(l)] = IF launch[l].daemon THEN Start(s) ELSE s]
    /\ timer' = [timer EXCEPT ![l] = NewTimer(LoadConf(conf))]
    /\ CloseAll(<<"jm", l>>, {Psn(l)})
    /\ GoTo(l, "close")
    /\ UNCHANGED <<stopper, conf, info, opens, stops>>

\* The launcher catches the exception and stops the PSN.
LaunchFails(l) ==
    /\ launch[l].pc = "failed"
    /\ svc' = IF svc[Psn(l)].phase = "alive"
              THEN [svc EXCEPT ![Psn(l)] = Stop(@, launch[l].challenge)]
              ELSE svc
    /\ GoTo(l, "close")
    /\ UNCHANGED <<conns, closed, stopper, conf, info, timer, opens, stops>>

\* The interfaces of the launcher are destroyed.
LaunchClose(l) ==
    /\ launch[l].pc = "close"
    /\ CloseAll(<<"launch", l>>, {Psn(l), Jm(l)})
    /\ GoTo(l, "done")
    /\ UNCHANGED <<svc, stopper, conf, info, timer, opens, stops>>

-----------------------------------------------------------------------------
(* jobmgr_launcher stop. *)

StopTo(pc) == stopper' = [stopper EXCEPT !.pc = pc]
Me == <<"stop", 0>>

\* It binds to the JM at the port; there is none: it gives up.
StopConnect(challenge) ==
    /\ stopper.pc = "idle" /\ stops < MaxStops
    /\ stops' = stops + 1
    /\ \E l \in Launches :
        /\ Connectable(svc[Jm(l)])
        /\ stopper' = [pc |-> "mgr", l |-> l, challenge |-> challenge, ok |-> FALSE]
        /\ Open(Me, Jm(l))
    /\ UNCHANGED <<closed, launch, conf, info, timer, opens>>

\* The JM answers once its constructor is over; the file manager, never
\* started, is not found, which is caught.  Then it binds to the PSN.
StopNode ==
    /\ stopper.pc = "mgr"
    /\ svc[Jm(stopper.l)].phase # "building"
    /\ IF svc[Jm(stopper.l)].phase = "alive" /\ Connectable(svc[Psn(stopper.l)])
       THEN Open(Me, Psn(stopper.l)) /\ StopTo("psn")
       ELSE StopTo("close") /\ UNCHANGED <<svc, conns>>
    /\ UNCHANGED <<closed, launch, conf, info, timer, opens, stops>>

\* Mutant of StopPsn: the JM is stopped, the PSN is not.
StopPsnSkipped ==
    /\ stopper.pc = "psn"
    /\ IF svc[Psn(stopper.l)].phase = "alive"
       THEN UNCHANGED svc /\ StopTo("jm")
       ELSE StopTo("close") /\ UNCHANGED svc
    /\ UNCHANGED <<conns, closed, launch, conf, info, timer, opens, stops>>

StopPsn ==
    /\ stopper.pc = "psn"
    /\ IF svc[Psn(stopper.l)].phase = "alive"
       THEN /\ svc' = [svc EXCEPT ![Psn(stopper.l)] = Stop(@, stopper.challenge)]
            /\ StopTo("jm")
       ELSE StopTo("close") /\ UNCHANGED svc
    /\ UNCHANGED <<conns, closed, launch, conf, info, timer, opens, stops>>

StopJm ==
    /\ stopper.pc = "jm"
    /\ LET s == svc[Jm(stopper.l)]
       IN  IF s.phase = "alive"
           THEN /\ svc' = [svc EXCEPT ![Jm(stopper.l)] = Stop(s, stopper.challenge)]
                /\ stopper' = [stopper EXCEPT !.pc = "close",
                                  !.ok = Accepts(s, stopper.challenge)]
           ELSE StopTo("close") /\ UNCHANGED svc
    /\ UNCHANGED <<conns, closed, launch, conf, info, timer, opens, stops>>

\* The interfaces are destroyed, the one to the PSN first.
StopClose ==
    /\ stopper.pc = "close"
    /\ CloseAll(Me, {Psn(stopper.l)})
    /\ StopTo("leave")
    /\ UNCHANGED <<svc, launch, conf, info, timer, opens, stops>>

StopLeave ==
    /\ stopper.pc = "leave"
    /\ CloseAll(Me, {Jm(stopper.l)})
    /\ stopper' = Idle
    /\ UNCHANGED <<svc, launch, conf, info, timer, opens, stops>>

-----------------------------------------------------------------------------
(* The timer thread of the JM. *)

Checkpoint(t) == t.left <= 0 \/ t.update < t.left

\* The thread slept up to the next checkpoint, and SelfRegister registers
\* the node again (see SearchNode).
Slept(t) ==
    [t EXCEPT !.left = IF @ > t.update THEN @ - t.update ELSE @,
              !.slept = IF t.left > 0 THEN @ + t.update ELSE @]

\* Mutant of TimerWake: the last sleep is a checkpoint's.
TimerWakeUpdate(l) ==
    LET t == timer[l]
    IN  /\ t.on /\ svc[Jm(l)].phase = "alive"
        /\ IF Checkpoint(t)
           THEN timer' = [timer EXCEPT ![l] = Slept(t)] /\ UNCHANGED <<svc, closed>>
           ELSE /\ timer' = [timer EXCEPT ![l].on = FALSE, ![l].fired = TRUE,
                                          ![l].slept = @ + t.update]
                /\ End(Jm(l))
        /\ UNCHANGED <<conns, launch, stopper, conf, info, opens, stops>>

\* One turn of the loop; the last one ends the process.
TimerWake(l) ==
    LET t == timer[l]
    IN  /\ t.on /\ svc[Jm(l)].phase = "alive"
        /\ IF Checkpoint(t)
           THEN timer' = [timer EXCEPT ![l] = Slept(t)] /\ UNCHANGED <<svc, closed>>
           ELSE /\ timer' = [timer EXCEPT ![l].on = FALSE, ![l].fired = TRUE,
                                          ![l].slept = @ + t.left]
                /\ End(Jm(l))
        /\ UNCHANGED <<conns, launch, stopper, conf, info, opens, stops>>

-----------------------------------------------------------------------------

LaunchStep(l) ==
    \/ PsnReady(l) \/ LaunchJm(l) \/ JmBind(l) \/ JmConf(l) \/ JmInfo(l)
    \/ JmReady(l) \/ LaunchFails(l) \/ LaunchClose(l)

StopStep == StopNode \/ StopPsn \/ StopJm \/ StopClose \/ StopLeave

Ending(l) == PsnExit(l) \/ JmExit(l) \/ JmDestroy(l)

Next ==
    \/ \E l \in Launches :
        \/ \E d \in BOOLEAN, c \in Given : LaunchPsn(l, d, c)
        \/ LaunchStep(l)
        \/ Ending(l)
        \/ TimerWake(l)
    \/ \E c \in Challenges : StopConnect(c)
    \/ StopStep
    \/ \E s \in Service : NoticeClose(s)
    \/ \E c \in Clients, s \in Service :
        ClientOpen(c, s) \/ ClientClose(c, s) \/ ClientKill(c, s)

Spec == Init /\ [][Next]_vars

\* Processes and threads run on; a client's connection ends some time.
Fairness ==
    /\ \A l \in Launches : /\ WF_vars(LaunchStep(l))
                           /\ WF_vars(Ending(l))
                           /\ WF_vars(TimerWake(l))
    /\ WF_vars(StopStep)
    /\ \A s \in Service : WF_vars(NoticeClose(s))
    /\ \A c \in Clients, s \in Service : WF_vars(ClientClose(c, s))

FairSpec == Spec /\ Fairness

-----------------------------------------------------------------------------
(* Properties. *)

\* The two services of a node are daemons together.  A launch that fails and
\* a stop that succeeds leave neither behind, and a stop refused leaves both;
\* the one exception is a job manager whose lifetime is over.
DaemonsPaired ==
    \A l \in Launches :
        /\ launch[l].pc = "done"
        /\ ~(stopper.l = l /\ stopper.pc = "jm")
        /\ ~timer[l].fired
        => (svc[Psn(l)].daemon <=> svc[Jm(l)].daemon)

Lines(file, name) == {i \in 1..Len(file) : file[i].name = name}

FirstOf(file, name, default) ==
    IF Lines(file, name) = {} THEN default ELSE file[Min(Lines(file, name))].n

LastOf(file, name, default) ==
    IF Lines(file, name) = {} THEN default ELSE file[Max(Lines(file, name))].n

\* Once the job manager answers, the search node publishes what the file
\* declares: the last maxjobs, the first of the other entries, the power of
\* all processors.
PublishedInfo ==
    \A l \in Launches :
        svc[Jm(l)].phase = "alive" =>
            LET jobs == LastOf(conf, "maxjobs", DefaultJobs)
                np   == FirstOf(conf, "np", 1)
            IN  info[l] = [power |-> FirstOf(conf, "power", Bench) * Max({np, 1}),
                           ram |-> FirstOf(conf, "ram", 0),
                           maxjobs |-> IF jobs >= 0 THEN jobs ELSE DefaultJobs]

\* A job manager that ends at its timeout has lived exactly that long.
LifetimeExact ==
    \A l \in Launches :
        timer[l].fired => timer[l].slept = LastOf(conf, "timeout", 0)

\* The configuration file is honoured: every variable keeps its type, what is
\* published and how long the job manager lives are what the file says.
ConfigHonoured == TypeOK /\ PublishedInfo /\ LifetimeExact

\* A job manager with a lifetime ends, provided it has checkpoints: with
\* checkpoint 0 the thread wakes for ever without sleeping.  A service that is
\* not, or no longer, a daemon ends: the launcher of a test, the one that failed,
\* or the one that stopped it, leaves no process.
ServicesEnd ==
    /\ \A l \in Launches :
         (timer[l].on /\ timer[l].left > 0 /\ timer[l].update > 0)
             ~> svc[Jm(l)].phase # "alive"
    /\ \A s \in Service :
         (launch[s[2]].pc = "done" /\ svc[s].phase = "alive" /\ ~svc[s].daemon)
             ~> svc[s].phase = "gone"

=============================================================================
