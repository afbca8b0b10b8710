----------------------------- MODULE SearchNode -----------------------------
(***************************************************************************)
(* Resource discovery (services/lib/popc_search_node.cc).                  *)
(*                                                                         *)
(* A discovery floods a graph of search nodes.  Each node executes the     *)
(* sequential method askResourcesDiscovery on its serving thread, one call *)
(* after the other; launchDiscovery, callbackResult and unlockDiscovery    *)
(* are concurrent methods and run on threads of their own beside it.  A    *)
(* node that receives a request twice cuts the edge it came over, on both  *)
(* sides.                                                                  *)
(*                                                                         *)
(* Identifiers of nodes are numbers, because the exploration list is a map *)
(* ordered by identifier.  Resources are numbers, 0 in a request is "not   *)
(* set".  Node and request constants stand for their access points.        *)
(***************************************************************************)
EXTENDS Integers, SequencesExt

CONSTANTS
    Node,          \* search nodes
    Worlds,        \* grids the nodes form at the start, see WorldType
    MaxRegs,       \* bound: how often a node registers again
    Req,           \* discoveries, each with a unique identifier
    Origin,        \* [Req -> Node]: the node whose launchDiscovery is called
    End,           \* subset of Req: announcements that an application ended
    Waits,         \* subset of Req: launched with a time-out above 0
    Hops,          \* [Req -> Int]: maxHops
    Want,          \* [Req -> what is asked for], see WantType
    CpuSpeeds,     \* values an expected cpu speed may take
    Info,          \* [Node -> resources of a node], see InfoType
    MaxJobs,       \* psn_maxjobs
    HistMax,       \* MAXREQTOSAVE
    NeighborsPath, \* NEIGHBORSPATH
    Unlimited      \* UNLIMITED_HOPS

\* Neighbours registered at the start, the nodes a job manager registers with
\* again, and as bounds the discoveries that are launched, whether only one after
\* the other, and the nodes that die.
WorldType == [graph : [Node -> Seq(Node)], parents : [Node -> SUBSET Node],
              calls : SUBSET Req, apart : BOOLEAN, crash : SUBSET Node]

\* What a node has, see its set and get methods.
InfoType == [power : Nat, mem : Nat, bandwidth : Nat, cpu : Nat, disk : Nat, jobs : Nat]
\* What a request asks for; hasXSet is "not 0".
WantType == [minPower : Nat, expPower : Nat, minMem : Nat, expMem : Nat,
             minBw : Nat, expBw : Nat, minCpu : Nat, expCpu : Nat, minDisk : Nat]

ASSUME SearchAssumption ==
    /\ Node \subseteq Nat /\ MaxRegs \in Nat
    /\ \A w \in Worlds :
          /\ w \in WorldType
          /\ \A n, m \in Node : m \in Range(w.graph[n]) <=> n \in Range(w.graph[m])
          /\ \A n \in Node : w.parents[n] \subseteq Range(w.graph[n])
    /\ Origin \in [Req -> Node] /\ Hops \in [Req -> Int]
    /\ End \subseteq Waits /\ Waits \subseteq Req
    /\ \A r \in End : Hops[r] = Unlimited
    /\ CpuSpeeds \subseteq Nat /\ Info \in [Node -> InfoType] /\ Want \in [Req -> WantType]
    /\ Unlimited < -1 /\ {HistMax, NeighborsPath, MaxJobs} \subseteq Nat

VARIABLES
    node,   \* [Node -> [up, nbr, known, regs]]
    chan,   \* [Node -> [Node -> Seq]]: askResourcesDiscovery calls, sender to receiver
    calls,  \* [Node -> bag]: calls of job managers to a search node, see CallType
    launch, \* [Req -> thread of launchDiscovery]
    back,   \* [Req -> [Node -> Nat]]: callbackResult calls that have not begun
    posts,  \* [Req -> Nat]: callbackResult calls between their two halves
    sem,    \* [Req -> Int]: semaphore of reqsem, Null if there is none
    timer,  \* [Req -> state of the NodeThread]
    unlock, \* [Req -> BOOLEAN]: an unlockDiscovery call is under way
    asked,  \* history: [Req -> SUBSET Node]: nodes that handled the request
    forgot, \* history: pairs <<node, request>> dropped from knownRequests
    ended,  \* history: [Req -> SUBSET Node]: where ApplicationEnd was called
    met,    \* history: a discovery began before the edits of another were done
    world   \* the grid, a member of Worlds

vars == <<node, chan, calls, launch, back, posts, sem, timer, unlock,
          asked, forgot, ended, met, world>>

threads == <<launch, posts, sem, timer, unlock>>
history == <<asked, forgot, ended, met, world>>

Null == -1

\* addNeighbor and removeNeighbor, with the neighbour.
CallType == {"add", "remove"} \X Node

\* The request as AllocResource or ApplicationEnd hands it to launchDiscovery.
NewRequest(r) ==
    [r |-> r, hops |-> Hops[r], el |-> <<>>, wb |-> <<>>, want |-> Want[r]]

Init ==
    /\ world \in Worlds
    /\ node = [n \in Node |-> [up |-> TRUE, nbr |-> world.graph[n], known |-> <<>>,
                               regs |-> 0]]
    /\ chan = [n \in Node |-> [m \in Node |-> <<>>]]
    /\ calls = [n \in Node |-> [c \in CallType |-> 0]]
    /\ launch = [r \in Req |-> [pc |-> "idle", at |-> 1, q |-> NewRequest(r),
                                 res |-> [n \in Node |-> 0]]]
    /\ back = [r \in Req |-> [n \in Node |-> 0]]
    /\ posts = [r \in Req |-> 0]
    /\ sem = [r \in Req |-> Null]
    /\ timer = [r \in Req |-> "off"]
    /\ unlock = [r \in Req |-> FALSE]
    /\ asked = [r \in Req |-> {}]
    /\ forgot = {}
    /\ ended = [r \in Req |-> {}]
    /\ met = FALSE

-----------------------------------------------------------------------------
(* The request and what it carries.                                        *)

\* ExplorationList::addListNode.  The map keeps an entry it already has; when
\* too many entries have neighbours, those of the smallest identifier go.
addListNode(el, n, nbrs) ==
    LET new  == [m \in DOMAIN el \cup {n} |-> IF m \in DOMAIN el THEN el[m] ELSE nbrs]
        full == {m \in DOMAIN new : new[m] # {}}
    IN  IF Cardinality(full) > NeighborsPath
        THEN [new EXCEPT ![Min(full)] = {}]
        ELSE new

\* ExplorationList::Serialize: the receiver builds the map again, entry by entry.
UnpackList(el) ==
    FoldLeft(LAMBDA l, m : addListNode(l, m, el[m]), <<>>, SetToSortSeq(DOMAIN el, <))

\* Request::Serialize writes every field that is set, but for an expected cpu speed
\* the flag a second time: the receiver has a speed that was never assigned.
UnpackWant(w) ==
    IF w.expCpu = 0 THEN {w} ELSE {[w EXCEPT !.expCpu = v] : v \in CpuSpeeds}

\* The request a neighbour receives.
Received(q) == {[q EXCEPT !.el = UnpackList(@), !.want = w] : w \in UnpackWant(q.want)}

\* ExplorationList::isIn: as a visited node or as a neighbour of one.
isIn(el, n) == n \in DOMAIN el \/ \E m \in DOMAIN el : n \in el[m]

\* POPWayback::insertNode.
insertNode(wb, n) == IF wb = <<>> \/ Last(wb) = n THEN Append(wb, n) ELSE wb

\* POPWayback::isLastNode.
isLastNode(wb) == Len(wb) <= 1

\* Request::addNodeToExplorationList.
addNodeToExplorationList(q, n, nbrs) ==
    [q EXCEPT !.el = addListNode(q.el, n, nbrs),
              !.hops = IF @ = Unlimited THEN @ ELSE @ - 1]

\* POPCSearchNode::checkResource; a field of a request that is 0 is not set.
checkResource(n, w) ==
    LET i == Info[n]
    IN  /\ i.jobs < MaxJobs
        /\ w.minCpu <= i.cpu
        /\ w.expCpu # 0 => w.expCpu > i.cpu
        /\ w.minMem <= i.mem
        /\ w.expMem # 0 => w.expMem < i.mem
        /\ i.bandwidth > 0 => /\ w.minBw <= i.bandwidth
                              /\ w.expBw # 0 => w.expBw < i.bandwidth
        /\ w.minDisk <= i.disk
        /\ w.minPower <= i.power
        /\ w.expPower <= i.power

-----------------------------------------------------------------------------
(* askResourcesDiscovery, on the serving thread or called by               *)
(* launchDiscovery.                                                        *)

Neighbors(n) == Range(node[n].nbr)

\* How often m is in the list of n: a node that registers again is entered again.
Entries(n, m) == Cardinality({k \in DOMAIN node[n].nbr : node[n].nbr[k] = m})

\* The request is in the history of the node; ends of applications are not kept.
Known(n, q) == q.r \notin End /\ q.r \in Range(node[n].known)

\* getNeighbors asks every neighbour for its identifier: a dead one makes it
\* throw, and the handler ends there.
Unreachable(n) == \E m \in Neighbors(n) : ~node[m].up

\* knownRequests.push_back, and pop_front when it has become too long.
Remember(known, r) ==
    LET k == Append(known, r) IN IF Len(k) > HistMax THEN Tail(k) ELSE k

Forgotten(n, r) ==
    IF Len(node[n].known) >= HistMax THEN {<<n, Head(Append(node[n].known, r))>>} ELSE {}

\* More hops are allowed after this node was counted.
Propagates(q) == q.hops >= 0 \/ q.hops = Unlimited

\* The request as n passes it on.
Extend(n, q) ==
    LET p == addNodeToExplorationList(q, n, Neighbors(n))
    IN  IF p.r \notin End /\ Propagates(p) THEN [p EXCEPT !.wb = insertNode(@, n)] ELSE p

\* A fitting node answers the initiator directly: its way back is never longer
\* than one node (DirectAnswer), so rerouteResponse has no caller.
Answers(n, q) ==
    /\ ~Known(n, q) /\ q.r \notin End /\ ~Unreachable(n)
    /\ checkResource(n, q.want)

\* The part before the loop: history and answer.
Handle(n, q) ==
    LET fresh == ~Known(n, q) /\ q.r \notin End
    IN  /\ back' = IF Answers(n, q) /\ node[Origin[q.r]].up
                   THEN [back EXCEPT ![q.r][n] = @ + 1] ELSE back
        /\ asked' = IF Known(n, q) THEN asked ELSE [asked EXCEPT ![q.r] = @ \cup {n}]
        /\ forgot' = IF fresh THEN forgot \cup Forgotten(n, q.r) ELSE forgot

\* Mutants: the list that already names the node's own neighbours is tested; no
\* list is tested.
SendsUnlessOwn(q, p, m) == Propagates(p) /\ ~isIn(p.el, m)
\* The loop asks a neighbour that the list received with the request does not
\* name.
Sends(q, p, m) == Propagates(p) /\ ~isIn(q.el, m)

\* removeNeighbor erases the first entry for m.  The iterator of a thread of
\* launchDiscovery behind it keeps its element; one at the erased element reads
\* freed memory, which still holds the link to the next element or ends the
\* process.  (The serving thread itself is the one that erases.)
Position(n, m) == SelectInSeq(node[n].nbr, LAMBDA x : x = m)

Shift(n, k) ==
    launch' = [r \in Req |->
                 IF Origin[r] = n /\ launch[r].pc = "loop" /\ launch[r].at > k
                 THEN [launch[r] EXCEPT !.at = @ - 1] ELSE launch[r]]

Dangling(n, k) == \E r \in Req : Origin[r] = n /\ launch[r].pc = "loop" /\ launch[r].at = k

removeNeighbor(n, m) ==
    LET k == Position(n, m)
    IN  IF k = 0 THEN UNCHANGED <<node, launch>>
        ELSE /\ \E lives \in {TRUE, ~Dangling(n, k)} :
                  node' = [node EXCEPT ![n].nbr = RemoveAt(@, k), ![n].up = lives]
             /\ Shift(n, k)

\* Mutant: only the receiver forgets the edge.
CutEdgeHere(n, s) == removeNeighbor(n, s) /\ UNCHANGED calls

\* A request the node knows: both ends of the edge to the sender are cut, here and
\* through the job manager of the sender.
CutEdge(n, s) ==
    IF ~node[s].up THEN UNCHANGED <<node, calls, launch>>
    ELSE /\ calls' = [calls EXCEPT ![s][<<"remove", n>>] = @ + 1]
         /\ removeNeighbor(n, s)

\* The serving thread takes the next call from neighbour s and executes it to the
\* end: only itself changes the list of neighbours while it loops.
askResourcesDiscovery(n, s) ==
    /\ node[n].up /\ chan[s][n] # <<>>
    /\ \E q \in Received(Head(chan[s][n])) :
       LET p   == Extend(n, q)
           ok  == ~Known(n, q) /\ ~Unreachable(n)
       IN  /\ Handle(n, q)
           /\ chan' = [x \in Node |-> [y \in Node |->
                 LET c == IF x = s /\ y = n THEN Tail(chan[x][y]) ELSE chan[x][y]
                 IN  IF x = n /\ ok /\ Sends(q, p, y)
                     THEN c \o [k \in 1 .. Entries(n, y) |-> p]
                     ELSE c]]
           /\ ended' = IF q.r \in End /\ ok THEN [ended EXCEPT ![q.r] = @ \cup {n}] ELSE ended
           /\ IF Known(n, q) THEN CutEdge(n, s)
              ELSE /\ node' = IF q.r \in End THEN node
                              ELSE [node EXCEPT ![n].known = Remember(@, q.r)]
                   /\ UNCHANGED <<calls, launch>>
    /\ UNCHANGED <<posts, sem, timer, unlock, met, world>>

-----------------------------------------------------------------------------
(* launchDiscovery.                                                        *)

Looping == {r \in Req : launch[r].pc = "loop"}
Travelling == UNION {Range(chan[n][m]) : n, m \in Node}

\* No discovery is on its way and no list of neighbours is about to change.
Settled ==
    /\ Looping \subseteq End /\ \A q \in Travelling : q.r \in End
    /\ \A n \in Node, c \in CallType : calls[n][c] = 0

\* The place for the results and the semaphore are made; then the thread calls
\* askResourcesDiscovery of its own object.
launchDiscovery(r) ==
    LET n == Origin[r]
        q == NewRequest(r)
    IN  /\ launch[r].pc = "idle" /\ node[n].up /\ r \in world.calls
        /\ world.apart => Settled
        /\ Handle(n, q)
        /\ node' = IF r \in End THEN node ELSE [node EXCEPT ![n].known = Remember(@, r)]
        /\ launch' = [launch EXCEPT ![r].pc = IF Unreachable(n) THEN "asked" ELSE "loop",
                                    ![r].at = 1, ![r].q = Extend(n, q)]
        /\ sem' = IF r \in Waits THEN sem ELSE [sem EXCEPT ![r] = 0]
        /\ met' = (met \/ (r \notin End /\ ~Settled))
        /\ UNCHANGED <<chan, calls, posts, timer, unlock, ended, world>>

\* One turn of the loop; a dead neighbour makes the remote call throw and ends it.
LaunchForward(r) ==
    LET n == Origin[r]
        m == node[n].nbr[launch[r].at]
    IN  /\ node[n].up /\ launch[r].pc = "loop" /\ launch[r].at <= Len(node[n].nbr)
        /\ chan' = IF node[m].up /\ Sends(NewRequest(r), launch[r].q, m)
                   THEN [chan EXCEPT ![n][m] = Append(@, launch[r].q)] ELSE chan
        /\ launch' = [launch EXCEPT ![r].at = @ + 1,
                                    ![r].pc = IF node[m].up THEN @ ELSE "asked"]
        /\ UNCHANGED <<node, calls, back, posts, sem, timer, unlock, history>>

\* The loop is over: the end of an application is passed to the job manager.
LaunchAsked(r) ==
    /\ launch[r].pc = "loop" /\ node[Origin[r]].up
    /\ launch[r].at > Len(node[Origin[r]].nbr)
    /\ launch' = [launch EXCEPT ![r].pc = "asked"]
    /\ ended' = IF r \in End THEN [ended EXCEPT ![r] = @ \cup {Origin[r]}] ELSE ended
    /\ UNCHANGED <<node, chan, calls, back, posts, sem, timer, unlock, asked, forgot,
                   met, world>>

\* Mutant: no timer is started.
LaunchWaitUntimed(r) ==
    /\ launch[r].pc = "asked" /\ node[Origin[r]].up
    /\ launch' = [launch EXCEPT ![r].pc = IF r \in Waits THEN "sleep" ELSE "wait"]
    /\ UNCHANGED <<node, chan, calls, back, posts, sem, timer, unlock, history>>

\* The timer is started after the request went out; with a time-out above 0 the
\* thread sleeps instead.
LaunchWait(r) ==
    /\ launch[r].pc = "asked" /\ node[Origin[r]].up
    /\ launch' = [launch EXCEPT ![r].pc = IF r \in Waits THEN "sleep" ELSE "wait"]
    /\ timer' = IF r \in Waits THEN timer ELSE [timer EXCEPT ![r] = "run"]
    /\ UNCHANGED <<node, chan, calls, back, posts, sem, unlock, history>>

\* sem_wait returns; NodeThread::stop; the semaphore leaves the map.
Woken(r) ==
    /\ launch[r].pc = "wait" /\ sem[r] > 0 /\ node[Origin[r]].up
    /\ launch' = [launch EXCEPT ![r].pc = "collect"]
    /\ timer' = [timer EXCEPT ![r] = IF @ = "run" THEN "stopped" ELSE @]
    /\ sem' = [sem EXCEPT ![r] = Null]
    /\ UNCHANGED <<node, chan, calls, back, posts, unlock, history>>

\* After the wait or the sleep, under actualReqSyn, the results are copied and their
\* place is erased.
Collect(r) ==
    /\ launch[r].pc \in {"collect", "sleep"} /\ node[Origin[r]].up
    /\ launch' = [launch EXCEPT ![r].pc = "done"]
    /\ UNCHANGED <<node, chan, calls, back, posts, sem, timer, unlock, history>>

\* actualReq has a place for the request between its creation and Collect.
Actual(r) == launch[r].pc \notin {"idle", "done"}

-----------------------------------------------------------------------------
(* Answers and the timer.                                                  *)

\* callbackResult, first half: under actualReqSyn the answer is added if the
\* discovery is still running.  A request that sleeps has no semaphore, and the
\* second half does nothing.
CallbackAdd(r, n) ==
    /\ back[r][n] > 0 /\ node[Origin[r]].up
    /\ back' = [back EXCEPT ![r][n] = @ - 1]
    /\ launch' = IF Actual(r) THEN [launch EXCEPT ![r].res[n] = @ + 1]
                 ELSE launch
    /\ posts' = IF r \in Waits THEN posts ELSE [posts EXCEPT ![r] = @ + 1]
    /\ UNCHANGED <<node, chan, calls, sem, timer, unlock, history>>

\* Second half, without the lock: the semaphore is posted if it is there.
CallbackPost(r) ==
    /\ posts[r] > 0 /\ node[Origin[r]].up
    /\ posts' = [posts EXCEPT ![r] = @ - 1]
    /\ sem' = IF sem[r] = Null THEN sem ELSE [sem EXCEPT ![r] = @ + 1]
    /\ UNCHANGED <<node, chan, calls, launch, back, timer, unlock, history>>

\* NodeThread::start: UNLOCK_TIMEOUT has passed and stop was not called.
TimerFires(r) ==
    /\ timer[r] = "run" /\ node[Origin[r]].up
    /\ timer' = [timer EXCEPT ![r] = "fired"]
    /\ unlock' = [unlock EXCEPT ![r] = TRUE]
    /\ UNCHANGED <<node, chan, calls, launch, back, posts, sem, history>>

\* unlockDiscovery posts what the map holds: a null pointer when the waiter has
\* already gone, which ends the process.
unlockDiscovery(r) ==
    /\ unlock[r] /\ node[Origin[r]].up
    /\ unlock' = [unlock EXCEPT ![r] = FALSE]
    /\ IF sem[r] = Null
       THEN node' = [node EXCEPT ![Origin[r]].up = FALSE] /\ UNCHANGED sem
       ELSE sem' = [sem EXCEPT ![r] = @ + 1] /\ UNCHANGED node
    /\ UNCHANGED <<chan, calls, launch, back, posts, timer, history>>

-----------------------------------------------------------------------------
(* Calls of job managers, and faults.                                      *)

\* SelfRegister of the job manager of n with its parent m: both search nodes
\* are told to add the other one, every time.
SelfRegister(n, m) ==
    /\ m \in world.parents[n] /\ node[n].up /\ node[m].up
    /\ node[n].regs < MaxRegs /\ node' = [node EXCEPT ![n].regs = @ + 1]
    /\ calls' = [calls EXCEPT ![n][<<"add", m>>] = @ + 1, ![m][<<"add", n>>] = @ + 1]
    /\ UNCHANGED <<chan, back, threads, history>>

\* addNeighbor and removeNeighbor are sequential: they wait for the serving
\* thread.  The calls come from different threads, in any order.
ServeCall(n, c) ==
    /\ node[n].up /\ calls[n][c] > 0
    /\ calls' = [calls EXCEPT ![n][c] = @ - 1]
    /\ IF c[1] = "remove" THEN removeNeighbor(n, c[2])
       ELSE node' = [node EXCEPT ![n].nbr = Append(@, c[2])] /\ UNCHANGED launch
    /\ UNCHANGED <<chan, back, posts, sem, timer, unlock, history>>

Dies(n) ==
    /\ n \in world.crash /\ node[n].up
    /\ node' = [node EXCEPT ![n].up = FALSE]
    /\ UNCHANGED <<chan, calls, back, threads, history>>

Next ==
    \/ \E n \in Node : \/ Dies(n)
                       \/ \E s \in Node : askResourcesDiscovery(n, s)
                       \/ \E m \in Node : SelfRegister(n, m)
                       \/ \E c \in CallType : ServeCall(n, c)
    \/ \E r \in Req : \/ launchDiscovery(r) \/ LaunchForward(r) \/ LaunchAsked(r)
                      \/ LaunchWait(r) \/ Woken(r)
                      \/ Collect(r) \/ CallbackPost(r) \/ TimerFires(r)
                      \/ unlockDiscovery(r)
                      \/ \E n \in Node : CallbackAdd(r, n)

Spec == Init /\ [][Next]_vars

\* The threads of a discovery and its timer are scheduled; nothing is assumed of
\* the other nodes, of the delivery of calls or of answers.
Fairness ==
    \A r \in Req :
        /\ WF_vars(LaunchForward(r) \/ LaunchAsked(r) \/ LaunchWait(r) \/ Woken(r)
                     \/ Collect(r))
        /\ WF_vars(TimerFires(r) \/ unlockDiscovery(r))

FairSpec == Spec /\ Fairness

-----------------------------------------------------------------------------
(* Properties.                                                             *)

\* The nodes in the results of a discovery.
Found(r) == {n \in Node : launch[r].res[n] > 0}

\* Every variable keeps its type; a semaphore in the map is never negative.
TypeOK ==
    /\ \A n \in Node : /\ node[n].up \in BOOLEAN /\ node[n].nbr \in Seq(Node)
                       /\ node[n].known \in Seq(Req) /\ Len(node[n].known) <= HistMax
                       /\ calls[n] \in [CallType -> Nat]
    /\ \A r \in Req : /\ launch[r].pc \in {"idle", "loop", "asked", "wait", "sleep",
                                           "collect", "done"}
                      /\ launch[r].res \in [Node -> Nat] /\ back[r] \in [Node -> Nat]
                      /\ posts[r] \in Nat /\ sem[r] \in Nat \cup {Null}
                      /\ timer[r] \in {"off", "run", "fired", "stopped"}
                      /\ unlock[r] \in BOOLEAN

\* Nodes within k hops of n.
Ball(n, k) ==
    LET ball[i \in Nat] == IF i = 0 THEN {n}
                           ELSE ball[i - 1] \cup UNION {Range(world.graph[m]) : m \in ball[i - 1]}
    IN  ball[k]

\* The results of a discovery are nodes within maxHops of its initiator, whatever
\* way the request took (the count of hops in addNodeToExplorationList).
WithinHops ==
    \A r \in Req : Hops[r] >= 0 =>
        Found(r) \subseteq Ball(Origin[r], Hops[r])

\* A node answers a discovery twice only after it dropped the request from its
\* bounded history (knownRequests and MAXREQTOSAVE).
OneAnswerPerNode ==
    \A r \in Req, n \in Node : launch[r].res[n] > 1 => <<n, r>> \in forgot

\* No request ever has more than one node on its way back, so every answer goes
\* directly to the initiator (POPWayback::insertNode, isLastNode).
DirectAnswer == \A q \in Travelling \cup {launch[r].q : r \in Req} : isLastNode(q.wb)

\* A discovery that waits for its first answer comes back empty only after its
\* timer fired: callbackResult adds an answer before it posts.
EmptyMeansTimeout ==
    \A r \in Req \ Waits :
        launch[r].pc \in {"collect", "done"} /\ Found(r) = {} => timer[r] = "fired"

\* The nodes of the grid.
Members == {n \in Node : world.graph[n] # <<>>}
AllUp == \A n \in Node : node[n].up
Launched == {r \in Req : launch[r].pc # "idle"}
Solo(r) == AllUp /\ Launched = {r} /\ \A n \in Node : node[n].regs = 0
Flooded(r) ==
    /\ launch[r].pc \notin {"idle", "loop"}
    /\ \A q \in Travelling : q.r # r

\* A discovery without a limit that runs alone has, when no copy of its request is
\* left, reached every node, and the end of an application every job manager: the
\* exploration list never suppresses the only copy for a node.
FloodComplete ==
    \A r \in Req : Solo(r) /\ Flooded(r) /\ Hops[r] = Unlimited =>
        /\ asked[r] = Members
        /\ r \in End => ended[r] = Members

\* What a discovery returns is right: every variable keeps its type, answers
\* come from within maxHops, once per node, directly, and none only after the
\* timer fired; and a flood that had the grid to itself missed nobody.
AnswersSound ==
    /\ TypeOK
    /\ WithinHops /\ OneAnswerPerNode /\ DirectAnswer /\ EmptyMeansTimeout
    /\ FloodComplete

Connected ==
    LET reach[i \in Nat] ==
            IF i = 0 THEN {Min(Members)}
            ELSE reach[i - 1] \cup {m \in Node : \E n \in reach[i - 1] : m \in Neighbors(n)}
    IN  reach[Cardinality(Node)] = Members

\* A discovery that runs alone cuts only edges the graph can spare: the edges over
\* which the nodes received the request first stay.  With registrations and ends
\* of applications meanwhile, and after several discoveries, that holds when the
\* lists have settled, provided no two discoveries met: two at once may cut two
\* edges of the same cycle and divide the grid.
SparesGraph ==
    /\ \A r \in Req : Solo(r) => Connected
    /\ AllUp /\ ~met /\ Settled => Connected

\* When nothing is under way and every process lives, two nodes have each other
\* equally often as neighbours: an edge is cut and added on both sides, also when
\* both sides cut it at once.
MutualWhenQuiet ==
    AllUp /\ Settled => \A n, m \in Node : Entries(n, m) = Entries(m, n)

\* The neighbour lists, which every discovery and every registration edits on both
\* sides by messages, describe one graph whenever nothing is under way, also
\* after discoveries at once; and it stays connected as long as discoveries do
\* not meet and nobody dies.
GraphKept == SparesGraph /\ MutualWhenQuiet

\* A discovery ends, whatever happens to the other nodes, to its messages and to
\* their answers, unless the process that runs it dies.
DiscoveryEnds ==
    \A r \in Req : launch[r].pc # "idle" ~> (launch[r].pc = "done" \/ ~node[Origin[r]].up)

=============================================================================
