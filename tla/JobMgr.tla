------------------------------- MODULE JobMgr -------------------------------
(***************************************************************************)
(* The job managers of a grid (services/lib/jobmgr.cc) while applications  *)
(* create parallel objects.                                                *)
(*                                                                         *)
(* A creation is one call of CreateObject on the job manager of its node.  *)
(* It reserves resources, first on that node and then on the nodes that a  *)
(* discovery found, starts the objects there and retries; on failure it    *)
(* cancels reservations and kills objects.  Each job manager runs its      *)
(* methods concurrently; a step is one block under its mutex, one message  *)
(* or one call to another process.                                         *)
(*                                                                         *)
(* The fitness of a reservation is abstracted to 0 (none), 1 (less than    *)
(* required) and 2 (at least what was required).  Bandwidth is never       *)
(* reserved and is left out.                                               *)
(***************************************************************************)
EXTENDS Integers, SequencesExt

CONSTANTS
    Nodes,      \* nodes; each has a job manager and a search node
    Creations,  \* calls of CreateObject
    Home,       \* [Creations -> Nodes]: the job manager that is called
    App,        \* [Creations -> STRING]: the application that creates
    HowMany,    \* [Creations -> Nat \ {0}]: number of objects
    Od,         \* [Creations -> object description], see OdType
    Total,      \* [Nodes -> [flops : Nat, mem : Nat]]
    Limit,      \* [Nodes -> Nat]: power one job may take
    MaxJobs,    \* configured maximum of jobs of a node
    MaxWall,    \* [Nodes -> Int]: configured walltime, -1 if none
    Responses,  \* sequences of nodes a discovery may return
    Mixes,      \* bound: the calls and the faults a behaviour may have
    CrashNodes, \* nodes whose job manager may crash by itself
    PsnNodes,   \* nodes whose search node may crash
    Retries,    \* attempts of a creation (3)
    EndApps,    \* applications whose end is announced
    IdMax,      \* reservation numbers wrap around after it (10^9)
    None        \* no node, no application

\* Failures of an execution, the death of processes, the end of applications.
Faults == {"nocode", "nocodemgr", "nosocket", "nofork", "noexec", "noanswer",
           "jobmgr", "search", "end"}

\* What an object description asks for; zero is "not specified".
OdType == [flops : Nat, minflops : Nat, mem : Nat, minmem : Nat,
           walltime : Nat, search : BOOLEAN]

ASSUME JobMgrAssumption ==
    /\ Home \in [Creations -> Nodes]
    /\ HowMany \in [Creations -> Nat \ {0}]
    /\ Od \in [Creations -> OdType]
    /\ Total \in [Nodes -> [flops : Nat, mem : Nat]]
    /\ \A n \in Nodes : Limit[n] \in 0 .. Total[n].flops
    /\ MaxJobs \in Nat /\ IdMax \in Nat \ {0} /\ Retries \in Nat
    /\ MaxWall \in [Nodes -> Int]
    /\ \A r \in Responses : IsInjective(r) /\ \A k \in DOMAIN r : r[k] \in Nodes
    /\ Mixes \subseteq [calls : SUBSET Creations, faults : SUBSET Faults]
    /\ None \notin Nodes

VARIABLES
    jm,    \* [Nodes -> job manager]
    psn,   \* [Nodes -> what the node's search node advertises]
    cr,    \* [Creations -> activation of CreateObject]
    mail,  \* [Creations -> [Nodes -> Seq]]: CancelReservation calls under way
    ended, \* pairs <<application, node>> for which ApplicationEnd was executed
    may    \* the mix of this behaviour

vars == <<jm, psn, cr, mail, ended, may>>

-----------------------------------------------------------------------------
NoRoom == [node |-> None, id |-> 0, fit |-> 0]
NoSlots(c) == [s \in 1 .. HowMany[c] |-> NoRoom]
NoGroup == [node |-> None, ids |-> <<>>]

Init ==
    /\ jm = [n \in Nodes |->
               [up |-> TRUE, hung |-> FALSE, jobs |-> <<>>, avail |-> Total[n],
                counter |-> 1, pauses |-> <<>>]]
    /\ psn = [n \in Nodes |-> [up |-> TRUE, power |-> Total[n].flops,
                               mem |-> Total[n].mem, jobs |-> 0]]
    /\ cr = [c \in Creations |->
               [pc |-> "idle", count |-> 0, retry |-> Retries, slots |-> NoSlots(c),
                i |-> 0, resp |-> <<>>, ni |-> 1, failed |-> 0,
                group |-> NoGroup, ret |-> "none", objs |-> {}]]
    /\ mail = [c \in Creations |-> [n \in Nodes |-> <<>>]]
    /\ ended = {}
    /\ may \in Mixes

\* The mutex of n's job manager can be taken.  A thread that loops while it
\* holds it (hung) keeps every other one out.
CanLock(n) == jm[n].up /\ ~jm[n].hung

\* The process that executes creation c is alive and c is at step p.
At(c, p) == cr[c].pc = p /\ jm[Home[c]].up

\* ExecObj, called by c, is under way on the node of the group.  It goes on
\* there when its caller dies.
Executing(c) == cr[c].pc \in {"verify", "launch", "receive"}

\* Slots that still need a resource.
Open(c) == cr[c].count + 1 .. HowMany[c]

-----------------------------------------------------------------------------
(* Reservations *)

Least(a, b) == IF a < b THEN a ELSE b

\* Power one more job can get on n.
Cap(n) == Least(jm[n].avail.flops, Limit[n])

PowerFit(n, od) == CASE od.flops = 0 \/ Cap(n) >= od.flops -> 2
                     [] Cap(n) = 0                         -> 0
                     [] OTHER                              -> 1

\* More memory than required lowers the fitness below one as well.
MemFit(n, od) == CASE od.mem = 0 \/ jm[n].avail.mem = od.mem -> 2
                   [] jm[n].avail.mem = 0                    -> 0
                   [] OTHER                                  -> 1

Fit(n, od) == Least(PowerFit(n, od), MemFit(n, od))

\* pop_od::IsEmpty: nothing is asked for (0 is "not set"); then no time is tested
\* either.
IsEmpty(od) ==
    \A f \in {"flops", "minflops", "mem", "minmem", "walltime"} : od[f] = 0

\* The early returns that Reserve and MatchAndReserve share.
Refused(n, od) ==
    \/ Len(jm[n].jobs) >= MaxJobs
    \/ od.mem > 0 /\ od.minmem > jm[n].avail.mem
    \/ ~IsEmpty(od) /\ MaxWall[n] >= 0 /\ \/ od.walltime = 0 /\ MaxWall[n] > 0
                                          \/ od.walltime > MaxWall[n]

\* Only the local match looks at the least power the object needs.
NoMatch(n, od) ==
    Refused(n, od) \/ (od.flops > 0 /\ od.minflops > Cap(n))

\* popAppId is set on the local copy after the job was stored: what is
\* stored has none.  own is no field of the code; properties use it.
NewJob(n, c) ==
    [id |-> jm[n].counter, flops |-> Least(Od[c].flops, Cap(n)),
     mem |-> Least(Od[c].mem, jm[n].avail.mem), popAppId |-> None,
     contact |-> FALSE, own |-> c]

Store(m, job) == [m EXCEPT !.jobs = Append(@, job)]

Charge(m, job) == [m EXCEPT !.avail.flops = @ - job.flops,
                            !.avail.mem = @ - job.mem,
                            !.counter = (@ % IdMax) + 1]

addJob(p, job) == [p EXCEPT !.power = @ - job.flops, !.mem = @ - job.mem,
                            !.jobs = @ + 1]

removeJob(p, flops, mem, nb) == [p EXCEPT !.power = flops, !.mem = mem,
                                          !.jobs = @ - nb]

-----------------------------------------------------------------------------
(***************************************************************************)
(* CancelReservation erases from a vector while it iterates over it.  Its  *)
(* iterator was moved on before and is not corrected.  At element q the    *)
(* loop over the numbers erases q and, because the reference then names    *)
(* the element that moved up, also the following ones whose numbers come   *)
(* later in the request (Run).  The element that then is in the place of q *)
(* is skipped.  If there is none, the iterator is behind the end and the   *)
(* loop reads on until the process dies (PastEnd).                         *)
(***************************************************************************)
Run(jobs, ids, q) ==
    Max({r \in 0 .. Least(Len(ids), Len(jobs) - q + 1) :
           \E f \in [1 .. r -> DOMAIN ids] :
              /\ \A k \in 1 .. r : /\ jobs[q + k - 1].id = ids[f[k]]
                                   /\ ~jobs[q + k - 1].contact
              /\ \A k \in 2 .. r : f[k - 1] < f[k]})

Visited(jobs, ids) ==
    LET v[q \in 1 .. Len(jobs)] ==
          q = 1 \/ \E x \in 1 .. q - 1 : v[x] /\ q = x + Run(jobs, ids, x) + 1
    IN  {q \in 1 .. Len(jobs) : v[q]}

Erased(jobs, ids) ==
    UNION {q .. q + Run(jobs, ids, q) - 1 : q \in Visited(jobs, ids)}

PastEnd(jobs, ids) ==
    \E q \in Visited(jobs, ids) :
        Run(jobs, ids, q) > 0 /\ q + Run(jobs, ids, q) = Len(jobs) + 1

\* The elements of s at the positions in P, in their order.
Picked(s, P) ==
    FoldLeftDomain(LAMBDA t, k : IF k \in P THEN Append(t, s[k]) ELSE t, <<>>, s)

\* Mutant: the iterator that was moved on is erased, not the old one.
KeepWrong(jobs, gone) == Picked(jobs, DOMAIN jobs \ {x + 1 : x \in gone})

\* The jobs that are not erased.
Keep(jobs, gone) == Picked(jobs, DOMAIN jobs \ gone)

\* The reference t after the erasure of element x: the next element, or what
\* is left in the memory of x.
Moved(jobs, x) == IF x < Len(jobs) THEN jobs[x + 1] ELSE jobs[x]

\* Mutant: the job is erased before its resources are given back.
GiveBackMoved(avail, jobs, gone) ==
    [flops |-> FoldSet(LAMBDA x, a : a + Moved(jobs, x).flops, avail.flops, gone),
     mem |-> FoldSet(LAMBDA x, a : a + Moved(jobs, x).mem, avail.mem, gone)]

GiveBack(avail, jobs, gone) ==
    [flops |-> FoldSet(LAMBDA x, a : a + jobs[x].flops, avail.flops, gone),
     mem |-> FoldSet(LAMBDA x, a : a + jobs[x].mem, avail.mem, gone)]

\* CancelReservation with job manager m and search node p.  A search node
\* that cannot be reached throws after the first erasure.
CancelFrom(m, p, ids) ==
    LET all == Erased(m.jobs, ids)
        gone == IF p.up THEN all ELSE {x \in all : \A y \in all : x <= y}
        t == Moved(m.jobs, Max(gone))
    IN  [m |-> [m EXCEPT !.up = ~p.up \/ ~PastEnd(m.jobs, ids),
                         !.jobs = Keep(@, gone),
                         !.avail = GiveBack(@, m.jobs, gone)],
         p |-> IF p.up /\ gone # {}
               THEN removeJob(p, t.flops, t.mem, Cardinality(gone)) ELSE p,
         thrown |-> ~p.up /\ gone # {}]

Pause(m, a) == [m EXCEPT !.pauses = Append(@, [app |-> a, over |-> FALSE])]

-----------------------------------------------------------------------------
(* CreateObject: the attempts *)

CreateObject(c) ==
    /\ At(c, "idle") /\ c \in may.calls
    /\ cr' = [cr EXCEPT ![c].pc = "loop"]
    /\ UNCHANGED <<jm, psn, mail, ended, may>>

\* The head of the retry loop; taking the number of the request needs the
\* mutex.  The number is fresh, so AddRequest accepts it.
Attempt(c) ==
    /\ At(c, "loop")
    /\ cr[c].count < HowMany[c] /\ cr[c].retry > 0
    /\ CanLock(Home[c])
    /\ cr' = [cr EXCEPT ![c].pc = IF Od[c].search THEN "discover" ELSE "pause",
                        ![c].slots = NoSlots(c)]
    /\ UNCHANGED <<jm, psn, mail, ended, may>>

\* CheckPauseList: entries expire in the order they were added.  The scan
\* erases the expired ones; at an entry of another application it neither
\* returns nor moves on.
CheckPauseList(c) ==
    LET n == Home[c]
        left == SelectSeq(jm[n].pauses, LAMBDA e : ~e.over)
    IN  /\ At(c, "pause") /\ CanLock(n)
        /\ jm' = [jm EXCEPT ![n].pauses = left,
                            ![n].hung = left # <<>>
                                        /\ Head(left).app \notin {None, App[c]}]
        /\ cr' = [cr EXCEPT ![c].pc =
                    CASE left = <<>>                           -> "code"
                      [] left # <<>> /\ jm'[n].hung            -> "pause"
                      [] left # <<>> /\ ~jm'[n].hung           -> "discover"]
        /\ UNCHANGED <<psn, mail, ended, may>>

\* QueryCode before the local match.
LocalCode(c) ==
    /\ At(c, "code")
    /\ \/ cr' = [cr EXCEPT ![c].pc = "match", ![c].i = HowMany[c]]
       \/ /\ "nocode" \in may.faults
          /\ cr' = [cr EXCEPT ![c].pc = "discover"]
       \/ /\ "nocodemgr" \in may.faults
          /\ cr' = [cr EXCEPT ![c].pc = "finish", ![c].ret = "NO_RESOURCE"]
    /\ UNCHANGED <<jm, psn, mail, ended, may>>

\* One turn of the local match: slots are filled from the last to the first
\* until one cannot be.  The attempt needs no discovery only if every slot
\* got what it asks for.
MatchAndReserve(c) ==
    LET n == Home[c]
        i == cr[c].i
        got == ~NoMatch(n, Od[c])
        slots == IF got THEN [cr[c].slots EXCEPT ![i] =
                                [node |-> n, id |-> jm[n].counter,
                                 fit |-> Fit(n, Od[c])]]
                 ELSE cr[c].slots
        job == NewJob(n, c)
    IN  /\ At(c, "match") /\ CanLock(n)
        /\ jm' = IF got THEN [jm EXCEPT ![n] = Charge(Store(@, job), job)] ELSE jm
        /\ cr' = [cr EXCEPT
                    ![c].slots = slots, ![c].i = i - 1,
                    ![c].pc = IF got /\ i - 1 \in Open(c) THEN "match"
                              ELSE IF \A s \in Open(c) : slots[s].fit = 2
                                   THEN "choose" ELSE "discover"]
        /\ UNCHANGED <<psn, mail, ended, may>>

\* AllocResource returns false: what it has reserved so far stays reserved.
NoResource(c) ==
    cr' = [cr EXCEPT ![c].pc = "finish", ![c].ret = "NO_RESOURCE",
                     ![c].resp = <<>>, ![c].ni = 1, ![c].failed = 0]

\* An exception leaves AllocResource and reaches the handler of CreateObject.
Throw(c) ==
    cr' = [cr EXCEPT ![c].pc = "caught", ![c].resp = <<>>, ![c].ni = 1,
                     ![c].failed = 0]

\* The discovery, through the search node of the own node.
Discover(c) ==
    /\ At(c, "discover")
    /\ \/ ~psn[Home[c]].up /\ Throw(c)
       \/ psn[Home[c]].up /\ <<>> \in Responses /\ Throw(c)
       \/ /\ psn[Home[c]].up
          /\ \E r \in Responses \ {<<>>} :
                cr' = [cr EXCEPT ![c].pc = "contact", ![c].resp = r,
                                 ![c].i = cr[c].count + 1]
    /\ UNCHANGED <<jm, psn, mail, ended, may>>

Target(c) == cr[c].resp[cr[c].ni]

\* The job manager is asked for at the search node that answered.
Contact(c) ==
    /\ At(c, "contact")
    /\ IF psn[Target(c)].up /\ jm[Target(c)].up
       THEN cr' = [cr EXCEPT ![c].pc = "reserve"]
       ELSE Throw(c)
    /\ UNCHANGED <<jm, psn, mail, ended, may>>

\* The next response, round robin.
NextNode(c) == (cr[c].ni % Len(cr[c].resp)) + 1

\* Mutant: failed reservations are not counted.
UnreservedForever(c) ==
    cr' = [cr EXCEPT ![c].pc = "contact", ![c].ni = NextNode(c)]

\* A reservation failed: try the next response until as many failed as there
\* are responses.
Unreserved(c) ==
    IF cr[c].failed + 1 = Len(cr[c].resp) THEN NoResource(c)
    ELSE cr' = [cr EXCEPT ![c].pc = "contact", ![c].failed = @ + 1,
                          ![c].ni = NextNode(c)]

ReserveRefused(c) ==
    /\ At(c, "reserve") /\ CanLock(Target(c)) /\ Refused(Target(c), Od[c])
    /\ Unreserved(c)
    /\ UNCHANGED <<jm, psn, mail, ended, may>>

\* The search node throws when the job is already stored; nothing else of
\* the reservation is done.
ReserveUnannounced(c) ==
    LET n == Target(c) IN
    /\ At(c, "reserve") /\ CanLock(n) /\ ~Refused(n, Od[c]) /\ ~psn[n].up
    /\ jm' = [jm EXCEPT ![n] = Store(@, NewJob(n, c))]
    /\ Unreserved(c)
    /\ UNCHANGED <<psn, mail, ended, may>>

Reserve(c) ==
    LET n == Target(c)
        i == cr[c].i
        job == NewJob(n, c)
        last == i = HowMany[c]
    IN  /\ At(c, "reserve") /\ CanLock(n) /\ ~Refused(n, Od[c]) /\ psn[n].up
        /\ jm' = [jm EXCEPT ![n] = Charge(Store(@, job), job)]
        /\ psn' = [psn EXCEPT ![n] = addJob(@, job)]
        /\ cr' = [cr EXCEPT
                    ![c].slots[i] = [node |-> n, id |-> job.id,
                                     fit |-> Fit(n, Od[c])],
                    ![c].pc = IF last THEN "choose" ELSE "contact",
                    ![c].i = IF last THEN 0 ELSE i + 1,
                    ![c].resp = IF last THEN <<>> ELSE @,
                    ![c].ni = IF last THEN 1 ELSE NextNode(c),
                    ![c].failed = IF last THEN 0 ELSE @]
        /\ UNCHANGED <<mail, ended, may>>

ReserveLost(c) ==
    /\ At(c, "reserve") /\ ~jm[Target(c)].up
    /\ Throw(c)
    /\ UNCHANGED <<jm, psn, mail, ended, may>>

\* The slots of c on node n that are to be cancelled, one call for each.
ToCancel(c, n) ==
    LET slots == cr[c].slots IN
    Picked([s \in DOMAIN slots |-> <<slots[s].id>>],
           {s \in Open(c) : slots[s].node = n /\ slots[s].fit > 0})

\* The reservations are complete: go on, or cancel those that are usable
\* when one is not.
Choose(c) ==
    LET usable == \A s \in Open(c) : cr[c].slots[s].fit > 0
    IN  /\ At(c, "choose")
        /\ cr' = IF usable
                 THEN [cr EXCEPT ![c].pc = "exec", ![c].i = cr[c].count + 1]
                 ELSE [cr EXCEPT ![c].pc = "finish", ![c].ret = "NO_RESOURCE",
                                 ![c].slots = NoSlots(c), ![c].i = 0]
        /\ mail' = IF usable THEN mail
                   ELSE [mail EXCEPT ![c] = [n \in Nodes |->
                           IF jm[n].up THEN @[n] \o ToCancel(c, n) ELSE @[n]]]
        /\ UNCHANGED <<jm, psn, ended, may>>

-----------------------------------------------------------------------------
(* CreateObject: the execution *)

\* Slots from i on whose job manager was not called yet.
Pending(c) == {s \in cr[c].i .. HowMany[c] : cr[c].slots[s].node # None}

\* The slots of the node of the next pending slot form one call of ExecObj.
ExecGroup(c) ==
    LET s == CHOOSE x \in Pending(c) : \A y \in Pending(c) : x <= y
        n == cr[c].slots[s].node
        same == {x \in Pending(c) : cr[c].slots[x].node = n}
    IN  /\ At(c, "exec") /\ Pending(c) # {}
        /\ cr' = IF jm[n].up
                 THEN [cr EXCEPT
                         ![c].pc = "verify",
                         ![c].group = [node |-> n, ids |->
                             Picked([x \in DOMAIN cr[c].slots |-> cr[c].slots[x].id], same)],
                         ![c].slots = [x \in DOMAIN @ |->
                             IF x >= s /\ @[x].node = n THEN NoRoom ELSE @[x]]]
                 ELSE [cr EXCEPT ![c].slots[s] = NoRoom]
        /\ UNCHANGED <<jm, psn, mail, ended, may>>

\* The end of the body of the retry loop.
ExecEnd(c) ==
    /\ At(c, "exec") /\ Pending(c) = {}
    /\ cr' = [cr EXCEPT ![c].pc = "loop", ![c].retry = @ - 1, ![c].i = 0,
                        ![c].slots = NoSlots(c)]
    /\ UNCHANGED <<jm, psn, mail, ended, may>>

Ids(n) == {jm[n].jobs[k].id : k \in DOMAIN jm[n].jobs}

\* ExecObj looks all reservations up first; it reads the application of the
\* one it found before it tests whether it found one.
ExecVerify(c) ==
    LET g == cr[c].group IN
    /\ cr[c].pc = "verify" /\ CanLock(g.node)
    /\ IF \A k \in DOMAIN g.ids : g.ids[k] \in Ids(g.node)
       THEN /\ cr' = [cr EXCEPT ![c].pc = "launch"]
            /\ UNCHANGED jm
       ELSE /\ jm' = [jm EXCEPT ![g.node].up = FALSE]
            /\ UNCHANGED cr
    /\ UNCHANGED <<psn, mail, ended, may>>

\* ExecObj fails with the job manager in state m: it cancels the reservations
\* itself, and CreateObject, if it gets an answer, asks for it again.  The
\* code returned, often errno, is taken to be one that is not zero.
ExecFail(c, m) ==
    LET g == cr[c].group
        r == CancelFrom(m, psn[g.node], g.ids)
    IN  /\ jm' = [jm EXCEPT ![g.node] = r.m]
        /\ psn' = [psn EXCEPT ![g.node] = r.p]
        /\ mail' = IF r.m.up /\ ~r.thrown /\ jm[Home[c]].up
                   THEN [mail EXCEPT ![c][g.node] = Append(@, g.ids)] ELSE mail
        /\ cr' = [cr EXCEPT ![c].pc = "exec", ![c].group = NoGroup, ![c].ni = 1]
        /\ UNCHANGED <<ended, may>>

\* QueryCode, the callback socket and fork.  Cancelling inside the try block
\* of QueryCode is repeated by its handler when it throws.
ExecLaunch(c) ==
    LET n == cr[c].group.node IN
    /\ cr[c].pc = "launch" /\ jm[n].up
    /\ \/ /\ cr' = [cr EXCEPT ![c].pc = "receive", ![c].ni = 1]
          /\ UNCHANGED <<jm, psn, mail, ended, may>>
       \/ /\ "nocode" \in may.faults /\ CanLock(n)
          /\ LET r == CancelFrom(jm[n], psn[n], cr[c].group.ids)
             IN  ExecFail(c, IF r.thrown THEN r.m ELSE jm[n])
       \/ /\ {"nocodemgr", "nosocket"} \cap may.faults # {} /\ CanLock(n)
          /\ ExecFail(c, jm[n])
       \/ /\ "nofork" \in may.faults /\ CanLock(n)
          /\ ExecFail(c, Pause(Pause(jm[n], None), App[c]))
       \/ /\ "noexec" \in may.faults /\ CanLock(n)
          /\ ExecFail(c, Pause(jm[n], App[c]))

\* ValidateReservation: the first job with that number gets the contact.
Validate(m, id) ==
    LET k == CHOOSE x \in DOMAIN m.jobs :
               /\ m.jobs[x].id = id
               /\ \A y \in 1 .. x - 1 : m.jobs[y].id # id
    IN  [m EXCEPT !.jobs[k].contact = TRUE]

\* Mutant: the call succeeds with the first object that reports.
ExecReceiveFirst(c) ==
    LET g == cr[c].group IN
    /\ cr[c].pc = "receive" /\ CanLock(g.node) /\ g.ids[1] \in Ids(g.node)
    /\ jm' = [jm EXCEPT ![g.node] = Validate(@, g.ids[1])]
    /\ cr' = [cr EXCEPT ![c].pc = "exec", ![c].ni = 1, ![c].group = NoGroup,
                        ![c].count = @ + Len(g.ids),
                        ![c].objs = @ \cup {[node |-> g.node, id |-> g.ids[x]] :
                                            x \in DOMAIN g.ids}]
    /\ UNCHANGED <<psn, mail, ended, may>>

\* The objects of one call run in one process and report one after the
\* other; the call succeeds with the last of them.
ExecReceive(c) ==
    LET g == cr[c].group
        n == g.node
        k == cr[c].ni
        objs == {[node |-> n, id |-> g.ids[x]] : x \in DOMAIN g.ids}
    IN  /\ cr[c].pc = "receive" /\ CanLock(n)
        /\ \/ IF g.ids[k] \in Ids(n)
              THEN /\ jm' = [jm EXCEPT ![n] = Validate(@, g.ids[k])]
                   /\ cr' = IF k < Len(g.ids) THEN [cr EXCEPT ![c].ni = @ + 1]
                            ELSE [cr EXCEPT ![c].pc = "exec", ![c].ni = 1,
                                            ![c].group = NoGroup,
                                            ![c].count = @ + Len(g.ids),
                                            ![c].objs = @ \cup objs]
                   /\ UNCHANGED <<psn, mail, ended, may>>
              ELSE ExecFail(c, jm[n])
           \/ "noanswer" \in may.faults /\ ExecFail(c, Pause(jm[n], App[c]))

\* The job manager that executes dies: an exception, caught in the loop.
ExecLost(c) ==
    /\ Executing(c) /\ ~jm[cr[c].group.node].up
    /\ cr' = [cr EXCEPT ![c].pc = "exec", ![c].group = NoGroup, ![c].ni = 1]
    /\ UNCHANGED <<jm, psn, mail, ended, may>>

-----------------------------------------------------------------------------
(* CreateObject: the end *)

\* The handler: pause the application on this node.
CreateCaught(c) ==
    /\ At(c, "caught") /\ CanLock(Home[c])
    /\ jm' = [jm EXCEPT ![Home[c]] = Pause(@, App[c])]
    /\ cr' = [cr EXCEPT ![c].pc = "finish", ![c].ret = "JOBSERVICE_FAIL"]
    /\ UNCHANGED <<psn, mail, ended, may>>

\* All objects, or none: those that were started are killed.
CreateReturn(c) ==
    /\ At(c, "finish") \/ (At(c, "loop") /\ (\/ cr[c].count >= HowMany[c]
                                             \/ cr[c].retry = 0))
    /\ cr' = [cr EXCEPT ![c].pc = "done", ![c].slots = NoSlots(c), ![c].i = 0,
                ![c].ret = CASE cr[c].count >= HowMany[c] -> "ok"
                             [] cr[c].count < HowMany[c] /\ @ = "none"
                                  -> "EXEC_FAIL"
                             [] OTHER -> @,
                ![c].objs = IF cr[c].count >= HowMany[c] THEN @ ELSE {}]
    /\ UNCHANGED <<jm, psn, mail, ended, may>>

\* The job manager that creates dies: nobody goes on with c.
CreateLost(c) ==
    /\ cr[c].pc \notin {"idle", "done", "lost"} /\ ~Executing(c)
    /\ ~jm[Home[c]].up
    /\ cr' = [cr EXCEPT ![c].pc = "lost"]
    /\ UNCHANGED <<jm, psn, mail, ended, may>>

-----------------------------------------------------------------------------
(* The job managers by themselves *)

\* An asynchronous CancelReservation is executed.
CancelReservation(c, n) ==
    LET r == CancelFrom(jm[n], psn[n], Head(mail[c][n])) IN
    /\ mail[c][n] # <<>> /\ CanLock(n)
    /\ mail' = [mail EXCEPT ![c][n] = Tail(@)]
    /\ jm' = [jm EXCEPT ![n] = r.m]
    /\ psn' = [psn EXCEPT ![n] = r.p]
    /\ UNCHANGED <<cr, ended, may>>

\* Calls to a dead job manager get lost.
LoseMail(c, n) ==
    /\ mail[c][n] # <<>> /\ ~jm[n].up
    /\ mail' = [mail EXCEPT ![c][n] = <<>>]
    /\ UNCHANGED <<jm, psn, cr, ended, may>>

\* Time passes: the oldest pause is over.
PauseOver(n) ==
    LET k == CHOOSE x \in DOMAIN jm[n].pauses :
               /\ ~jm[n].pauses[x].over
               /\ \A y \in 1 .. x - 1 : jm[n].pauses[y].over
    IN  /\ jm[n].up
        /\ \E x \in DOMAIN jm[n].pauses : ~jm[n].pauses[x].over
        /\ jm' = [jm EXCEPT ![n].pauses[k].over = TRUE]
        /\ UNCHANGED <<psn, cr, mail, ended, may>>

\* The end of application a is announced to node n.
ApplicationEnd(a, n) ==
    LET Of(j) == j.popAppId = a
        gone == SelectSeq(jm[n].jobs, Of)
        m == [jm[n] EXCEPT
                !.jobs = SelectSeq(@, LAMBDA j : ~Of(j)),
                !.avail.flops = FoldLeft(LAMBDA x, j : x + j.flops, @, gone),
                !.avail.mem = FoldLeft(LAMBDA x, j : x + j.mem, @, gone)]
    IN  /\ "end" \in may.faults /\ CanLock(n) /\ <<a, n>> \notin ended
        /\ \A c \in may.calls : App[c] = a => cr[c].pc \in {"done", "lost"}
        /\ ended' = ended \cup {<<a, n>>}
        /\ jm' = [jm EXCEPT ![n] = m]
        /\ psn' = IF gone # <<>> /\ psn[n].up
                  THEN [psn EXCEPT ![n] = removeJob(@, m.avail.flops, m.avail.mem,
                                                    Len(gone))]
                  ELSE psn
        /\ UNCHANGED <<cr, mail, may>>

\* Processes die.
JobMgrDies(n) ==
    /\ n \in CrashNodes /\ "jobmgr" \in may.faults /\ jm[n].up
    /\ jm' = [jm EXCEPT ![n].up = FALSE]
    /\ UNCHANGED <<psn, cr, mail, ended, may>>

SearchNodeDies(n) ==
    /\ n \in PsnNodes /\ "search" \in may.faults /\ psn[n].up
    /\ psn' = [psn EXCEPT ![n].up = FALSE]
    /\ UNCHANGED <<jm, cr, mail, ended, may>>

-----------------------------------------------------------------------------
\* The steps of creation c after the call.
Step(c) ==
    \/ Attempt(c) \/ CheckPauseList(c) \/ LocalCode(c) \/ MatchAndReserve(c)
    \/ Discover(c) \/ Contact(c) \/ ReserveRefused(c) \/ ReserveUnannounced(c)
    \/ Reserve(c) \/ ReserveLost(c) \/ Choose(c)
    \/ ExecGroup(c) \/ ExecEnd(c) \/ ExecVerify(c) \/ ExecLaunch(c)
    \/ ExecReceive(c) \/ ExecLost(c)
    \/ CreateCaught(c) \/ CreateReturn(c) \/ CreateLost(c)

Next ==
    \/ \E c \in Creations : CreateObject(c) \/ Step(c)
    \/ \E c \in Creations, n \in Nodes : CancelReservation(c, n) \/ LoseMail(c, n)
    \/ \E n \in Nodes : PauseOver(n) \/ JobMgrDies(n) \/ SearchNodeDies(n)
    \/ \E a \in EndApps, n \in Nodes : ApplicationEnd(a, n)

Spec == Init /\ [][Next]_vars

\* Threads that can run do, and asynchronous calls are executed.
Fairness ==
    /\ \A c \in Creations : WF_vars(Step(c))
    /\ \A n \in Nodes : WF_vars(\E c \in Creations : CancelReservation(c, n))
    /\ WF_vars(\E n \in Nodes : PauseOver(n))

FairSpec == Spec /\ Fairness

-----------------------------------------------------------------------------
(* Properties *)

Jobs(n) == {jm[n].jobs[k] : k \in DOMAIN jm[n].jobs}

Job == [id : 1 .. IdMax, flops : Nat, mem : Nat, popAppId : {None},
        contact : BOOLEAN, own : Creations]

\* Every variable keeps its type; the resources a job manager believes to
\* have (available) never become negative.
TypeOK ==
    /\ \A n \in Nodes :
         /\ jm[n].up \in BOOLEAN /\ jm[n].hung \in BOOLEAN
         /\ Jobs(n) \subseteq Job
         /\ jm[n].avail.flops \in Nat /\ jm[n].avail.mem \in Nat
         /\ jm[n].counter \in 1 .. IdMax
         /\ psn[n].power \in Int /\ psn[n].mem \in Int /\ psn[n].jobs \in Int
    /\ \A c \in Creations :
         /\ cr[c].count \in 0 .. HowMany[c] /\ cr[c].retry \in 0 .. Retries
         /\ cr[c].i \in 0 .. HowMany[c] + 1
         /\ \A s \in 1 .. HowMany[c] :
              cr[c].slots[s] \in [node : Nodes \cup {None}, id : 0 .. IdMax,
                                  fit : 0 .. 2]
         /\ cr[c].failed \in 0 .. Len(cr[c].resp)
    /\ ended \subseteq EndApps \X Nodes /\ may \in Mixes

\* What a job manager has available and what its jobs hold is always the
\* total, whatever Reserve, MatchAndReserve and the cancellations of several
\* creations do in between and even when CancelReservation skips elements.
\* Once the search node has died, Reserve leaves entries nobody paid for.
ResourceConservation ==
    TypeOK /\ \A n \in Nodes : jm[n].up /\ psn[n].up =>
        /\ FoldLeft(LAMBDA x, j : x + j.flops, jm[n].avail.flops, jm[n].jobs)
             = Total[n].flops
        /\ FoldLeft(LAMBDA x, j : x + j.mem, jm[n].avail.mem, jm[n].jobs)
             = Total[n].mem

\* ExecObj reads the reservation it looks up before it tests the pointer: the
\* reservations of a creation exist from the time it got them until it gave
\* them to ExecObj and ExecObj is done with them.
ReservationHeld ==
    \A c \in Creations :
        /\ Executing(c) /\ jm[cr[c].group.node].up =>
             \A k \in DOMAIN cr[c].group.ids :
                 cr[c].group.ids[k] \in Ids(cr[c].group.node)
        /\ At(c, "exec") =>
             \A s \in Pending(c) :
                 jm[cr[c].slots[s].node].up =>
                     cr[c].slots[s].id \in Ids(cr[c].slots[s].node)

\* CreateObject returns 0 only with as many objects as it was asked for, each
\* of them entered as running by the job manager that started it.
SuccessComplete ==
    \A c \in Creations : cr[c].pc = "done" /\ cr[c].ret = "ok" =>
        /\ Cardinality(cr[c].objs) = HowMany[c]
        /\ \A o \in cr[c].objs : jm[o.node].up =>
             \E j \in Jobs(o.node) : j.id = o.id /\ j.contact

\* Calls of CreateObject return: there is always a later time when none is
\* under way, unless its job manager died or a job manager loops in
\* CheckPauseList.  A creation is called once and done for good, so none can
\* hide behind the others.
CreationReturns ==
    []<>(\/ \A c \in Creations : cr[c].pc \in {"idle", "done", "lost"}
         \/ \E n \in Nodes : jm[n].hung)
=============================================================================
