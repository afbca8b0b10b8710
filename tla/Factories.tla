---------------------------- MODULE Factories ----------------------------
(***************************************************************************)
(* The tables a process builds when it starts: the protocols it knows      *)
(* (pop_combox_factory), the encodings it knows (pop_buffer_factory_finder) *)
(* and the classes an executable contains (pop_broker_factory); and the    *)
(* matching of wildcards (pop_utils::MatchWildcard), which the code manager *)
(* uses for platforms and the interfaces for protocols.                    *)
(*                                                                         *)
(* A plugin is [handle, name, metric, ok]: the library dlopen gives, the   *)
(* protocol or encoding it announces, its metric in the map file, and      *)
(* whether it can be loaded.                                               *)
(***************************************************************************)
EXTENDS Integers, Sequences, FiniteSets, SequencesExt

CONSTANTS
    BuiltIn,        \* protocols of the library, in the order of registration
    MaxFactory      \* room for encodings

ASSUME FactoriesAssumption ==
    /\ BuiltIn \in Seq([name : STRING, metric : Int])
    /\ MaxFactory \in Nat \ {0}

Names(list) == {list[i].name : i \in DOMAIN list}

\* Mutant of Register: the comparison accepts equal metrics.
RegisterLoose(list, e) ==
    IF e.name \in Names(list) THEN list
    ELSE LET later == {i \in DOMAIN list : e.metric <= list[i].metric}
         IN IF later = {} THEN Append(list, e)
            ELSE InsertAt(list, CHOOSE i \in later : \A j \in later : i <= j, e)

\* pop_combox_factory::Register: a known name is refused; otherwise before
\* the first one with a larger metric.
Register(list, e) ==
    IF e.name \in Names(list) THEN list
    ELSE LET later == {i \in DOMAIN list : e.metric < list[i].metric}
         IN IF later = {} THEN Append(list, e)
            ELSE InsertAt(list, CHOOSE i \in later : \A j \in later : i <= j, e)

\* One plugin: loaded, and registered unless its library is already there.
AddProtocol(t, e) ==
    IF ~e.ok \/ e.handle \in t.handles THEN t
    ELSE [handles |-> t.handles \cup {e.handle},
          list    |-> Register(t.list, [name |-> e.name, metric |-> e.metric])]

\* The constructor of the factory.
Protocols(plugins) ==
    FoldLeft(AddProtocol,
             [handles |-> {}, list |-> FoldLeft(Register, <<>>, BuiltIn)],
             plugins).list

ProtocolNames(list) == [i \in DOMAIN list |-> list[i].name]

\* One encoding: while there is room, at the end of the array.
AddEncoding(arr, e) ==
    IF Len(arr) >= MaxFactory \/ ~e.ok
          \/ \E i \in DOMAIN arr : arr[i].handle = e.handle
    THEN arr
    ELSE Append(arr, [name |-> e.name, metric |-> e.metric, handle |-> e.handle])

\* The inner loop of the sort: the smallest of i..size moves to i.
BubblePass(arr, i) ==
    FoldLeft(LAMBDA a, k :
                LET j == Len(arr) - k + 1
                IN IF a[j].metric < a[j - 1].metric
                   THEN [a EXCEPT ![j] = a[j - 1], ![j - 1] = a[j]] ELSE a,
             arr, [k \in 1..(Len(arr) - i) |-> k])

\* The constructor of the finder: xdr, then the plugins, then the sort.
Encodings(plugins) ==
    LET arr == FoldLeft(AddEncoding,
                        <<[name |-> "xdr", metric |-> 0, handle |-> "none"]>>, plugins)
    IN FoldLeft(BubblePass, arr, [i \in 1..Len(arr) |-> i])

\* pop_broker_factory: the first registration of a class counts.
AddBroker(list, e) == IF \E i \in DOMAIN list : list[i] = e THEN list ELSE Append(list, e)
BrokerList(classes) == FoldLeft(AddBroker, <<>>, classes)
HasBroker(classes, c) == \E i \in DOMAIN BrokerList(classes) : BrokerList(classes)[i] = c

-----------------------------------------------------------------------------
(* Wildcards.  Texts are sequences of characters. *)

RECURSIVE MatchWildcard(_, _)
\* The equal prefix is skipped up to the first star; after the stars every
\* place is tried, from the left.
MatchWildcard(s, w) ==
    LET Same(i) == i <= Len(s) /\ i <= Len(w) /\ w[i] # "*" /\ w[i] \in {s[i], "?"}
        stop == CHOOSE i \in 1..(Len(s) + 1) :
                    ~Same(i) /\ \A j \in 1..(i - 1) : Same(j)
        ps == SubSeq(s, stop, Len(s))
        pw == SubSeq(w, stop, Len(w))
        nostar == CHOOSE i \in 1..(Len(pw) + 1) :
                    /\ i = Len(pw) + 1 \/ pw[i] # "*"
                    /\ \A j \in 1..(i - 1) : pw[j] = "*"
        rest == SubSeq(pw, nostar, Len(pw))
    IN IF s = w THEN TRUE
       ELSE IF s = <<>> \/ w = <<>> THEN FALSE
       ELSE IF pw = <<>> THEN ps = <<>>
       ELSE IF pw[1] # "*" THEN FALSE
       ELSE IF rest = <<>> THEN TRUE
       ELSE \E t \in DOMAIN ps :
               /\ rest[1] \in {ps[t], "?"}
               /\ MatchWildcard(SubSeq(ps, t + 1, Len(ps)), Tail(rest))

\* What a wildcard means: every character stands for itself, a question
\* mark for any one, a star for any number of them.
RECURSIVE Denotes(_, _)
Denotes(w, s) ==
    IF w = <<>> THEN s = <<>>
    ELSE IF w[1] = "*" THEN \E n \in 0..Len(s) : Denotes(Tail(w), SubSeq(s, n + 1, Len(s)))
    ELSE s # <<>> /\ w[1] \in {s[1], "?"} /\ Denotes(Tail(w), Tail(s))
=============================================================================
