----------------------------- MODULE MCCompiler -----------------------------
(* Classes, and parameters for Compiler. *)
EXTENDS Compiler

CONSTANT none

IntT == Std("int")
P(T, ref, const, in, out, size) ==
    [type |-> T, ref |-> ref, const |-> const, in |-> in, out |-> out, size |-> size]
In(T)       == P(T, FALSE, FALSE, FALSE, FALSE, 0)
InOut(T)    == P(T, TRUE, FALSE, FALSE, FALSE, 0)
OutOnly(T)  == P(T, TRUE, FALSE, FALSE, TRUE, 0)
InRef(T)    == P(T, TRUE, FALSE, TRUE, FALSE, 0)
ConstRef(T) == P(T, TRUE, TRUE, FALSE, FALSE, 0)
Array(T)    == P(T, FALSE, FALSE, FALSE, FALSE, 0)
Sized(T, in, out) == P(Ptr(T), FALSE, FALSE, in, out, 1)

\* First parameters, one of each direction, that can give the size of the second.
Firsts == <<In(IntT), InOut(IntT), OutOnly(IntT), ConstRef(IntT)>>
\* Second parameters: every kind of type and every direction.
Seconds == <<InOut(Std("bool")), InRef(Std("char")), InOut(Std("short")), InOut(Std("long")),
             OutOnly(Std("double")), InOut(Std("string")), Array(Arr(IntT, 2)),
             Array(Arr(Std("bool"), 5)), Array(Arr(Struct(<<Std("float"), IntT>>), 2)),
             InOut(Struct(<<Std("bool"), Arr(Std("char"), 5), Std("double")>>)),
             InOut(SeqClass(<<IntT, Std("string")>>, TRUE)), InOut(SeqClass(<<IntT>>, FALSE)),
             InOut(Vector(IntT)), OutOnly(Vector(Std("string"))), InOut(List(Std("char"))),
             InOut(Map(IntT, Std("string"))), InOut(ParClass), In(ParClass),
             In(Ptr(IntT)), Sized(IntT, TRUE, FALSE), Sized(IntT, FALSE, FALSE),
             Sized(IntT, FALSE, TRUE), Sized(Std("char"), FALSE, TRUE), In(Ptr(Ptr(IntT)))>>

Method(name, invoke, ret, params) ==
    [name |-> name, kind |-> "normal", public |-> TRUE, hidden |-> FALSE, virtual |-> FALSE,
     pure |-> FALSE, invoke |-> invoke, conc |-> FALSE, mutex |-> FALSE, ret |-> ret,
     retref |-> ret = ParClass, params |-> params]
Ctor(params) == [Method("ctor", "sync", Void, params) EXCEPT !.kind = "ctor"]

\* One method for every pair; the order of the two is exchanged for those
\* without a size.
Pairs ==
    LET n == Len(Seconds)
        Pair(k) == LET a == Firsts[((k - 1) \div n) + 1]
                       b == Seconds[((k - 1) % n) + 1]
                   IN  Method("pair", "auto", IF k % 2 = 0 THEN IntT ELSE Void,
                              IF b.size = 0 /\ (k \div n) % 2 = 0 THEN <<b, a>> ELSE <<a, b>>)
    IN  [k \in 1..Len(Firsts) * n |-> Pair(k)]

RunM == Method("run", "sync", IntT, <<In(IntT)>>)
MCClasses ==
    [Cat  |-> [name |-> <<75>>, uid |-> 1200, apoa |-> FALSE, bases |-> <<>>,
               members |-> <<Ctor(<<In(IntT)>>)>> \o Pairs],
     \* Base: a virtual method, a plain one; identifiers made from the names.
     Base |-> [name |-> <<66, 97>>, uid |-> 0, apoa |-> TRUE, bases |-> <<>>,
               members |-> <<Ctor(<<>>), [RunM EXCEPT !.virtual = TRUE],
                             Method("put", "async", Void, <<In(IntT)>>),
                             Method("bad", "async", IntT, <<InOut(IntT)>>),
                             [Method("own", "sync", IntT, <<>>) EXCEPT !.public = FALSE]>>],
     Leaf |-> [name |-> <<76, 98>>, uid |-> 0, apoa |-> TRUE,
               bases |-> <<[base |-> "Base", public |-> TRUE]>>,
               members |-> <<Ctor(<<>>), Method("get", "sync", IntT, <<OutOnly(IntT)>>),
                             [RunM EXCEPT !.virtual = TRUE]>>],
     \* Only upper case letters: the same identifier twice.
     TOP  |-> [name |-> <<84, 79, 80>>, uid |-> 0, apoa |-> FALSE, bases |-> <<>>,
               members |-> <<Ctor(<<>>), RunM, Method("put", "async", Void, <<In(IntT)>>)>>],
     SUB  |-> [name |-> <<83, 85, 66>>, uid |-> 0, apoa |-> FALSE,
               bases |-> <<[base |-> "TOP", public |-> TRUE]>>,
               members |-> <<Ctor(<<>>), Method("own", "sync", IntT, <<In(IntT)>>)>>],
     \* An abstract class and a class that defines its method as virtual.
     Abst |-> [name |-> <<97, 98>>, uid |-> 0, apoa |-> FALSE, bases |-> <<>>,
               members |-> <<Ctor(<<>>), [RunM EXCEPT !.virtual = TRUE, !.pure = TRUE]>>],
     Conc |-> [name |-> <<99, 99>>, uid |-> 0, apoa |-> FALSE,
               bases |-> <<[base |-> "Abst", public |-> TRUE]>>,
               members |-> <<Ctor(<<>>), [RunM EXCEPT !.virtual = TRUE],
                             Method("get", "sync", IntT, <<>>)>>]]
=============================================================================
