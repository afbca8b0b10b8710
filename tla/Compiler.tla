------------------------------ MODULE Compiler ------------------------------
(***************************************************************************)
(* The code the compiler generates for a parallel class (parser/class.cc,  *)
(* parser/classmember.cc and the types of parser/type*.cc): which members  *)
(* get a stub and a wrapper, how the stub of the interface and the wrapper *)
(* of the broker marshal the parameters, and how the generated Invoke      *)
(* finds the wrapper of a request.                                         *)
(*                                                                         *)
(* A behavior is one call of a program on an object: the stub marshals and *)
(* sends, the broker serves, the stub receives.  How calls of several      *)
(* threads share an interface is the subject of Interface; scheduling of     *)
(* requests that of Broker.  Parameters with a marshalling procedure given *)
(* by the user are not modelled.                                           *)
(***************************************************************************)
EXTENDS Buffer, FiniteSets

CONSTANTS
    Classes,    \* Classes[c]: the declaration of parallel class c
    Objects,    \* the classes whose objects are called
    Used,       \* the encodings considered
    None

ASSUME CompilerAssumption ==
    /\ Objects \subseteq DOMAIN Classes
    /\ Used \subseteq Encodings

-----------------------------------------------------------------------------
(* Data types. *)

Std(t) == [k |-> "std", t |-> t]
Ptr(T) == [k |-> "ptr", of |-> T]
Arr(T, n) == [k |-> "array", of |-> T, card |-> n]
Struct(F) == [k |-> "struct", fields |-> F]
SeqClass(F, derived) == [k |-> "seqclass", fields |-> F, base |-> derived]
Vector(T) == [k |-> "vector", of |-> T]
List(T) == [k |-> "list", of |-> T]
Map(K, T) == [k |-> "map", key |-> K, of |-> T]
ParClass == [k |-> "parclass"]
Void == [k |-> "std", t |-> "void"]

IsStd(T) == T.k = "std"
Each(n) == [i \in 1..n |-> i]
\* n elements read from memory that holds v.
Elements(v, n) == [i \in 1..n |-> IF i <= Len(v) THEN v[i] ELSE Junk]

\* DataType::CanMarshal and its redefinitions: 2 means "when a size is given".
RECURSIVE CanMarshal(_)
CanMarshal(T) ==
    CASE T.k \in {"std", "parclass"} -> 1
      [] T.k = "ptr" -> IF T.of.k # "ptr" /\ CanMarshal(T.of) # 0 THEN 2 ELSE 0
      [] T.k = "array" -> CanMarshal(T.of)
      [] T.k = "struct" -> IF \A i \in DOMAIN T.fields : CanMarshal(T.fields[i]) = 1 THEN 1 ELSE 0
      [] T.k = "seqclass" -> IF T.base THEN 1 ELSE 0
      [] T.k \in {"vector", "list"} -> IF CanMarshal(T.of) # 0 THEN 1 ELSE 0
      [] T.k = "map" -> IF CanMarshal(T.key) # 0 /\ CanMarshal(T.of) # 0 THEN 1 ELSE 0

PackStd(e, b, t, v) ==
    IF t = "void" THEN b
    ELSE IF t = "string" THEN PackStrings(e, b, v) ELSE PackBlock(e, b, t, v)
UnPackStd(e, b, t, n) ==
    IF t = "string" THEN UnPackStrings(e, b, n) ELSE UnPackBlock(e, b, t, n)

\* How many elements an array or a pointer has: the size given, the cardinal
\* of the declaration, one.
Count(T, n) == IF n # None THEN n ELSE IF T.k = "array" THEN T.card ELSE 1

\* The elements of a composed value, in the order they are marshalled: the
\* loops and field lists of TypeArray, TypePtr, TypeStruct, TypeSeqClass and
\* TypeTemplate.  n is the number of elements; a map has keys and values.
Parts(T, n) ==
    CASE T.k \in {"struct", "seqclass"} -> T.fields
      [] T.k = "map" -> [i \in 1..2 * n |-> IF i % 2 = 1 THEN T.key ELSE T.of]
      [] OTHER -> [i \in 1..n |-> T.of]
\* Containers are preceded by their size.
Counted(T) == T.k \in {"vector", "list", "map"}
\* Arrays and vectors of a standard type are packed in one call.
InOneCall(T) == T.k \in {"ptr", "array", "vector"} /\ IsStd(T.of)
Flattened(T, v) == IF T.k = "map" THEN FlattenSeq(v) ELSE v
Rebuilt(T, v) ==
    IF T.k = "map" THEN [i \in 1..(Len(v) \div 2) |-> <<v[2 * i - 1], v[2 * i]>>] ELSE v

\* DataType::Marshal and its redefinitions; n is the size helper or None.
RECURSIVE Marshal(_, _, _, _, _)
Marshal(e, T, v, n, b) ==
    LET c == IF Counted(T) THEN PackBlock(e, b, "int", <<Len(v)>>) ELSE b
        m == IF Counted(T) THEN Len(v) ELSE Count(T, n)
    IN  CASE T.k = "std" -> PackStd(e, b, T.t, <<v>>)
          [] T.k = "parclass" -> PackStrings(e, b, <<v>>)
          [] InOneCall(T) -> PackStd(e, c, T.of.t, Elements(v, m))
          [] OTHER -> FoldLeft(LAMBDA acc, i : Marshal(e, Parts(T, m)[i], Flattened(T, v)[i], None, acc),
                               c, Each(Len(Parts(T, m))))

\* DataType::DeMarshal and its redefinitions: [b, v].
RECURSIVE DeMarshal(_, _, _, _)
DeMarshal(e, T, n, b) ==
    LET c == IF Counted(T) THEN UnPackInt(e, b) ELSE [b |-> b, v |-> Count(T, n)]
        One(r, zero) == [r EXCEPT !.v = IF @ = <<>> THEN zero ELSE @[1]]
        all == FoldLeft(LAMBDA acc, U : [DeMarshal(e, U, None, acc.b) EXCEPT !.v = Append(acc.v, @)],
                        [c EXCEPT !.v = <<>>], Parts(T, c.v))
    IN  CASE T = Std("string") \/ T.k = "parclass" -> One(UnPackStrings(e, b, 1), <<>>)
          [] T.k = "std" /\ T # Std("string") -> One(UnPackBlock(e, b, T.t, 1), Junk)
          [] InOneCall(T) -> UnPackStd(e, c.b, T.of.t, c.v)
          [] OTHER -> [all EXCEPT !.v = Rebuilt(T, @)]

-----------------------------------------------------------------------------
(* Parameters: [type, ref, const, in, out, size]; size is 0 or the index of
   the parameter the expression of [size = ...] names. *)

InParam(p) == p.in \/ p.const \/ ~p.out
OutParam(p) ==
    /\ ~p.const
    /\ p.out \/ (~p.in /\ (p.ref \/ p.type.k \in {"ptr", "array"}))
ParamCanMarshal(p) ==
    LET stat == CanMarshal(p.type)
    IN  stat = 1 \/ (stat = 2 /\ p.size # 0)

Size(p, env) == IF p.size = 0 THEN None ELSE env[p.size]

\* Param::Marshal: the size first, evaluated here and now.
MarshalParam(e, p, j, env, b) ==
    Marshal(e, p.type, env[j], Size(p, env),
            IF p.size = 0 THEN b ELSE PackBlock(e, b, "int", <<env[p.size]>>))

\* Param::UnMarshal: [b, v]; with a size, it is the one read from the buffer.
UnMarshalParam(e, p, b) ==
    LET c == IF p.size = 0 THEN [b |-> b, v |-> None] ELSE UnPackInt(e, b)
    IN  DeMarshal(e, p.type, c.v, c.b)

-----------------------------------------------------------------------------
(* Methods: [name, kind, public, hidden, virtual, pure, invoke, conc, mutex,
   ret, retref, params]. *)

HasOutput(m) ==
    \/ m.kind = "normal" /\ m.ret # Void
    \/ \E j \in DOMAIN m.params : OutParam(m.params[j])
WaitReturn(m) ==
    \/ m.kind = "ctor"
    \/ m.invoke = "sync"
    \/ m.invoke = "auto" /\ HasOutput(m)

\* The semantics a request is sent with.
InvokeCode(m) ==
    IF m.kind = "ctor" THEN {"ctor", "sync", "mutex"}
    ELSE (IF WaitReturn(m) THEN {"sync"} ELSE {})
         \cup (IF m.mutex THEN {"mutex"} ELSE IF m.conc THEN {"conc"} ELSE {})

\* CheckMarshal; pointers need a size, parallel objects go by reference.
CheckMarshal(m) ==
    \/ ~m.public \/ m.hidden
    \/ /\ m.kind = "normal" => CanMarshal(m.ret) = 1
       /\ \A j \in DOMAIN m.params :
            /\ m.params[j].type.k = "parclass" => m.params[j].ref
            /\ ParamCanMarshal(m.params[j])

\* GenerateReturn: what may be returned by reference.
ReturnAccepted(m) == m.kind = "normal" => (m.retref <=> m.ret.k = "parclass")

\* The end of GenerateClient: what an asynchronous method may have.
AsyncAccepted(m) ==
    ~WaitReturn(m) =>
        /\ m.ret = Void
        /\ \A j \in DOMAIN m.params :
             OutParam(m.params[j]) => m.params[j].type.k = "parclass"

Accepted(m) == CheckMarshal(m) /\ ReturnAccepted(m) /\ AsyncAccepted(m)

\* Method::operator==.
Same(m, o) ==
    /\ m.virtual = o.virtual /\ m.public = o.public /\ m.kind = o.kind
    /\ m.name = o.name /\ m.ret = o.ret
    /\ Len(m.params) = Len(o.params)
    /\ \A j \in DOMAIN m.params : m.params[j].type = o.params[j].type

-----------------------------------------------------------------------------
(* Classes: [name, uid, apoa, bases, members]; a base is [base, public]. *)

\* IDFromString.  The comparisons with 'Z' and 'z' are >=, so the upper case
\* letters before Z are dropped and every character from Z on takes the first
\* branch.  The names considered have at most five characters, so that the 32
\* bits do not overflow.
IDFromString(name) ==
    LET digit(c) == IF c >= 90 THEN <<c - 65>>
                    ELSE IF c >= 48 /\ c <= 57 THEN <<c - 48 + 53>>
                    ELSE <<>>
        tmp == FlattenSeq([i \in DOMAIN name |-> digit(name[i])])
    IN  IF tmp = <<>> THEN 1999
        ELSE 1000 + FoldLeft(LAMBDA id, c : id * 63 + c, Last(tmp), Front(tmp))

\* classuid(...), or an identifier made from the name (GenerateCode).
UID(c) == IF Classes[c].uid # 0 THEN Classes[c].uid ELSE IDFromString(Classes[c].name)

\* AddMember: the constructor without parameters is 10, the others follow.
Numbered(m) == ~(m.kind = "ctor" /\ m.params = <<>>)
MethodId(c, i) ==
    LET M == Classes[c].members
    IN  IF ~Numbered(M[i]) THEN 10
        ELSE 10 + Cardinality({j \in 1..i : Numbered(M[j])})

HasMethod(c, m) == \E i \in DOMAIN Classes[c].members : Same(Classes[c].members[i], m)
RECURSIVE MethodInBaseClass(_, _)
MethodInBaseClass(c, m) ==
    \E k \in DOMAIN Classes[c].bases :
        /\ Classes[c].bases[k].public
        /\ \/ HasMethod(Classes[c].bases[k].base, m)
           \/ MethodInBaseClass(Classes[c].bases[k].base, m)

\* The members the compiler writes a stub and a wrapper for.
HasStub(c, i) ==
    LET m == Classes[c].members[i]
    IN  /\ m.public /\ ~m.hidden /\ m.kind # "dtor"
        /\ ~(m.virtual /\ MethodInBaseClass(c, m))

\* findPureVirtual: the pure virtual methods no class on the way defines.
RECURSIVE FindPureVirtual(_)
FindPureVirtual(c) ==
    LET inherited == UNION {FindPureVirtual(Classes[c].bases[k].base) :
                               k \in {k \in DOMAIN Classes[c].bases : Classes[c].bases[k].public}}
        M == Classes[c].members
        Defined(x, from) == \E j \in from..Len(M) : ~M[j].pure /\ Same(x, M[j])
    IN  {x \in inherited : ~Defined(x, 1)}
        \cup {M[i] : i \in {i \in DOMAIN M : M[i].pure /\ ~Defined(M[i], i + 1)}}

\* GenerateCode: an abstract class without a public base.  Its wrappers are
\* empty (GenerateBroker).
BasePureVirtual(c) ==
    /\ FindPureVirtual(c) # {}
    /\ \A k \in DOMAIN Classes[c].bases : ~Classes[c].bases[k].public

\* The class and the public bases an interface of the object may be used as.
RECURSIVE Ancestors(_)
Ancestors(c) == {c} \cup UNION {Ancestors(Classes[c].bases[k].base) :
                                  k \in {k \in DOMAIN Classes[c].bases : Classes[c].bases[k].public}}

MethodOf(w) == Classes[w[1]].members[w[2]]

\* The calls a program can write and the compiler accepts.
Callable(c) ==
    {w \in UNION {{a} \X DOMAIN Classes[a].members : a \in Ancestors(c)} :
        /\ HasStub(w[1], w[2]) /\ Accepted(MethodOf(w))
        /\ MethodOf(w).kind = "ctor" => w[1] = c}

\* What the generated files hold of a class: its number, the numbers of the
\* methods that have a stub and a wrapper, whether the wrappers are empty.
GenerateCode(c) ==
    [uid |-> UID(c),
     ids |-> [i \in {i \in DOMAIN Classes[c].members : HasStub(c, i)} |-> MethodId(c, i)],
     empty |-> BasePureVirtual(c),
     calls |-> IF c \in Objects THEN Callable(c) ELSE {}]

-----------------------------------------------------------------------------
(* Values: two for every type. *)

RECURSIVE Sample(_, _, _)
Sample(T, n, x) ==
    CASE T.k = "std" ->
            (CASE T.t = "string" -> IF x = 1 THEN <<>> ELSE <<1, 2, 1, 2, 1>>
               [] T.t = "long" -> IF x = 1 THEN 1 ELSE Wide
               [] OTHER -> x)
      [] T.k \in {"ptr", "array"} -> [i \in 1..Count(T, n) |-> Sample(T.of, None, x)]
      [] T.k \in {"struct", "seqclass"} -> [i \in DOMAIN T.fields |-> Sample(T.fields[i], None, x)]
      [] T.k \in {"vector", "list"} ->
            IF x = 1 THEN <<>> ELSE <<Sample(T.of, None, 2), Sample(T.of, None, 1)>>
      [] T.k = "map" -> IF x = 1 THEN <<>> ELSE <<<<1, Sample(T.of, None, 1)>>, <<2, Sample(T.of, None, 2)>>>>
      [] T.k = "parclass" -> <<x, x>>
Flip(T, v) ==
    LET n == IF T.k = "ptr" THEN Len(v) ELSE None
    IN  IF v = Sample(T, n, 1) THEN Sample(T, n, 2) ELSE Sample(T, n, 1)

\* The argument lists of a method: a sized array has the size its parameter
\* gives.
Arguments(m) ==
    {[j \in DOMAIN m.params |->
        LET p == m.params[j]
        IN  Sample(p.type, IF p.size = 0 THEN None ELSE f[p.size], f[j])] :
     f \in [DOMAIN m.params -> {1, 2}]}

-----------------------------------------------------------------------------
(* The stub of the interface.  gen is what GenerateCode produced. *)

\* Reset, then the input parameters in order.
MarshalInput(e, m, env) ==
    FoldLeft(LAMBDA b, j : IF InParam(m.params[j]) THEN MarshalParam(e, m.params[j], j, env, b) ELSE b,
             Empty, Each(Len(m.params)))

\* SetHeader of the request.
Header(gen, w) ==
    Framed([type |-> "request", uid |-> gen[w[1]].uid, method |-> gen[w[1]].ids[w[2]],
            sem |-> InvokeCode(MethodOf(w))])

\* What the caller's variable holds after the reply wrote v over old: the
\* elements of an array are written one by one.
Written(p, old, v) ==
    IF p.size = 0 THEN v
    ELSE [i \in DOMAIN old |-> IF i <= Len(v) THEN v[i] ELSE old[i]]

\* The output parameters in order, then the result: [b, v], v the values read.
UnMarshalOutput(e, m, b) ==
    FoldLeft(LAMBDA acc, T : [DeMarshal(e, T, None, acc.b) EXCEPT !.v = Append(acc.v, @)],
             FoldLeft(LAMBDA acc, j :
                        IF ~acc.b.ok THEN acc
                        ELSE [UnMarshalParam(e, m.params[j], acc.b) EXCEPT !.v = Append(acc.v, @)],
                      [b |-> b, v |-> <<>>],
                      SelectSeq(Each(Len(m.params)), LAMBDA j : OutParam(m.params[j]))),
             IF m.ret = Void THEN <<>> ELSE <<m.ret>>)

\* What the stub leaves when it read v: the variables, whether the reply was
\* written beyond one, and the result.
Results(m, a, v) ==
    LET Nth(j) == Cardinality({i \in 1..j : OutParam(m.params[i])})
        Read(j) == OutParam(m.params[j]) /\ Nth(j) <= Len(v)
    IN  [env |-> [j \in DOMAIN a |-> IF Read(j) THEN Written(m.params[j], a[j], v[Nth(j)]) ELSE a[j]],
         over |-> \E j \in DOMAIN a : Read(j) /\ m.params[j].size # 0 /\ Len(v[Nth(j)]) > Len(a[j]),
         ret |-> IF m.ret = Void \/ v = <<>> THEN <<>> ELSE <<Last(v)>>]

\* CheckAndThrow.
CheckAndThrow(e, msg) ==
    CASE msg.h.code = "int" -> UnPackInt(e, msg.b).v
      [] msg.h.code = "text" -> Len(UnPackStrings(e, msg.b, 1).v[1])
      [] msg.h.code = "pop" -> UnPackInt(e, msg.b).v

-----------------------------------------------------------------------------
(* The wrapper of the broker. *)

\* The generated Invoke: the wrapper of the class if the identifier is its
\* own, otherwise the first base that knows the method.
RECURSIVE Invoke(_, _, _, _)
Invoke(gen, c, uid, id) ==
    LET own   == {i \in DOMAIN gen[c].ids : gen[c].ids[i] = id}
        bases == SelectSeq([k \in DOMAIN Classes[c].bases |->
                               Invoke(gen, Classes[c].bases[k].base, uid, id)],
                           LAMBDA w : w # None)
    IN  IF uid = gen[c].uid THEN (IF own = {} THEN None ELSE <<c, CHOOSE i \in own : TRUE>>)
        ELSE IF bases = <<>> THEN None ELSE bases[1]

\* The input parameters in order.
UnMarshalInput(e, m, b) ==
    FoldLeft(LAMBDA acc, j :
                LET p == m.params[j]
                IN  IF InParam(p)
                    THEN [UnMarshalParam(e, p, acc.b) EXCEPT !.v = Append(acc.v, @)]
                    ELSE [acc EXCEPT !.v = Append(@, Sample(p.type, 0, 1))],
             [b |-> b, v |-> <<>>], Each(Len(m.params)))

\* The variables of the output parameters: an array has the size its
\* expression has at this point, k when that is an output itself.
DeclareOutput(m, env, k) ==
    [j \in DOMAIN env |->
        LET p == m.params[j]
            n == IF InParam(m.params[p.size]) THEN env[p.size] ELSE k
        IN  IF InParam(p) \/ p.size = 0 THEN env[j]
            ELSE [i \in 1..n |-> Junk]]

\* What the method may do to its parameters (external).
Modifiable(p) == ~p.const /\ (p.ref \/ p.type.k \in {"ptr", "array"})
Body(m, env, f) ==
    [j \in DOMAIN env |->
        LET p == m.params[j]
        IN  IF ~Modifiable(p) \/ (f[j] = 1 /\ InParam(p)) THEN env[j]
            ELSE IF InParam(p) THEN Flip(p.type, env[j])
            ELSE Sample(p.type, IF p.size = 0 THEN None ELSE Len(env[j]), f[j])]

\* Mutant of MarshalOutput: the result in front of the parameters.
MarshalOutputFirst(e, m, env, ret) ==
    FoldLeft(LAMBDA acc, j : IF OutParam(m.params[j])
                             THEN MarshalParam(e, m.params[j], j, env, acc) ELSE acc,
             IF m.ret = Void THEN Empty ELSE Marshal(e, m.ret, ret, None, Empty),
             Each(Len(m.params)))

\* The response: the output parameters in order, then the result.
MarshalOutput(e, m, env, ret) ==
    LET b == FoldLeft(LAMBDA acc, j : IF OutParam(m.params[j])
                                      THEN MarshalParam(e, m.params[j], j, env, acc) ELSE acc,
                      Empty, Each(Len(m.params)))
    IN  IF m.ret = Void THEN b ELSE Marshal(e, m.ret, ret, None, b)

\* SendException: the code, and for a string or a pop_exception its text.
SendException(e, code) ==
    [h |-> Framed([type |-> "exception", code |-> code]),
     b |-> IF code = "int" THEN PackBlock(e, Empty, "int", <<1>>)
           ELSE IF code = "text" THEN PackStrings(e, Empty, <<<<1, 2>>>>)
           ELSE PackStrings(e, PackBlock(e, Empty, "int", <<1>>), <<<<2>>>>)]

-----------------------------------------------------------------------------
(* A call, step by step. *)

VARIABLES
    files,      \* the generated code of the classes
    obj, enc,   \* the class of the object, the encoding of the connection
    pc,         \* the step the call is at
    op, args,   \* the call and its arguments
    msg,        \* the message on its way, request or reply: [h, b]
    got,        \* what the server did: [ran, seen, after, ret, thrown]
    res         \* how the stub ended: [st, code, env, ret, over]
vars == <<files, obj, enc, pc, op, args, msg, got, res>>

Nothing == [ran |-> None, seen |-> <<>>, after |-> <<>>, ret |-> <<>>, thrown |-> ""]
NoResult == [st |-> "none", code |-> "", env |-> <<>>, ret |-> <<>>, over |-> FALSE]
NoMessage == [h |-> Framed([type |-> "response"]), b |-> Empty]

Init ==
    /\ files = [c \in DOMAIN Classes |-> GenerateCode(c)]
    /\ obj \in Objects
    /\ enc \in Used
    /\ pc = "idle"
    /\ op = None
    /\ args = <<>>
    /\ msg = NoMessage
    /\ got = Nothing
    /\ res = NoResult

\* A program calls the stub.
Call(w) ==
    /\ pc = "idle"
    /\ op' = w
    /\ args' \in Arguments(MethodOf(w))
    /\ pc' = "called"
    /\ UNCHANGED <<files, obj, enc, msg, got, res>>

Raised == [NoResult EXCEPT !.st = "exc", !.code = "pop", !.env = args]

\* The stub up to its Send: an exception of Pack leaves it before anything is
\* sent.
Send ==
    /\ pc = "called"
    /\ msg' = [h |-> Header(files, op), b |-> MarshalInput(enc, MethodOf(op), args)]
    /\ IF msg'.b.ok THEN pc' = "sent" /\ UNCHANGED res
       ELSE pc' = "returned" /\ res' = Raised
    /\ UNCHANGED <<files, obj, enc, op, args, got>>

\* DoInvoke: the wrapper of the request.  The wrappers of an abstract class
\* without bases are empty.
Find ==
    /\ pc = "sent"
    /\ \E w \in {Invoke(files, obj, msg.h.uid, msg.h.method)} :
         /\ got' = [got EXCEPT !.ran = w]
         /\ pc' = IF w = None THEN "throw" ELSE IF files[w[1]].empty THEN "served" ELSE "read"
    /\ UNCHANGED <<files, obj, enc, op, args, msg, res>>

\* The wrapper up to the call.
Read ==
    /\ pc = "read"
    /\ \E in \in {UnMarshalInput(enc, MethodOf(got.ran), Received(msg.b))} :
           /\ pc' = IF in.b.ok THEN "run" ELSE "throw"
           /\ got' = [got EXCEPT !.seen = IF in.b.ok THEN in.v ELSE <<>>]
    /\ UNCHANGED <<files, obj, enc, op, args, msg, res>>

\* The method, whatever it does: x chooses the result, f the effect on the
\* parameters, k the size of an output.
Run(f, x, k) ==
    LET m == MethodOf(got.ran)
    IN  /\ got' = [got EXCEPT !.after = Body(m, DeclareOutput(m, got.seen, k), f),
                              !.ret = IF m.ret = Void THEN <<>> ELSE <<Sample(m.ret, None, x)>>]
        /\ pc' = "ran"
        /\ UNCHANGED <<files, obj, enc, op, args, msg, res>>

\* The exceptions of DoInvoke, of the wrapper and of the method.
Throw(code) ==
    /\ pc = "run" \/ (pc = "throw" /\ code = "pop")
    /\ got' = [got EXCEPT !.thrown = code]
    /\ pc' = "thrown"
    /\ UNCHANGED <<files, obj, enc, op, args, msg, res>>

\* The wrapper answers a request that was sent as synchronous.  Pack may throw.
Answer ==
    /\ pc \in {"ran", "thrown"}
    /\ LET m == MethodOf(got.ran)
           b == MarshalOutput(enc, m, got.after, IF got.ret = <<>> THEN Junk ELSE got.ret[1])
       IN  IF "sync" \notin msg.h.sem
           THEN pc' = "served" /\ UNCHANGED <<msg, got>>
           ELSE IF pc = "ran" /\ ~b.ok
           THEN pc' = "thrown" /\ got' = [got EXCEPT !.thrown = "pop"] /\ UNCHANGED msg
           ELSE /\ pc' = "answered"
                /\ msg' = IF pc = "ran" THEN [h |-> Framed([type |-> "response"]), b |-> b]
                          ELSE SendException(enc, got.thrown)
                /\ UNCHANGED got
    /\ UNCHANGED <<files, obj, enc, op, args, res>>

\* The stub from its Recv on.
Recv ==
    /\ pc = "answered"
    /\ IF msg.h.type = "exception"
       THEN res' = [Raised EXCEPT !.code = msg.h.code, !.ret = <<CheckAndThrow(enc, msg)>>]
       ELSE \E o \in {UnMarshalOutput(enc, MethodOf(op), Received(msg.b))} :
            LET r == Results(MethodOf(op), args, IF o.b.ok THEN o.v ELSE Front(o.v))
            IN  res' = [st |-> IF o.b.ok THEN "ok" ELSE "exc", code |-> IF o.b.ok THEN "" ELSE "pop",
                        env |-> r.env, ret |-> r.ret, over |-> r.over]
    /\ pc' = "returned"
    /\ UNCHANGED <<files, obj, enc, op, args, msg, got>>

Params == DOMAIN MethodOf(got.ran).params
Sizes == IF \E j \in Params : MethodOf(got.ran).params[j].size # 0 THEN 0..2 ELSE {0}

Next ==
    \/ \E w \in files[obj].calls : Call(w)
    \/ Send
    \/ Find
    \/ Read
    \/ /\ pc = "run"
       /\ \E f \in [Params -> {1, 2}], x \in {1, 2}, k \in Sizes : Run(f, x, k)
    \/ \E code \in {"int", "text", "pop"} : Throw(code)
    \/ Answer
    \/ Recv

Spec == Init /\ [][Next]_vars

-----------------------------------------------------------------------------
(* Properties. *)

TypeOK ==
    /\ obj \in Objects /\ enc \in Used
    /\ pc \in {"idle", "called", "sent", "read", "run", "ran", "throw", "thrown", "answered",
              "served", "returned"}
    /\ pc # "idle" => op \in files[obj].calls /\ Len(args) = Len(MethodOf(op).params)
    /\ res.st \in {"none", "ok", "exc"}
    /\ (res.st # "none") <=> (pc = "returned")
    /\ got.ran # None => got.ran[2] \in DOMAIN Classes[got.ran[1]].members

\* The arrays of Booleans pop_buffer_xdr::UnPack does not read to their end,
\* and what popc_buffer_xdr_mpi loses.
Misread(e, T) ==
    \/ e \in {"xdr", "ps-xdr", "mpi-xdr"} /\ T.k = "array" /\ T.of = Std("bool") /\ T.card > 4
    \/ e = "mpi-xdr" /\ T \in {Std("short"), Std("long")}
Reliable(e, m) == \A j \in DOMAIN m.params : ~Misread(e, m.params[j].type)

\* No two classes in the hierarchy of c have the same identifier.
DistinctIds(c) == \A a, b \in Ancestors(c) : files[a].uid = files[b].uid => a = b

\* The method the caller named runs, and runs with the arguments the caller
\* passed: neither the encoding nor the order, the sizes and the directions of
\* the parameters make the wrapper read something else (Param::Marshal,
\* UnMarshal, GenerateClient, GenerateBroker), and Invoke finds the wrapper
\* of the stub through the base classes.  Excepted are the arrays of Booleans
\* and the hierarchies with two equal identifiers.
ArgsArrive ==
    pc \notin {"idle", "called", "sent", "returned"} /\ DistinctIds(obj) =>
        /\ got.ran = op
        /\ pc # "read" /\ Reliable(enc, MethodOf(op)) /\ ~files[op[1]].empty =>
             \A j \in DOMAIN args :
                 InParam(MethodOf(op).params[j]) => got.seen # <<>> /\ got.seen[j] = args[j]

\* The size of an array that comes back is an output itself.
SizeIsOutput(m) ==
    \E j \in DOMAIN m.params : m.params[j].size # 0 /\ OutParam(m.params[m.params[j].size])
Payload == [int |-> 1, text |-> 2, pop |-> 1]

\* When the stub returns, the output parameters and the result are those the
\* method left and every other variable of the caller is as it was; when the
\* method threw, its exception with its value comes out of the stub and no
\* variable of the caller changed (GenerateClient, SendException,
\* CheckAndThrow).  The reply is written beyond the memory of the caller only
\* when the size of an array is itself an output of the method, because the
\* wrapper evaluates the size after the call.  A caller that waits is answered:
\* the semantics the stub sends and what it does afterwards agree, except for a
\* virtual method of an abstract class without bases, whose wrapper is empty.
\* Every variable keeps its type.
ResultsReturn ==
    LET m == MethodOf(op)
    IN  /\ TypeOK
        /\ pc = "served" /\ WaitReturn(m) => files[op[1]].empty
        /\ pc = "returned" /\ Reliable(enc, m) /\ DistinctIds(obj) =>
            \/ /\ res.st = "ok" /\ got.thrown = ""
               /\ res.ret = got.ret
               /\ \/ SizeIsOutput(m)
                  \/ /\ ~res.over
                     /\ \A j \in DOMAIN m.params :
                          res.env[j] = IF OutParam(m.params[j]) THEN got.after[j] ELSE args[j]
            \/ /\ res.st = "exc" /\ res.env = args
               /\ got.thrown # "" => res.code = got.thrown /\ res.ret = <<Payload[res.code]>>
               /\ got.thrown = "" => got = Nothing

=============================================================================
