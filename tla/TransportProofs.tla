-------------------------- MODULE TransportProofs --------------------------
(***************************************************************************)
(* Proofs about Transport, for every set of clients, every number of       *)
(* connections and messages and every set of descriptors.  The inductive   *)
(* invariant IInv has three layers: which descriptor stands for which      *)
(* connection and which entry of the two arrays it has (FdInv, ArrayInv,   *)
(* ScanInv), what was read of each stream (StreamInv), and which client    *)
(* waits for which reply (ReplyInv).                                       *)
(***************************************************************************)
EXTENDS Transport, FiniteSetTheorems, SequenceTheorems, TLAPS

\* The descriptors in use stand for different connections, all accepted, and
\* those still to accept find a free one.
FdInv ==
    /\ \A f, g \in Fd : fdmap[f] = fdmap[g] /\ fdmap[f] # None => f = g
    /\ \A f \in Fd : fdmap[f] # None => fdmap[f] \in accepted
    /\ Cardinality(Backlog) <= Cardinality(FreeFd)
    /\ srv.pc = "recv" => srv.fd \in Fd /\ fdmap[srv.fd] # None
    /\ \A i \in 1..Len(poll) : fdmap[poll[i].fd] # None

\* The arrays over Unix domain sockets, where the second one is not used.
ArrayInv ==
    /\ ArraysMatch
    /\ proto = "uds" => conn = <<>> /\ refs = 0 /\ nready = 0

\* The scan stands just below the entry it returned.
ScanInv ==
    proto = "socket" =>
        /\ index <= Len(poll)
        /\ srv.pc # "closed" => nready = Cardinality(ToScan) + (IF listen THEN 1 ELSE 0)
        /\ srv.pc = "recv" => index \in 0..(Len(poll) - 1) /\ poll[index + 1].fd = srv.fd

\* What was read of each stream.
StreamInv ==
    /\ Framing
    /\ \A k \in Conns : read[k] <= written[k]
    /\ srv.pc = "recv" /\ srv.part = 1 => read[ServerConn] % 2 = 1

\* Message n of k waits for its reply: it is not received yet, or its reply
\* is not sent yet.
Pending(k, n) ==
    \/ n \in sync[k] /\ n > log[k]
    \/ \E q \in replies : q.from = k /\ q.msg = n

\* A client waits for one reply at a time, and its descriptor is still its
\* own, unless it died or was misled.
ReplyInv ==
    /\ ReplyOwner
    /\ srv.pc = "closed" => replies = {}
    /\ \A q \in replies : /\ q.msg <= log[q.from]
                          /\ fdmap[q.fd] = q.from \/ Abandoned(q.from)
    /\ srv.pc # "closed" =>
         \A k \in Conns : ~Abandoned(k) =>
            /\ \A n \in 1..MaxMsg : Pending(k, n) => k \in await
            /\ \A m, n \in 1..MaxMsg : Pending(k, m) /\ Pending(k, n) => m = n
    /\ await \subseteq {k \in Conns : peer[k] = "open"}

IInv == TypeOK /\ FdInv /\ ArrayInv /\ ScanInv /\ StreamInv /\ ReplyInv

-----------------------------------------------------------------------------
(* Smallest and largest numbers, sequences and finite sets. *)

\* A set of naturals has a smallest element.
LEMMA MinNat ==
    ASSUME NEW S, S \subseteq Nat, S # {}
    PROVE  Min(S) \in S /\ \A y \in S : Min(S) <= y
<1>1. PICK x \in S : \A y \in S : ~(<<y, x>> \in OpToRel(<, Nat))
  BY NatLessThanWellFounded, WFMin
<1>2. ASSUME NEW y \in S PROVE x <= y
  <2> SUFFICES ASSUME y < x PROVE FALSE
    OBVIOUS
  <2>1. <<y, x>> \in {p \in Nat \X Nat : p[1] < p[2]}
    OBVIOUS
  <2>2. <<y, x>> \in OpToRel(<, Nat)
    BY <2>1 DEF OpToRel
  <2> QED BY <1>1, <2>2
<1> QED BY <1>2 DEF Min

\* A set of positions has a largest element.
LEMMA MaxPos ==
    ASSUME NEW n \in Nat, NEW S, S \subseteq 1..n, S # {}
    PROVE  Max(S) \in S /\ \A y \in S : y <= Max(S)
<1> DEFINE T == {n - y : y \in S}
<1>1. T \subseteq Nat /\ T # {}
  <2>1. \A y \in S : n - y \in Nat
    OBVIOUS
  <2>2. PICK y \in S : TRUE
    OBVIOUS
  <2>3. n - y \in T
    OBVIOUS
  <2> QED BY <2>1, <2>3
<1>2. Min(T) \in T /\ \A z \in T : Min(T) <= z
  BY <1>1, MinNat
<1>3. PICK x \in S : Min(T) = n - x
  BY <1>2
<1>4. \A y \in S : x >= y
  <2> SUFFICES ASSUME NEW y \in S PROVE x >= y
    OBVIOUS
  <2>1. n - x <= n - y
    BY <1>2, <1>3
  <2> QED BY <2>1
<1> QED BY <1>4 DEF Max

\* The elements of a sequence.
LEMMA SeqElements ==
    ASSUME NEW T, NEW s \in Seq(T)
    PROVE  Len(s) \in Nat /\ \A i \in 1..Len(s) : s[i] \in T
  OBVIOUS

\* A function on an initial interval is a sequence.
LEMMA FunctionSeq ==
    ASSUME NEW T, NEW n \in Nat, NEW f \in [1..n -> T]
    PROVE  f \in Seq(T) /\ Len(f) = n
  OBVIOUS

\* Erasing an entry of a sequence.
LEMMA RemoveAtSeq ==
    ASSUME NEW T, NEW s \in Seq(T), NEW i \in 1..Len(s)
    PROVE  /\ RemoveAt(s, i) \in Seq(T)
           /\ Len(RemoveAt(s, i)) = Len(s) - 1
           /\ \A k \in 1..(Len(s) - 1) : RemoveAt(s, i)[k] = IF k < i THEN s[k] ELSE s[k + 1]
<1> DEFINE a == SubSeq(s, 1, i - 1)
           b == SubSeq(s, i + 1, Len(s))
<1>1. Len(s) \in Nat /\ \A k \in 1..Len(s) : s[k] \in T
  OBVIOUS
<1>2. /\ a \in Seq(T) /\ Len(a) = i - 1
      /\ \A k \in 1..(i - 1) : a[k] = s[k]
  BY <1>1, SubSeqProperties
<1>3. /\ b \in Seq(T) /\ Len(b) = Len(s) - i
      /\ \A k \in 1..(Len(s) - i) : b[k] = s[i + k]
  BY <1>1, SubSeqProperties
<1> HIDE DEF a, b
<1>4. /\ a \o b \in Seq(T) /\ Len(a \o b) = Len(s) - 1
      /\ \A k \in 1..(Len(s) - 1) : (a \o b)[k] = IF k < i THEN s[k] ELSE s[k + 1]
  <2>1. /\ a \o b \in Seq(T) /\ Len(a \o b) = Len(a) + Len(b)
        /\ \A k \in 1..(Len(a) + Len(b)) :
              (a \o b)[k] = IF k <= Len(a) THEN a[k] ELSE b[k - Len(a)]
    BY <1>2, <1>3, ConcatProperties
  <2>2. ASSUME NEW k \in 1..(Len(s) - 1)
        PROVE  (a \o b)[k] = IF k < i THEN s[k] ELSE s[k + 1]
    <3>1. k \in 1..(Len(a) + Len(b))
      BY <1>1, <1>2, <1>3
    <3>2. CASE k < i
      BY <1>2, <2>1, <3>1, <3>2
    <3>3. CASE ~(k < i)
      <4>1. k - Len(a) \in 1..(Len(s) - i) /\ ~(k <= Len(a)) /\ i + (k - Len(a)) = k + 1
        BY <1>1, <1>2, <3>3
      <4> QED BY <1>3, <2>1, <3>1, <3>3, <4>1
    <3> QED BY <3>2, <3>3
  <2> QED BY <1>1, <1>2, <1>3, <2>1, <2>2
<1> QED BY <1>4 DEF RemoveAt, a, b

\* Replacing an entry by the last one.
LEMMA SwapOutSeq ==
    ASSUME NEW T, NEW s \in Seq(T), NEW i \in 1..Len(s)
    PROVE  /\ SwapOut(s, i) \in Seq(T)
           /\ Len(SwapOut(s, i)) = Len(s) - 1
           /\ \A k \in 1..(Len(s) - 1) : \E j \in 1..Len(s) : SwapOut(s, i)[k] = s[j]
<1> DEFINE t == [s EXCEPT ![i] = s[Len(s)]]
<1>1. Len(s) \in Nat /\ \A k \in 1..Len(s) : s[k] \in T
  OBVIOUS
<1>2. \A k \in 1..Len(s) : t[k] \in T /\ \E j \in 1..Len(s) : t[k] = s[j]
  BY <1>1
<1> HIDE DEF t
<1> DEFINE n == Len(s) - 1
           u == SubSeq(t, 1, n)
<1>3. n \in Nat /\ Len(s) = n + 1
  BY <1>1
<1>4. SwapOut(s, i) = u
  BY DEF SwapOut, Last, t
<1>5. /\ u \in Seq(T) /\ Len(u) = IF 1 <= n THEN n - 1 + 1 ELSE 0
      /\ \A k \in 1..(n - 1 + 1) : u[k] = t[1 + k - 1]
  <2> HIDE DEF n
  <2>1. \A k \in 1..n : t[k] \in T
    BY <1>2, <1>3
  <2>2. 1 \in Int /\ n \in Int
    BY <1>3
  <2> QED BY <2>1, <2>2, SubSeqProperties
<1> HIDE DEF n, u
<1>6. Len(u) = n /\ \A k \in 1..n : u[k] = t[k]
  BY <1>3, <1>5
<1>7. ASSUME NEW k \in 1..n
      PROVE  \E j \in 1..Len(s) : u[k] = s[j]
  <2>1. k \in 1..Len(s)
    BY <1>3
  <2> QED BY <1>2, <1>6, <2>1
<1> QED BY <1>4, <1>5, <1>6, <1>7 DEF n

\* The sets the model counts are finite.
LEMMA Finite ==
    /\ IsFiniteSet(Backlog) /\ Cardinality(Backlog) \in Nat
    /\ IsFiniteSet(FreeFd) /\ Cardinality(FreeFd) \in Nat
    /\ IsFiniteSet(Fd) /\ Cardinality(Fd) \in Nat
<1>1. IsFiniteSet(Conns)
  <2>1. IsFiniteSet(1..MaxConn)
    BY TransportAssumption, FS_Interval
  <2> QED BY <2>1, TransportAssumption, FS_Product DEF Conns
<1>2. IsFiniteSet(Backlog)
  BY <1>1, FS_Subset DEF Backlog
<1>3. IsFiniteSet(Fd) /\ IsFiniteSet(FreeFd)
  BY TransportAssumption, FS_Subset DEF FreeFd
<1> QED BY <1>2, <1>3, FS_CardinalityType

\* There is a descriptor for a connection that waits to be accepted.
LEMMA AcceptFd ==
    ASSUME TypeOK, FdInv, NEW k \in Backlog
    PROVE  Min(FreeFd) \in Fd /\ fdmap[Min(FreeFd)] = None
<1>1. Cardinality(Backlog) # 0
  BY Finite, FS_EmptySet
<1>2. FreeFd # {}
  BY <1>1, Finite, FS_EmptySet DEF FdInv
<1>3. FreeFd \subseteq Nat
  BY TransportAssumption DEF FreeFd
<1> QED BY <1>2, <1>3, MinNat DEF FreeFd

\* An interval from 1 has as many elements as its upper end says.
LEMMA Interval ==
    ASSUME NEW n \in Nat
    PROVE  IsFiniteSet(1..n) /\ Cardinality(1..n) = n
<1>1. 1 \in Int /\ n \in Int
  OBVIOUS
<1>2. /\ IsFiniteSet(1..n)
      /\ Cardinality(1..n) = IF 1 > n THEN 0 ELSE n - 1 + 1
  BY <1>1, FS_Interval
<1> QED BY <1>2

\* The arrays are not longer than there are descriptors.
LEMMA ArrayBound ==
    ASSUME NEW s \in Seq(Fd), \A i, j \in 1..Len(s) : s[i] = s[j] => i = j
    PROVE  Len(s) \in Nat /\ Len(s) <= Cardinality(Fd)
<1>1. Len(s) \in Nat /\ s \in [1..Len(s) -> Fd]
  OBVIOUS
<1>2. s \in Injection(1..Len(s), Fd)
  BY <1>1 DEF Injection, IsInjective
<1>3. IsFiniteSet(1..Len(s)) /\ Cardinality(1..Len(s)) = Len(s)
  BY <1>1, Interval
<1> QED BY <1>1, <1>2, <1>3, Finite, FS_Injection

\* The entries to scan are finitely many.
LEMMA ScanFinite ==
    ASSUME Len(poll) \in Nat
    PROVE  /\ IsFiniteSet(ToScan) /\ Cardinality(ToScan) \in Nat
           /\ Cardinality(ToScan) <= Len(poll)
<1>1. IsFiniteSet(1..Len(poll)) /\ Cardinality(1..Len(poll)) = Len(poll)
  BY Interval
<1>2. ToScan \subseteq 1..Len(poll)
  BY DEF ToScan
<1> QED BY <1>1, <1>2, FS_Subset, FS_CardinalityType

-----------------------------------------------------------------------------
(* Each part is preserved when what it speaks of does not change. *)

\* The descriptors.
LEMMA FdFrame ==
    FdInv /\ UNCHANGED <<fdmap, accepted, srv, poll>> /\ Backlog' = Backlog => FdInv'
  BY DEF FdInv, FreeFd

\* The arrays.
LEMMA ArrayFrame ==
    ArrayInv /\ UNCHANGED <<proto, poll, conn, nready, refs, fdmap, srv>> => ArrayInv'
  BY DEF ArrayInv, ArraysMatch, FreeFd

\* The scan.
LEMMA ScanFrame ==
    ScanInv /\ UNCHANGED <<proto, poll, listen, index, nready, srv>> => ScanInv'
  BY DEF ScanInv, ToScan

\* The streams.
LEMMA StreamFrame ==
    StreamInv /\ UNCHANGED <<read, log, written, peer, srv, fdmap>> => StreamInv'
  BY DEF StreamInv, Framing, ServerConn

\* The replies.
LEMMA ReplyFrame ==
    /\ ReplyInv /\ UNCHANGED <<answered, died, replies, log, fdmap, sync, await, peer>>
    /\ srv'.pc = "closed" <=> srv.pc = "closed"
    => ReplyInv'
  BY DEF ReplyInv, ReplyOwner, Abandoned, Pending

-----------------------------------------------------------------------------
(* The clients. *)

\* What no step of a client changes.
ClientOnly ==
    UNCHANGED <<proto, accepted, fdmap, read, log, poll, conn, listen, index, nready, refs,
                srv, replies, answered>>

\* A client's step leaves the arrays and the scan alone.
LEMMA ClientFrame ==
    ASSUME IInv, ClientOnly PROVE ArrayInv' /\ ScanInv'
  BY ArrayFrame, ScanFrame DEF IInv, ClientOnly

\* Opening a connection keeps the invariant.
LEMMA ConnectInv ==
    ASSUME IInv, NEW k \in Conns, Connect(k)
    PROVE  IInv'
<1>1. /\ ClientOnly /\ UNCHANGED <<written, sync, await, died>>
      /\ peer' = [peer EXCEPT ![k] = "open"] /\ peer[k] = "new"
      /\ Cardinality(Backlog) < Cardinality(FreeFd)
  BY DEF Connect, ClientOnly, array
<1>2. \A x \in Conns : peer'[x] = IF x = k THEN "open" ELSE peer[x]
  BY <1>1 DEF IInv, TypeOK
<1>3. TypeOK'
  BY <1>1 DEF IInv, TypeOK, ClientOnly
<1>4. FdInv'
  <2>1. FreeFd' = FreeFd
    BY <1>1 DEF ClientOnly, FreeFd
  <2>2. Cardinality(Backlog') <= Cardinality(Backlog) + 1
    <3>1. CASE k \in accepted
      <4>1. Backlog' = Backlog
        BY <1>1, <1>2, <3>1 DEF Backlog, ClientOnly
      <4> QED BY <4>1, Finite
    <3>2. CASE k \notin accepted
      <4>1. Backlog' = Backlog \cup {k} /\ k \notin Backlog
        BY <1>1, <1>2, <3>2 DEF Backlog, ClientOnly
      <4>2. Cardinality(Backlog \cup {k}) = Cardinality(Backlog) + 1
        BY <4>1, Finite, FS_AddElement
      <4> QED BY <4>1, <4>2, Finite
    <3> QED BY <3>1, <3>2
  <2>3. IsFiniteSet(Backlog') /\ Cardinality(Backlog') \in Nat
    <3>1. Backlog' \subseteq Backlog \cup {k}
      BY <1>1, <1>2 DEF Backlog, ClientOnly
    <3>2. IsFiniteSet(Backlog \cup {k})
      BY Finite, FS_AddElement
    <3> QED BY <3>1, <3>2, FS_Subset, FS_CardinalityType
  <2>4. Cardinality(Backlog') <= Cardinality(FreeFd)
    BY <1>1, <2>2, <2>3, Finite
  <2> QED BY <1>1, <2>1, <2>4 DEF IInv, FdInv, ClientOnly
<1>5. ArrayInv' /\ ScanInv'
  BY <1>1, ClientFrame
<1>6. StreamInv'
  BY <1>1, <1>2 DEF IInv, StreamInv, Framing, ServerConn, ClientOnly
<1>7. ReplyInv'
  BY <1>1, <1>2 DEF IInv, ReplyInv, ReplyOwner, Abandoned, Pending, ClientOnly
<1> QED BY <1>3, <1>4, <1>5, <1>6, <1>7 DEF IInv

\* Writing a fragment keeps the invariant.
LEMMA SendInv ==
    ASSUME IInv, NEW k \in Conns, Send(k)
    PROVE  IInv'
<1>1. /\ ClientOnly /\ UNCHANGED <<peer, died>>
      /\ peer[k] = "open" /\ k \notin await /\ written[k] < 2 * MaxMsg
      /\ written' = [written EXCEPT ![k] = @ + 1]
      /\ \/ UNCHANGED <<sync, await>>
         \/ /\ written[k] % 2 # 0
            /\ sync' = [sync EXCEPT ![k] = @ \cup {written'[k] \div 2}]
            /\ await' = await \cup {k}
  BY DEF Send, Usable, ClientOnly, array
<1>2. /\ written[k] \in Nat /\ MaxMsg \in Nat
      /\ \A x \in Conns : written'[x] = IF x = k THEN written[k] + 1 ELSE written[x]
  BY <1>1, TransportAssumption DEF IInv, TypeOK
<1>3. written[k] % 2 # 0 => written'[k] \div 2 \in 1..MaxMsg
  BY <1>1, <1>2
<1>4. TypeOK'
  <2>1. written' \in [Conns -> 0..2 * MaxMsg]
    BY <1>1, <1>2 DEF IInv, TypeOK
  <2>2. sync' \in [Conns -> SUBSET (1..MaxMsg)] /\ await' \subseteq Conns
    <3>1. CASE UNCHANGED <<sync, await>>
      BY <3>1 DEF IInv, TypeOK
    <3>2. CASE /\ written[k] % 2 # 0
               /\ sync' = [sync EXCEPT ![k] = @ \cup {written'[k] \div 2}]
               /\ await' = await \cup {k}
      <4> DEFINE n == written'[k] \div 2
      <4>1. n \in 1..MaxMsg
        BY <1>3, <3>2
      <4>2. sync' = [sync EXCEPT ![k] = @ \cup {n}]
        BY <3>2
      <4> HIDE DEF n
      <4> QED BY <3>2, <4>1, <4>2 DEF IInv, TypeOK
    <3> QED BY <1>1, <3>1, <3>2
  <2> QED BY <1>1, <2>1, <2>2 DEF IInv, TypeOK, ClientOnly
<1>5. FdInv'
  <2>1. Backlog' = Backlog
    BY <1>1 DEF Backlog, ClientOnly
  <2> QED BY <1>1, <2>1, FdFrame DEF IInv, ClientOnly
<1>6. ArrayInv' /\ ScanInv'
  BY <1>1, ClientFrame
<1>7. StreamInv'
  <2>1. read[k] \in Nat
    BY DEF IInv, TypeOK
  <2> QED BY <1>1, <1>2, <2>1 DEF IInv, StreamInv, Framing, ServerConn, ClientOnly
<1>8. ReplyInv'
  <2>1. CASE UNCHANGED <<sync, await>>
    BY <1>1, <2>1, ReplyFrame DEF IInv, ClientOnly
  <2>2. CASE /\ sync' = [sync EXCEPT ![k] = @ \cup {written'[k] \div 2}]
             /\ await' = await \cup {k}
    <3>1. \A x \in Conns : x # k => sync'[x] = sync[x]
      BY <2>2 DEF IInv, TypeOK
    <3>2. sync'[k] = sync[k] \cup {written'[k] \div 2}
      BY <2>2 DEF IInv, TypeOK
    <3>3. \A x \in Conns : Abandoned(x)' <=> Abandoned(x)
      BY <1>1 DEF Abandoned, ClientOnly
    <3>4. \A x \in Conns : x # k => \A n \in 1..MaxMsg : Pending(x, n)' <=> Pending(x, n)
      BY <1>1, <3>1 DEF Pending, ClientOnly
    <3>5. \A n \in 1..MaxMsg : Pending(k, n)' => Pending(k, n) \/ n = written'[k] \div 2
      BY <1>1, <3>2 DEF Pending, ClientOnly
    <3>6. srv.pc # "closed" => \A x \in Conns : ~Abandoned(x)' =>
            /\ \A n \in 1..MaxMsg : Pending(x, n)' => x \in await'
            /\ \A m, n \in 1..MaxMsg : Pending(x, m)' /\ Pending(x, n)' => m = n
      <4> SUFFICES ASSUME srv.pc # "closed", NEW x \in Conns, ~Abandoned(x)
                   PROVE  /\ \A n \in 1..MaxMsg : Pending(x, n)' => x \in await'
                          /\ \A m, n \in 1..MaxMsg : Pending(x, m)' /\ Pending(x, n)' => m = n
        BY <3>3
      <4>1. CASE x # k
        BY <2>2, <3>4, <4>1 DEF IInv, ReplyInv
      <4>2. CASE x = k
        <5>1. \A n \in 1..MaxMsg : ~Pending(k, n)
          BY <1>1, <4>2 DEF IInv, ReplyInv
        <5> QED BY <2>2, <3>5, <4>2, <5>1
      <4> QED BY <4>1, <4>2
    <3>7. await' \subseteq {x \in Conns : peer[x] = "open"}
      BY <1>1, <2>2 DEF IInv, ReplyInv
    <3>8. ReplyOwner'
      BY <1>1, <3>3 DEF IInv, ReplyInv, ReplyOwner, ClientOnly, Abandoned
    <3> QED BY <1>1, <3>6, <3>7, <3>8 DEF IInv, ReplyInv, ClientOnly, Abandoned
  <2> QED BY <1>1, <2>1, <2>2
<1> QED BY <1>4, <1>5, <1>6, <1>7, <1>8 DEF IInv

\* A client that closes, dies or reads the end of the stream keeps the
\* invariant: only a death while it waits leaves a reply without its client.
LEMMA LeaveInv ==
    ASSUME IInv, NEW k \in Conns, ClientClose(k) \/ ClientDies(k) \/ ClientEof(k)
    PROVE  IInv'
<1>1. /\ ClientOnly /\ UNCHANGED <<written, sync>>
      /\ peer' = [peer EXCEPT ![k] = "closed"]
      /\ await' = await \ {k}
  BY DEF ClientClose, ClientDies, ClientEof, Usable, ClientOnly, array, IInv, ReplyInv
<1>2. /\ peer[k] = "open" /\ died \subseteq died' /\ died' \subseteq Conns
      /\ k \in await => k \in died' \/ srv.pc = "closed"
      /\ died' \subseteq died \cup {k}
  BY DEF ClientClose, ClientDies, ClientEof, Usable, IInv, ReplyInv, TypeOK
<1>3. \A x \in Conns : peer'[x] = IF x = k THEN "closed" ELSE peer[x]
  BY <1>1 DEF IInv, TypeOK
<1>4. TypeOK'
  BY <1>1, <1>2 DEF IInv, TypeOK, ClientOnly
<1>5. FdInv'
  <2>1. Backlog' = Backlog
    BY <1>1, <1>2, <1>3 DEF Backlog, ClientOnly
  <2> QED BY <1>1, <2>1, FdFrame DEF IInv, ClientOnly
<1>6. ArrayInv' /\ ScanInv'
  BY <1>1, ClientFrame
<1>7. StreamInv'
  BY <1>1, <1>2, <1>3 DEF IInv, StreamInv, Framing, ServerConn, ClientOnly
<1>8. ReplyInv'
  <2>1. \A x \in Conns : Abandoned(x) => Abandoned(x)'
    BY <1>1, <1>2 DEF Abandoned, ClientOnly
  <2>2. \A x \in Conns, n \in 1..MaxMsg : Pending(x, n)' <=> Pending(x, n)
    BY <1>1 DEF Pending, ClientOnly
  <2>3. srv.pc # "closed" => \A x \in Conns : ~Abandoned(x)' =>
            /\ \A n \in 1..MaxMsg : Pending(x, n)' => x \in await'
            /\ \A m, n \in 1..MaxMsg : Pending(x, m)' /\ Pending(x, n)' => m = n
    <3> SUFFICES ASSUME srv.pc # "closed", NEW x \in Conns, ~Abandoned(x)'
                 PROVE  /\ \A n \in 1..MaxMsg : Pending(x, n) => x \in await'
                        /\ \A m, n \in 1..MaxMsg : Pending(x, m) /\ Pending(x, n) => m = n
      BY <2>2
    <3>1. ~Abandoned(x)
      BY <2>1
    <3>2. x = k => k \notin await
      BY <1>2 DEF Abandoned
    <3> QED BY <1>1, <3>1, <3>2 DEF IInv, ReplyInv
  <2>4. ReplyOwner'
    <3> SUFFICES ASSUME NEW x \in Conns, NEW a \in answered[x]
                 PROVE  a[1] = x \/ Abandoned(a[1])'
      BY <1>1 DEF ReplyOwner, ClientOnly
    <3>1. a[1] \in Conns
      BY DEF IInv, TypeOK
    <3> QED BY <2>1, <3>1 DEF IInv, ReplyInv, ReplyOwner
  <2>5. \A q \in replies : /\ q.msg <= log[q.from]
                           /\ fdmap[q.fd] = q.from \/ Abandoned(q.from)'
    <3> SUFFICES ASSUME NEW q \in replies
                 PROVE  q.msg <= log[q.from] /\ (fdmap[q.fd] = q.from \/ Abandoned(q.from)')
      OBVIOUS
    <3>1. q.from \in Conns
      BY DEF IInv, TypeOK
    <3> QED BY <2>1, <3>1 DEF IInv, ReplyInv
  <2>6. await' \subseteq {x \in Conns : peer'[x] = "open"}
    BY <1>1, <1>3 DEF IInv, ReplyInv
  <2> QED BY <1>1, <2>3, <2>4, <2>5, <2>6 DEF IInv, ReplyInv, ClientOnly
<1> QED BY <1>4, <1>5, <1>6, <1>7, <1>8 DEF IInv

-----------------------------------------------------------------------------
(* The receive thread. *)

\* ArraysMatch, position by position.
LEMMA Positions ==
    ASSUME NEW c \in Seq(Fd)
    PROVE  /\ Len(c) \in Nat
           /\ IsInjective(c) <=> \A i, j \in 1..Len(c) : c[i] = c[j] => i = j
           /\ ToSet(c) = {f \in Fd : \E i \in 1..Len(c) : c[i] = f}
<1>1. Len(c) \in Nat /\ DOMAIN c = 1..Len(c) /\ \A i \in 1..Len(c) : c[i] \in Fd
  OBVIOUS
<1> QED BY <1>1 DEF IsInjective, ToSet

\* The length of the arrays, and which descriptors they hold.
LEMMA ArrayFacts ==
    ASSUME IInv
    PROVE  /\ Len(poll) \in Nat /\ Len(conn) \in Nat
           /\ \A i \in 1..Len(poll) : poll[i] \in [fd : Fd, ready : BOOLEAN]
           /\ proto \in {"socket", "uds"}
           /\ proto = "socket" =>
                /\ Len(conn) = Len(poll) /\ Len(poll) <= Cardinality(Fd) /\ refs = Len(conn)
                /\ \A i \in 1..Len(poll) : conn[i] = poll[i].fd
                /\ \A i, j \in 1..Len(poll) : conn[i] = conn[j] => i = j
                /\ srv.pc # "closed" =>
                     \A f \in Fd : fdmap[f] # None <=> \E i \in 1..Len(poll) : conn[i] = f
<1>1. conn \in Seq(Fd) /\ poll \in Seq([fd : Fd, ready : BOOLEAN])
  BY DEF IInv, TypeOK
<1>2. Len(poll) \in Nat /\ \A i \in 1..Len(poll) : poll[i] \in [fd : Fd, ready : BOOLEAN]
  <2> DEFINE E == [fd : Fd, ready : BOOLEAN]
  <2>1. poll \in Seq(E)
    BY <1>1
  <2> HIDE DEF E
  <2>2. Len(poll) \in Nat /\ \A i \in 1..Len(poll) : poll[i] \in E
    BY <2>1, SeqElements
  <2> QED BY <2>2 DEF E
<1>3. proto \in {"socket", "uds"}
  BY TransportAssumption DEF IInv, TypeOK
<1>4. ASSUME proto = "socket"
      PROVE  /\ Len(conn) = Len(poll) /\ Len(poll) <= Cardinality(Fd) /\ refs = Len(conn)
             /\ \A i \in 1..Len(poll) : conn[i] = poll[i].fd
             /\ \A i, j \in 1..Len(poll) : conn[i] = conn[j] => i = j
             /\ srv.pc # "closed" =>
                  \A f \in Fd : fdmap[f] # None <=> \E i \in 1..Len(poll) : conn[i] = f
  <2>1. /\ Len(conn) = Len(poll) /\ refs = Len(conn) /\ IsInjective(conn)
        /\ \A i \in 1..Len(poll) : conn[i] = poll[i].fd
        /\ srv.pc # "closed" => ToSet(conn) = Fd \ FreeFd
    BY <1>4 DEF IInv, ArrayInv, ArraysMatch
  <2>2. \A i, j \in 1..Len(conn) : conn[i] = conn[j] => i = j
    BY <1>1, <2>1, Positions
  <2>3. Len(conn) <= Cardinality(Fd)
    BY <1>1, <2>2, ArrayBound
  <2>4. srv.pc # "closed" =>
          \A f \in Fd : fdmap[f] # None <=> \E i \in 1..Len(conn) : conn[i] = f
    <3>1. \A f \in Fd : f \in ToSet(conn) <=> \E i \in 1..Len(conn) : conn[i] = f
      BY <1>1, Positions
    <3> QED BY <2>1, <3>1 DEF FreeFd
  <2> QED BY <2>1, <2>2, <2>3, <2>4
<1> QED BY <1>1, <1>2, <1>3, <1>4, Positions

\* The same in the other direction, after a step.
LEMMA ArrayStep ==
    ASSUME conn' \in Seq(Fd),
           proto' = "uds" => conn' = <<>> /\ refs' = 0 /\ nready' = 0,
           proto' = "socket" =>
             /\ Len(conn') = Len(poll') /\ refs' = Len(conn')
             /\ \A i \in 1..Len(poll') : conn'[i] = poll'[i].fd
             /\ \A i, j \in 1..Len(poll') : conn'[i] = conn'[j] => i = j
             /\ srv'.pc # "closed" =>
                  \A f \in Fd : fdmap'[f] # None <=> \E i \in 1..Len(poll') : conn'[i] = f
    PROVE  ArrayInv'
<1>1. ASSUME proto' = "socket" PROVE ArraysMatch'
  <2>1. IsInjective(conn')
    BY <1>1, Positions
  <2>2. srv'.pc # "closed" => ToSet(conn') = Fd \ FreeFd'
    <3>1. ToSet(conn') = {f \in Fd : \E i \in 1..Len(conn') : conn'[i] = f}
      BY Positions
    <3> QED BY <1>1, <3>1 DEF FreeFd
  <2> QED BY <1>1, <2>1, <2>2 DEF ArraysMatch
<1>2. ArraysMatch'
  BY <1>1 DEF ArraysMatch
<1> QED BY <1>2 DEF ArrayInv

\* Polling keeps the invariant.
LEMMA PollInv ==
    ASSUME IInv, Poll
    PROVE  IInv'
<1> DEFINE n == Len(poll)
           R == {i \in 1..n : Ready(poll[i].fd)}
           b == IF Backlog # {} THEN 1 ELSE 0
<1>1. /\ UNCHANGED <<proto, accepted, peer, written, sync, await, died, fdmap, read, log,
                     conn, refs, srv, replies, answered>>
      /\ proto = "socket" /\ srv.pc = "wait"
      /\ poll' = [i \in 1..n |-> [poll[i] EXCEPT !.ready = Ready(poll[i].fd)]]
      /\ listen' = (Backlog # {}) /\ index' = n
      /\ nready' = Cardinality(R) + b
  BY DEF Poll, client
<1>2. n \in Nat /\ n <= Cardinality(Fd) /\ \A i \in 1..n : poll[i] \in [fd : Fd, ready : BOOLEAN]
  BY <1>1, ArrayFacts
<1>3. \A f : Ready(f) \in BOOLEAN
  BY DEF Ready
<1>4. /\ poll' \in Seq([fd : Fd, ready : BOOLEAN]) /\ Len(poll') = n
      /\ \A i \in 1..n : poll'[i].fd = poll[i].fd /\ poll'[i].ready = Ready(poll[i].fd)
  <2>1. \A i \in 1..n : [poll[i] EXCEPT !.ready = Ready(poll[i].fd)] \in [fd : Fd, ready : BOOLEAN]
    BY <1>2, <1>3
  <2> HIDE DEF n
  <2>2. poll' \in [1..n -> [fd : Fd, ready : BOOLEAN]]
    BY <1>1, <2>1
  <2>3. poll' \in Seq([fd : Fd, ready : BOOLEAN]) /\ Len(poll') = n
    <3> DEFINE E == [fd : Fd, ready : BOOLEAN]
    <3>1. poll' \in [1..n -> E] /\ n \in Nat
      BY <1>2, <2>2
    <3> HIDE DEF E
    <3>2. poll' \in Seq(E) /\ Len(poll') = n
      BY <3>1, FunctionSeq
    <3> QED BY <3>2 DEF E
  <2>4. \A i \in 1..n : poll'[i].fd = poll[i].fd /\ poll'[i].ready = Ready(poll[i].fd)
    BY <1>1, <1>2
  <2> QED BY <2>3, <2>4
<1>5. IsFiniteSet(R) /\ Cardinality(R) \in Nat /\ Cardinality(R) <= n
  <2> HIDE DEF n
  <2>1. IsFiniteSet(1..n) /\ Cardinality(1..n) = n
    BY <1>2, FS_Interval
  <2> QED BY <2>1, FS_Subset, FS_CardinalityType
<1>6. ToScan' = R
  BY <1>1, <1>2, <1>4 DEF ToScan
<1> HIDE DEF n, R
<1>7. TypeOK'
  <2>1. nready' \in 0..Cardinality(Fd) + 1 /\ index' \in -1..Cardinality(Fd) /\ listen' \in BOOLEAN
    BY <1>1, <1>2, <1>5, Finite
  <2> QED BY <1>1, <1>4, <2>1 DEF IInv, TypeOK
<1>8. FdInv'
  <2>1. Backlog' = Backlog /\ FreeFd' = FreeFd
    BY <1>1 DEF Backlog, FreeFd
  <2> QED BY <1>1, <1>4, <2>1 DEF IInv, FdInv, n
<1>9. ArrayInv'
  <2>1. conn' \in Seq(Fd) /\ conn' = conn /\ refs' = refs /\ fdmap' = fdmap /\ srv' = srv
    BY <1>1 DEF IInv, TypeOK
  <2>2. /\ Len(conn) = Len(poll) /\ refs = Len(conn)
        /\ \A i \in 1..Len(poll) : conn[i] = poll[i].fd
        /\ \A i, j \in 1..Len(poll) : conn[i] = conn[j] => i = j
        /\ \A f \in Fd : fdmap[f] # None <=> \E i \in 1..Len(poll) : conn[i] = f
    BY <1>1, ArrayFacts
  <2> QED BY <1>1, <1>4, <2>1, <2>2, ArrayStep DEF n
<1>10. ScanInv'
  <2>1. nready' = Cardinality(ToScan') + (IF listen' THEN 1 ELSE 0)
    BY <1>1, <1>6
  <2>2. index' <= Len(poll') /\ srv'.pc # "recv"
    BY <1>1, <1>2, <1>4
  <2> QED BY <2>1, <2>2 DEF ScanInv
<1>11. StreamInv' /\ ReplyInv'
  BY <1>1, StreamFrame, ReplyFrame DEF IInv
<1> QED BY <1>7, <1>8, <1>9, <1>10, <1>11 DEF IInv

\* Returning the next ready connection keeps the invariant.
LEMMA ScanStepInv ==
    ASSUME IInv, Scan
    PROVE  IInv'
<1> DEFINE i == Max(ToScan)
<1>1. /\ UNCHANGED <<proto, accepted, peer, written, sync, await, died, fdmap, read, log,
                     conn, listen, refs, replies, answered>>
      /\ proto = "socket" /\ srv.pc = "wait" /\ nready > 0 /\ ToScan # {}
      /\ poll' = [poll EXCEPT ![i].ready = FALSE] /\ index' = i - 1
      /\ srv' = [pc |-> "recv", fd |-> conn[i], part |-> 0]
      /\ nready' = nready - 1
  BY DEF Scan, Scanning, client
<1>2. /\ Len(poll) \in Nat /\ Len(poll) <= Cardinality(Fd)
      /\ \A j \in 1..Len(poll) : poll[j] \in [fd : Fd, ready : BOOLEAN] /\ conn[j] = poll[j].fd
      /\ poll \in Seq([fd : Fd, ready : BOOLEAN])
  BY <1>1, ArrayFacts DEF IInv, TypeOK
<1>3. i \in ToScan /\ i \in 1..Len(poll) /\ \A j \in ToScan : j <= i
  <2>1. ToScan \subseteq 1..Len(poll)
    BY DEF ToScan
  <2> QED BY <1>1, <1>2, <2>1, MaxPos
<1> HIDE DEF i
<1>4. /\ poll' \in Seq([fd : Fd, ready : BOOLEAN]) /\ Len(poll') = Len(poll)
      /\ \A j \in 1..Len(poll) : /\ poll'[j].fd = poll[j].fd
                                 /\ j # i => poll'[j].ready = poll[j].ready
  <2> DEFINE e == [poll[i] EXCEPT !.ready = FALSE]
  <2>1. e \in [fd : Fd, ready : BOOLEAN] /\ e.fd = poll[i].fd
    BY <1>2, <1>3
  <2>2. poll' = [poll EXCEPT ![i] = e]
    BY <1>1
  <2> HIDE DEF e
  <2> QED BY <1>2, <1>3, <2>1, <2>2, ExceptSeq
<1>5. ToScan' = ToScan \ {i}
  <2>1. \A j \in 1..Len(poll) : j \in ToScan' <=> j \in ToScan /\ j # i
    <3> SUFFICES ASSUME NEW j \in 1..Len(poll) PROVE j \in ToScan' <=> j \in ToScan /\ j # i
      OBVIOUS
    <3>1. index \in Int /\ i <= index
      BY <1>3 DEF IInv, TypeOK, ToScan
    <3>2. j \in ToScan' <=> j <= i - 1 /\ poll'[j].ready
      BY <1>1, <1>4 DEF ToScan
    <3>3. j \in ToScan <=> j <= index /\ poll[j].ready
      BY DEF ToScan
    <3> QED BY <1>2, <1>3, <1>4, <3>1, <3>2, <3>3
  <2>2. ToScan' \subseteq 1..Len(poll) /\ ToScan \subseteq 1..Len(poll)
    BY <1>4 DEF ToScan
  <2> QED BY <2>1, <2>2
<1>6. Cardinality(ToScan') = Cardinality(ToScan) - 1 /\ Cardinality(ToScan) \in Nat
  BY <1>2, <1>3, <1>5, ScanFinite, FS_RemoveElement
<1>7. conn[i] \in Fd /\ fdmap[conn[i]] # None
  BY <1>2, <1>3 DEF IInv, FdInv
<1>8. TypeOK'
  <2>1. index' \in -1..Cardinality(Fd) /\ nready' \in 0..Cardinality(Fd) + 1
    BY <1>1, <1>2, <1>3, Finite DEF IInv, TypeOK
  <2>2. srv' \in [pc : {"wait", "recv", "closed"}, fd : Fd \cup {0}, part : 0..1]
    BY <1>1, <1>7
  <2> QED BY <1>1, <1>4, <2>1, <2>2 DEF IInv, TypeOK
<1>9. FdInv'
  <2>1. Backlog' = Backlog /\ FreeFd' = FreeFd
    BY <1>1 DEF Backlog, FreeFd
  <2> QED BY <1>1, <1>4, <1>7, <2>1 DEF IInv, FdInv
<1>10. ArrayInv'
  BY <1>1, <1>4, ArrayFacts, ArrayStep DEF IInv, TypeOK
<1>11. ScanInv'
  <2>1. nready' = Cardinality(ToScan') + (IF listen' THEN 1 ELSE 0)
    BY <1>1, <1>6 DEF IInv, ScanInv
  <2>2. index' \in 0..(Len(poll') - 1) /\ poll'[index' + 1].fd = srv'.fd
    BY <1>1, <1>2, <1>3, <1>4
  <2> QED BY <1>2, <1>4, <2>1, <2>2 DEF ScanInv
<1>12. StreamInv'
  BY <1>1 DEF IInv, StreamInv, Framing
<1>13. ReplyInv'
  BY <1>1, ReplyFrame DEF IInv
<1> QED BY <1>8, <1>9, <1>10, <1>11, <1>12, <1>13 DEF IInv

\* What accepting a connection does to the descriptors, over both protocols.
LEMMA AcceptedInv ==
    ASSUME IInv, NEW k \in Backlog, Accepted(k), srv.pc = "wait",
           poll' = Append(poll, [fd |-> Min(FreeFd), ready |-> FALSE]),
           UNCHANGED <<peer, written, sync, await, died, read, log, srv, replies, answered>>
    PROVE  /\ Min(FreeFd) \in Fd /\ fdmap[Min(FreeFd)] = None /\ k \in Conns
           /\ fdmap' \in [Fd -> Conns \cup {None}] /\ accepted' \subseteq Conns
           /\ \A g \in Fd : fdmap'[g] = IF g = Min(FreeFd) THEN k ELSE fdmap[g]
           /\ poll' \in Seq([fd : Fd, ready : BOOLEAN]) /\ Len(poll') = Len(poll) + 1
           /\ poll'[Len(poll) + 1] = [fd |-> Min(FreeFd), ready |-> FALSE]
           /\ \A i \in 1..Len(poll) : poll'[i] = poll[i]
           /\ FdInv' /\ StreamInv' /\ ReplyInv'
<1> DEFINE f == Min(FreeFd)
           e == [fd |-> f, ready |-> FALSE]
           E == [fd : Fd, ready : BOOLEAN]
<1>1. f \in Fd /\ fdmap[f] = None
  BY AcceptFd DEF IInv
<1>2. k \in Conns /\ k \notin accepted /\ k # None
  BY TransportAssumption DEF Backlog
<1>3. accepted' = accepted \cup {k} /\ fdmap' = [fdmap EXCEPT ![f] = k]
  BY DEF Accepted
<1> HIDE DEF f
<1>4. fdmap \in [Fd -> Conns \cup {None}] /\ accepted \subseteq Conns /\ poll \in Seq(E)
  BY DEF IInv, TypeOK
<1>5. e \in E /\ e.fd = f /\ poll' = Append(poll, e)
  BY <1>1 DEF f
<1>6. fdmap' \in [Fd -> Conns \cup {None}] /\ \A g \in Fd : fdmap'[g] = IF g = f THEN k ELSE fdmap[g]
  BY <1>1, <1>2, <1>3, <1>4
<1>7. /\ poll' \in Seq(E) /\ Len(poll') = Len(poll) + 1 /\ Len(poll) \in Nat
      /\ poll'[Len(poll) + 1] = e
      /\ \A i \in 1..Len(poll) : poll'[i] = poll[i]
  <2> HIDE DEF E, e
  <2> QED BY <1>4, <1>5, AppendProperties
<1>8. FdInv'
  <2>1. FreeFd' = FreeFd \ {f} /\ f \in FreeFd
    BY <1>1, <1>2, <1>6 DEF FreeFd
  <2>2. Backlog' = Backlog \ {k}
    BY <1>3 DEF Backlog
  <2>3. /\ Cardinality(FreeFd') = Cardinality(FreeFd) - 1
        /\ Cardinality(Backlog') = Cardinality(Backlog) - 1
    BY <2>1, <2>2, Finite, FS_RemoveElement
  <2>4. Cardinality(Backlog') <= Cardinality(FreeFd')
    BY <2>3, Finite DEF IInv, FdInv
  <2>5. \A g, h \in Fd : fdmap'[g] = fdmap'[h] /\ fdmap'[g] # None => g = h
    BY <1>2, <1>6 DEF IInv, FdInv
  <2>6. \A g \in Fd : fdmap'[g] # None => fdmap'[g] \in accepted'
    BY <1>3, <1>6 DEF IInv, FdInv
  <2>7. \A i \in 1..Len(poll') : fdmap'[poll'[i].fd] # None
    <3>1. \A i \in 1..Len(poll) : poll[i].fd \in Fd /\ fdmap[poll[i].fd] # None
      BY ArrayFacts DEF IInv, FdInv
    <3>2. ASSUME NEW i \in 1..Len(poll') PROVE fdmap'[poll'[i].fd] # None
      <4>1. CASE i = Len(poll) + 1
        BY <1>1, <1>2, <1>5, <1>6, <1>7, <4>1
      <4>2. CASE i \in 1..Len(poll)
        BY <1>2, <1>6, <1>7, <3>1, <4>2
      <4> QED BY <1>7, <4>1, <4>2
    <3> QED BY <3>2
  <2> QED BY <2>4, <2>5, <2>6, <2>7 DEF FdInv
<1>9. StreamInv'
  BY DEF IInv, StreamInv, Framing
<1>10. ReplyInv'
  <2>1. \A q \in replies : /\ q.msg <= log[q.from]
                           /\ fdmap'[q.fd] = q.from \/ Abandoned(q.from)
    <3> SUFFICES ASSUME NEW q \in replies, fdmap[q.fd] = q.from
                 PROVE  fdmap'[q.fd] = q.from
      BY DEF IInv, ReplyInv
    <3>1. q.from \in Conns /\ q.fd \in Fd
      BY DEF IInv, TypeOK
    <3> QED BY <1>1, <1>6, <3>1, TransportAssumption
  <2> QED BY <2>1 DEF IInv, ReplyInv, ReplyOwner, Abandoned, Pending
<1> QED BY <1>1, <1>2, <1>3, <1>4, <1>6, <1>7, <1>8, <1>9, <1>10 DEF f

\* Accepting a connection on a socket keeps the invariant.
LEMMA AcceptInv ==
    ASSUME IInv, NEW k \in Conns, Accept(k)
    PROVE  IInv'
<1> DEFINE f == Min(FreeFd)
<1>1. /\ UNCHANGED <<proto, peer, written, sync, await, died, read, log, srv, replies, answered>>
      /\ proto = "socket" /\ srv.pc = "wait" /\ k \in Backlog /\ Accepted(k)
      /\ nready > 0 /\ ToScan = {} /\ listen
      /\ poll' = Append(poll, [fd |-> f, ready |-> FALSE]) /\ conn' = Append(conn, f)
      /\ listen' = FALSE /\ index' = -1 /\ nready' = nready - 1 /\ refs' = refs + 1
  BY DEF Accept, Scanning, client
<1>2. /\ f \in Fd /\ fdmap[f] = None /\ k \in Conns
      /\ fdmap' \in [Fd -> Conns \cup {None}] /\ accepted' \subseteq Conns
      /\ \A g \in Fd : fdmap'[g] = IF g = f THEN k ELSE fdmap[g]
      /\ poll' \in Seq([fd : Fd, ready : BOOLEAN]) /\ Len(poll') = Len(poll) + 1
      /\ poll'[Len(poll) + 1] = [fd |-> f, ready |-> FALSE]
      /\ \A i \in 1..Len(poll) : poll'[i] = poll[i]
      /\ FdInv' /\ StreamInv' /\ ReplyInv'
  BY <1>1, AcceptedInv
<1> HIDE DEF f
<1>3. /\ Len(poll) \in Nat /\ Len(conn) = Len(poll) /\ refs = Len(conn)
      /\ \A i \in 1..Len(poll) : conn[i] = poll[i].fd
      /\ \A i, j \in 1..Len(poll) : conn[i] = conn[j] => i = j
      /\ \A g \in Fd : fdmap[g] # None <=> \E i \in 1..Len(poll) : conn[i] = g
  BY <1>1, ArrayFacts
<1>4. /\ conn' \in Seq(Fd) /\ Len(conn') = Len(conn) + 1 /\ conn'[Len(conn) + 1] = f
      /\ \A i \in 1..Len(conn) : conn'[i] = conn[i]
  BY <1>1, <1>2, AppendProperties DEF IInv, TypeOK
<1>5. \A i, j \in 1..Len(poll') : conn'[i] = conn'[j] => i = j
  <2>1. \A i \in 1..Len(poll) : conn[i] # f
    BY <1>2, <1>3
  <2> DEFINE n == Len(poll)
  <2>2. n \in Nat /\ Len(poll') = n + 1 /\ Len(conn) = n
    BY <1>2, <1>3
  <2>3. /\ conn'[n + 1] = f /\ \A i \in 1..n : conn'[i] = conn[i] /\ conn[i] # f
        /\ \A i, j \in 1..n : conn[i] = conn[j] => i = j
    BY <1>3, <1>4, <2>1
  <2> HIDE DEF n
  <2> QED BY <2>2, <2>3
<1>6. ArrayInv'
  <2>1. \A i \in 1..Len(poll') : conn'[i] = poll'[i].fd
    BY <1>2, <1>3, <1>4
  <2>2. \A g \in Fd : fdmap'[g] # None <=> \E i \in 1..Len(poll') : conn'[i] = g
    <3> SUFFICES ASSUME NEW g \in Fd
                 PROVE  fdmap'[g] # None <=> \E i \in 1..Len(poll') : conn'[i] = g
      OBVIOUS
    <3>1. k # None
      BY <1>2, TransportAssumption
    <3>2. CASE g = f
      <4>1. Len(poll) + 1 \in 1..Len(poll') /\ conn'[Len(poll) + 1] = g
        BY <1>2, <1>3, <1>4, <3>2
      <4> QED BY <1>2, <3>1, <3>2, <4>1
    <3>3. CASE g # f
      <4>1. (\E i \in 1..Len(poll') : conn'[i] = g) <=> (\E i \in 1..Len(poll) : conn[i] = g)
        <5> DEFINE n == Len(poll)
        <5>1. n \in Nat /\ Len(poll') = n + 1
          BY <1>2, <1>3
        <5>2. conn'[n + 1] # g /\ \A i \in 1..n : conn'[i] = conn[i]
          BY <1>3, <1>4, <3>3
        <5> HIDE DEF n
        <5>3. (\E i \in 1..(n + 1) : conn'[i] = g) <=> (\E i \in 1..n : conn[i] = g)
          BY <5>1, <5>2
        <5> QED BY <5>1, <5>3 DEF n
      <4> QED BY <1>2, <1>3, <3>3, <4>1
    <3> QED BY <3>2, <3>3
  <2>3. Len(conn') = Len(poll') /\ refs' = Len(conn') /\ proto' = "socket"
    BY <1>1, <1>2, <1>3, <1>4
  <2> QED BY <1>4, <1>5, <2>1, <2>2, <2>3, ArrayStep
<1>7. Len(conn') <= Cardinality(Fd)
  <2>1. \A i, j \in 1..Len(conn') : conn'[i] = conn'[j] => i = j
    BY <1>2, <1>3, <1>4, <1>5
  <2> QED BY <1>4, <2>1, ArrayBound
<1>8. TypeOK'
  <2>1. /\ refs' \in 0..Cardinality(Fd) /\ nready' \in 0..Cardinality(Fd) + 1
        /\ index' \in -1..Cardinality(Fd)
    BY <1>1, <1>3, <1>4, <1>7, Finite DEF IInv, TypeOK
  <2> QED BY <1>1, <1>2, <1>4, <2>1 DEF IInv, TypeOK
<1>9. ScanInv'
  <2>1. Cardinality(ToScan) = 0
    BY <1>1, FS_EmptySet
  <2>2. nready' = 0
    BY <1>1, <2>1 DEF IInv, ScanInv
  <2>3. ToScan' = {}
    BY <1>1, <1>2, <1>3 DEF ToScan
  <2>4. Cardinality(ToScan') = 0
    BY <2>3, FS_EmptySet
  <2>5. index' <= Len(poll') /\ ~listen' /\ srv'.pc # "recv"
    BY <1>1, <1>2, <1>3
  <2> QED BY <2>2, <2>4, <2>5 DEF ScanInv
<1> QED BY <1>2, <1>6, <1>8, <1>9 DEF IInv

\* Accepting a connection on a Unix domain socket keeps the invariant.
LEMMA AcceptUdsInv ==
    ASSUME IInv, NEW k \in Conns, AcceptUds(k)
    PROVE  IInv'
<1>1. /\ UNCHANGED <<proto, peer, written, sync, await, died, read, log, srv, replies, answered,
                     conn, listen, index, nready, refs>>
      /\ proto = "uds" /\ srv.pc = "wait" /\ k \in Backlog /\ Accepted(k)
      /\ poll' = Append(poll, [fd |-> Min(FreeFd), ready |-> FALSE])
  BY DEF AcceptUds, client
<1>2. /\ fdmap' \in [Fd -> Conns \cup {None}] /\ accepted' \subseteq Conns
      /\ poll' \in Seq([fd : Fd, ready : BOOLEAN])
      /\ FdInv' /\ StreamInv' /\ ReplyInv'
  BY <1>1, AcceptedInv
<1>3. TypeOK'
  BY <1>1, <1>2 DEF IInv, TypeOK
<1>4. ArrayInv' /\ ScanInv'
  BY <1>1 DEF IInv, ArrayInv, ArraysMatch, ScanInv
<1> QED BY <1>2, <1>3, <1>4 DEF IInv

\* Returning a ready Unix domain connection keeps the invariant.
LEMMA WaitUdsInv ==
    ASSUME IInv, WaitUds
    PROVE  IInv'
<1>1. /\ UNCHANGED <<proto, accepted, peer, written, sync, await, died, fdmap, read, log, conn,
                     listen, index, nready, refs, replies, answered>>
      /\ proto = "uds" /\ srv.pc = "wait"
  BY DEF WaitUds, client
<1>2. PICK i \in 1..Len(poll) :
        /\ srv' = [pc |-> "recv", fd |-> poll[i].fd, part |-> 0]
        /\ poll' = SwapOut(poll, i) \/ poll' = poll
  BY DEF WaitUds
<1>3. /\ Len(poll) \in Nat /\ poll \in Seq([fd : Fd, ready : BOOLEAN])
      /\ \A j \in 1..Len(poll) : poll[j].fd \in Fd /\ fdmap[poll[j].fd] # None
  BY ArrayFacts DEF IInv, TypeOK, FdInv
<1>4. /\ poll' \in Seq([fd : Fd, ready : BOOLEAN])
      /\ \A j \in 1..Len(poll') : \E l \in 1..Len(poll) : poll'[j] = poll[l]
  <2> DEFINE E == [fd : Fd, ready : BOOLEAN]
  <2>1. poll \in Seq(E)
    BY <1>3
  <2> HIDE DEF E
  <2>2. CASE poll' = poll
    BY <2>1, <2>2 DEF E
  <2>3. CASE poll' = SwapOut(poll, i)
    <3>1. /\ poll' \in Seq(E) /\ Len(poll') = Len(poll) - 1
          /\ \A j \in 1..(Len(poll) - 1) : \E l \in 1..Len(poll) : poll'[j] = poll[l]
      BY <2>1, <2>3, SwapOutSeq
    <3> QED BY <3>1 DEF E
  <2> QED BY <1>2, <2>2, <2>3
<1>5. TypeOK'
  <2>1. srv' \in [pc : {"wait", "recv", "closed"}, fd : Fd \cup {0}, part : 0..1]
    BY <1>2, <1>3
  <2> QED BY <1>1, <1>4, <2>1 DEF IInv, TypeOK
<1>6. FdInv'
  <2>1. Backlog' = Backlog /\ FreeFd' = FreeFd
    BY <1>1 DEF Backlog, FreeFd
  <2>2. \A j \in 1..Len(poll') : fdmap[poll'[j].fd] # None
    BY <1>3, <1>4
  <2>3. srv'.fd \in Fd /\ fdmap[srv'.fd] # None
    BY <1>2, <1>3
  <2> QED BY <1>1, <2>1, <2>2, <2>3 DEF IInv, FdInv
<1>7. ArrayInv' /\ ScanInv'
  BY <1>1 DEF IInv, ArrayInv, ArraysMatch, ScanInv
<1>8. StreamInv'
  BY <1>1, <1>2 DEF IInv, StreamInv, Framing
<1>9. ReplyInv'
  BY <1>1, <1>2, ReplyFrame DEF IInv
<1> QED BY <1>5, <1>6, <1>7, <1>8, <1>9 DEF IInv

-----------------------------------------------------------------------------
(* Receiving and replying. *)

\* Halves.
LEMMA Halves ==
    ASSUME NEW n \in Nat
    PROVE  /\ n % 2 \in {0, 1}
           /\ n % 2 = 0 => (n + 1) % 2 = 1 /\ (n + 1) \div 2 = n \div 2
           /\ n % 2 = 1 => (n + 1) % 2 = 0 /\ (n + 1) \div 2 = n \div 2 + 1
           /\ n % 2 = 0 => n = 2 * (n \div 2)
  OBVIOUS

\* Reading a fragment keeps the invariant.
LEMMA RecvInv ==
    ASSUME IInv, Recv
    PROVE  IInv'
<1> DEFINE k == ServerConn
           n == log[k] + 1
           q == [from |-> k, msg |-> n, fd |-> srv.fd]
<1>1. /\ UNCHANGED <<proto, accepted, peer, written, sync, await, died, fdmap, poll, conn,
                     listen, index, nready, refs, answered>>
      /\ srv.pc = "recv" /\ read[k] < written[k]
      /\ read' = [read EXCEPT ![k] = @ + 1]
      /\ srv.part = 0 => srv' = [srv EXCEPT !.part = 1] /\ UNCHANGED <<log, replies>>
      /\ srv.part # 0 =>
           /\ srv' = [srv EXCEPT !.pc = "wait"]
           /\ log' = [log EXCEPT ![k] = n]
           /\ replies' = IF n \notin sync[k] THEN replies ELSE replies \cup {q}
  BY DEF Recv, client, array
<1>2. /\ srv.fd \in Fd /\ k = fdmap[srv.fd] /\ k \in Conns
      /\ srv \in [pc : {"wait", "recv", "closed"}, fd : Fd \cup {0}, part : 0..1]
  BY <1>1 DEF IInv, TypeOK, FdInv, ServerConn
<1>3. srv'.fd = srv.fd /\ srv'.pc \in {"recv", "wait"} /\ srv'.part \in 0..1
  BY <1>1, <1>2
<1>4. /\ read[k] \in Nat /\ written[k] \in Nat /\ written[k] <= 2 * MaxMsg /\ MaxMsg \in Nat
      /\ log[k] = read[k] \div 2
      /\ \A x \in Conns : read'[x] = IF x = k THEN read[k] + 1 ELSE read[x]
  BY <1>1, <1>2, TransportAssumption DEF IInv, TypeOK, StreamInv, Framing
<1>5. srv.part = 0 => read[k] % 2 = 0
  BY <1>1, <1>2, <1>4, Halves DEF IInv, StreamInv, Framing
<1>6. srv.part # 0 => /\ srv.part = 1 /\ read[k] % 2 = 1 /\ n \in 1..MaxMsg
                      /\ (read[k] + 1) \div 2 = n
  <2> SUFFICES ASSUME srv.part # 0
               PROVE  /\ srv.part = 1 /\ read[k] % 2 = 1 /\ n \in 1..MaxMsg
                      /\ (read[k] + 1) \div 2 = n
    OBVIOUS
  <2>1. srv.part = 1
    BY <1>2
  <2>2. read[k] % 2 = 1
    BY <1>1, <2>1 DEF IInv, StreamInv
  <2>3. (read[k] + 1) \div 2 = n /\ (read[k] + 1) % 2 = 0
    BY <1>4, <2>2, Halves
  <2>4. n \in Nat /\ read[k] + 1 = 2 * n
    BY <1>4, <2>3, Halves
  <2> QED BY <1>1, <1>4, <2>1, <2>2, <2>3, <2>4
<1>7. \A x \in Conns : x # k => log'[x] = log[x]
  BY <1>1, <1>2 DEF IInv, TypeOK
<1>8. log'[k] = read'[k] \div 2
  <2>1. CASE srv.part = 0
    BY <1>1, <1>2, <1>4, <1>5, <2>1, Halves
  <2>2. CASE srv.part # 0
    <3>1. log'[k] = n
      BY <1>1, <1>2, <2>2 DEF IInv, TypeOK
    <3> QED BY <1>2, <1>4, <1>6, <2>2, <3>1
  <2> QED BY <2>1, <2>2
<1>9. TypeOK'
  <2>1. read' \in [Conns -> 0..2 * MaxMsg]
    BY <1>1, <1>2, <1>4 DEF IInv, TypeOK
  <2>2. /\ log' \in [Conns -> 0..MaxMsg]
        /\ replies' \subseteq [from : Conns, msg : 1..MaxMsg, fd : Fd]
        /\ srv' \in [pc : {"wait", "recv", "closed"}, fd : Fd \cup {0}, part : 0..1]
    <3>1. CASE srv.part = 0
      <4>1. srv' \in [pc : {"wait", "recv", "closed"}, fd : Fd \cup {0}, part : 0..1]
        BY <1>1, <1>2, <3>1
      <4>2. UNCHANGED <<log, replies>>
        BY <1>1, <3>1
      <4> QED BY <4>1, <4>2 DEF IInv, TypeOK
    <3>2. CASE srv.part # 0
      <4>1. n \in 0..MaxMsg /\ q \in [from : Conns, msg : 1..MaxMsg, fd : Fd]
        BY <1>2, <1>4, <1>6, <3>2
      <4>2. log' \in [Conns -> 0..MaxMsg]
        <5> HIDE DEF n
        <5> QED BY <1>1, <3>2, <4>1 DEF IInv, TypeOK
      <4>3. replies' \subseteq [from : Conns, msg : 1..MaxMsg, fd : Fd]
        <5> HIDE DEF q
        <5> QED BY <1>1, <3>2, <4>1 DEF IInv, TypeOK
      <4>4. srv' \in [pc : {"wait", "recv", "closed"}, fd : Fd \cup {0}, part : 0..1]
        BY <1>1, <1>2, <3>2
      <4> QED BY <4>2, <4>3, <4>4
    <3> QED BY <3>1, <3>2
  <2> QED BY <1>1, <2>1, <2>2 DEF IInv, TypeOK
<1>10. FdInv'
  <2>1. Backlog' = Backlog /\ FreeFd' = FreeFd
    BY <1>1 DEF Backlog, FreeFd
  <2> QED BY <1>1, <1>2, <1>3, <2>1 DEF IInv, FdInv
<1>11. ArrayInv'
  <2>1. srv'.pc # "closed" /\ srv.pc # "closed"
    BY <1>1, <1>3
  <2> QED BY <1>1, <2>1 DEF IInv, ArrayInv, ArraysMatch, FreeFd
<1>12. ScanInv'
  BY <1>1, <1>3 DEF IInv, ScanInv, ToScan
<1>13. StreamInv'
  <2>1. ServerConn' = k
    BY <1>1, <1>3 DEF ServerConn
  <2>2. \A x \in Conns : log'[x] = read'[x] \div 2
    BY <1>4, <1>7, <1>8 DEF IInv, StreamInv, Framing
  <2>3. \A x \in Conns : read'[x] <= written'[x]
    BY <1>1, <1>2, <1>4 DEF IInv, StreamInv
  <2>4. \A x \in Conns : x # k /\ read[x] % 2 = 1 => peer[x] = "closed" /\ written[x] = read[x]
    BY DEF IInv, StreamInv, Framing
  <2>5. CASE srv.part = 0
    <3>1. srv'.pc = "recv" /\ srv'.part = 1 /\ read'[k] % 2 = 1
      BY <1>1, <1>2, <1>4, <1>5, <2>5, Halves
    <3> QED BY <1>1, <1>4, <2>1, <2>2, <2>3, <2>4, <3>1 DEF StreamInv, Framing
  <2>6. CASE srv.part # 0
    <3>1. srv'.pc = "wait" /\ read'[k] % 2 # 1
      BY <1>1, <1>2, <1>4, <1>6, <2>6, Halves
    <3> QED BY <1>1, <1>4, <2>2, <2>3, <2>4, <3>1 DEF StreamInv, Framing
  <2> QED BY <2>5, <2>6
<1>14. ReplyInv'
  <2>1. CASE srv.part = 0
    BY <1>1, <1>3, <2>1, ReplyFrame DEF IInv
  <2>2. CASE srv.part # 0
    <3>1. /\ srv'.pc = "wait" /\ log'[k] = n /\ n > log[k] /\ log[k] \in Nat
          /\ replies' = replies \/ (n \in sync[k] /\ replies' = replies \cup {q})
      BY <1>1, <1>2, <1>4, <2>2 DEF IInv, TypeOK
    <3>2. \A x \in Conns : Abandoned(x)' <=> Abandoned(x)
      BY <1>1 DEF Abandoned
    <3>3. \A x \in Conns, m \in 1..MaxMsg : Pending(x, m)' => Pending(x, m)
      <4> SUFFICES ASSUME NEW x \in Conns, NEW m \in 1..MaxMsg, Pending(x, m)'
                   PROVE  Pending(x, m)
        OBVIOUS
      <4>1. CASE m \in sync[x] /\ m > log'[x]
        <5>1. m > log[x]
          BY <1>7, <3>1, <4>1
        <5> QED BY <4>1, <5>1 DEF Pending
      <4>2. CASE \E p \in replies' : p.from = x /\ p.msg = m
        <5>1. PICK p \in replies' : p.from = x /\ p.msg = m
          BY <4>2
        <5>2. CASE p \in replies
          BY <5>1, <5>2 DEF Pending
        <5>3. CASE p = q /\ n \in sync[k]
          BY <3>1, <5>1, <5>3 DEF Pending
        <5> QED BY <3>1, <5>2, <5>3
      <4> QED BY <1>1, <4>1, <4>2 DEF Pending
    <3>4. ReplyOwner'
      BY <1>1 DEF IInv, ReplyInv, ReplyOwner, Abandoned
    <3>5. ASSUME NEW p \in replies'
          PROVE  p.msg <= log'[p.from] /\ (fdmap[p.fd] = p.from \/ Abandoned(p.from))
      <4>1. CASE p \in replies
        <5>1. p.from \in Conns /\ p.msg \in Int /\ log[p.from] \in Int
          BY <4>1 DEF IInv, TypeOK
        <5>2. p.msg <= log[p.from] /\ (fdmap[p.fd] = p.from \/ Abandoned(p.from))
          BY <4>1 DEF IInv, ReplyInv
        <5> QED BY <1>7, <3>1, <5>1, <5>2
      <4>2. CASE p = q
        BY <1>2, <3>1, <4>2
      <4> QED BY <3>1, <4>1, <4>2
    <3>6. \A x \in Conns : ~Abandoned(x)' =>
            /\ \A m \in 1..MaxMsg : Pending(x, m)' => x \in await
            /\ \A l, m \in 1..MaxMsg : Pending(x, l)' /\ Pending(x, m)' => l = m
      BY <1>1, <3>2, <3>3 DEF IInv, ReplyInv
    <3>7. \A p \in replies' : Abandoned(p.from)' <=> Abandoned(p.from)
      BY <1>1 DEF Abandoned
    <3>8. \A p \in replies' : /\ p.msg <= log'[p.from]
                              /\ fdmap'[p.fd] = p.from \/ Abandoned(p.from)'
      BY <1>1, <3>5, <3>7
    <3>9. await' \subseteq {x \in Conns : peer'[x] = "open"}
      BY <1>1 DEF IInv, ReplyInv
    <3> QED BY <1>1, <3>1, <3>4, <3>6, <3>8, <3>9 DEF ReplyInv
  <2> QED BY <2>1, <2>2
<1> QED BY <1>9, <1>10, <1>11, <1>12, <1>13, <1>14 DEF IInv

\* A reply that was not sent when its client left has no owner any more.
LEMMA LeftBehind ==
    ASSUME IInv, NEW q \in replies, peer[q.from] = "closed"
    PROVE  Abandoned(q.from)
<1> SUFFICES ASSUME ~Abandoned(q.from) PROVE FALSE
  OBVIOUS
<1>1. q.from \in Conns /\ q.msg \in 1..MaxMsg
  BY DEF IInv, TypeOK
<1>2. Pending(q.from, q.msg) /\ srv.pc # "closed"
  BY DEF IInv, ReplyInv, Pending
<1>3. q.from \in await
  BY <1>1, <1>2 DEF IInv, ReplyInv
<1> QED BY <1>3 DEF IInv, ReplyInv

\* Reading the end of a stream keeps the invariant: the entry is erased from
\* both arrays just above the scan.
LEMMA CloseSockInv ==
    ASSUME IInv, CloseSock
    PROVE  IInv'
<1> DEFINE m == index + 1
           n == Len(poll)
<1>1. /\ UNCHANGED <<proto, accepted, peer, written, sync, await, died, read, log, listen,
                     index, nready, replies, answered>>
      /\ proto = "socket" /\ srv.pc = "recv"
      /\ peer[ServerConn] = "closed" /\ read[ServerConn] = written[ServerConn]
      /\ fdmap' = [fdmap EXCEPT ![srv.fd] = None]
      /\ refs' = refs - 1 /\ srv' = [srv EXCEPT !.pc = "wait"]
  BY DEF CloseSock, client
<1>2. /\ n \in Nat /\ Len(conn) = n /\ refs = n /\ n <= Cardinality(Fd)
      /\ \A i \in 1..n : conn[i] = poll[i].fd /\ conn[i] \in Fd
      /\ \A i, j \in 1..n : conn[i] = conn[j] => i = j
      /\ \A f \in Fd : fdmap[f] # None <=> \E i \in 1..n : conn[i] = f
  BY <1>1, ArrayFacts
<1>3. /\ srv.fd \in Fd /\ ServerConn = fdmap[srv.fd] /\ ServerConn \in Conns
      /\ srv \in [pc : {"wait", "recv", "closed"}, fd : Fd \cup {0}, part : 0..1]
      /\ fdmap \in [Fd -> Conns \cup {None}]
      /\ conn \in Seq(Fd) /\ poll \in Seq([fd : Fd, ready : BOOLEAN])
  BY <1>1 DEF IInv, TypeOK, FdInv, ServerConn
<1>4. index \in 0..(n - 1) /\ m \in 1..n /\ poll[m].fd = srv.fd /\ conn[m] = srv.fd
  BY <1>1, <1>2 DEF IInv, ScanInv
<1>5. conn' = RemoveAt(conn, m) /\ poll' = RemoveAt(poll, m)
  <2>1. \A j \in 1..n : poll[j].fd = srv.fd => j = m
    BY <1>2, <1>4
  <2>2. (CHOOSE j \in 1..Len(poll) : poll[j].fd = srv.fd) = m
    <3> HIDE DEF m
    <3> QED BY <1>4, <2>1
  <2> QED BY <2>2 DEF CloseSock
<1>6. /\ conn' \in Seq(Fd) /\ Len(conn') = n - 1
      /\ \A j \in 1..(n - 1) : conn'[j] = IF j < m THEN conn[j] ELSE conn[j + 1]
  <2>1. conn \in Seq(Fd) /\ m \in 1..Len(conn) /\ Len(conn) = n
    BY <1>2, <1>3, <1>4
  <2> HIDE DEF n, m
  <2>2. /\ conn' \in Seq(Fd) /\ Len(conn') = Len(conn) - 1
        /\ \A j \in 1..(Len(conn) - 1) : conn'[j] = IF j < m THEN conn[j] ELSE conn[j + 1]
    BY <1>5, <2>1, RemoveAtSeq
  <2> QED BY <2>1, <2>2
<1>7. /\ poll' \in Seq([fd : Fd, ready : BOOLEAN]) /\ Len(poll') = n - 1
      /\ \A j \in 1..(n - 1) : poll'[j] = IF j < m THEN poll[j] ELSE poll[j + 1]
  <2> DEFINE E == [fd : Fd, ready : BOOLEAN]
  <2>1. poll \in Seq(E) /\ m \in 1..Len(poll)
    BY <1>3, <1>4
  <2> HIDE DEF E, m
  <2>2. /\ poll' \in Seq(E) /\ Len(poll') = Len(poll) - 1
        /\ \A j \in 1..(Len(poll) - 1) : poll'[j] = IF j < m THEN poll[j] ELSE poll[j + 1]
    BY <1>5, <2>1, RemoveAtSeq
  <2> QED BY <2>2 DEF E
<1> HIDE DEF n
<1>8. \A g \in Fd : fdmap'[g] = IF g = srv.fd THEN None ELSE fdmap[g]
  BY <1>1, <1>3
<1>9. \A j \in 1..(n - 1) : conn'[j] = poll'[j].fd /\ conn'[j] # srv.fd
  <2> SUFFICES ASSUME NEW j \in 1..(n - 1) PROVE conn'[j] = poll'[j].fd /\ conn'[j] # srv.fd
    OBVIOUS
  <2>1. CASE j < m
    <3>1. conn'[j] = conn[j] /\ poll'[j] = poll[j]
      BY <1>6, <1>7, <2>1
    <3>2. j \in 1..n /\ j # m
      BY <1>2, <1>4, <2>1
    <3>3. conn[j] = poll[j].fd /\ conn[j] # conn[m]
      BY <1>2, <1>4, <3>2
    <3> QED BY <1>4, <3>1, <3>3
  <2>2. CASE ~(j < m)
    <3>1. conn'[j] = conn[j + 1] /\ poll'[j] = poll[j + 1]
      BY <1>6, <1>7, <2>2
    <3>2. j + 1 \in 1..n /\ j + 1 # m
      BY <1>2, <1>4, <2>2
    <3>3. conn[j + 1] = poll[j + 1].fd /\ conn[j + 1] # conn[m]
      BY <1>2, <1>4, <3>2
    <3> QED BY <1>4, <3>1, <3>3
  <2> QED BY <2>1, <2>2
<1>10. \A i, j \in 1..(n - 1) : conn'[i] = conn'[j] => i = j
  BY <1>2, <1>4, <1>6
<1>11. ASSUME NEW g \in Fd
       PROVE  fdmap'[g] # None <=> \E j \in 1..(n - 1) : conn'[j] = g
  <2>1. CASE g = srv.fd
    BY <1>8, <1>9, <2>1
  <2>2. CASE g # srv.fd
    <3>1. ASSUME NEW i \in 1..n, conn[i] = g PROVE \E j \in 1..(n - 1) : conn'[j] = g
      <4>1. i # m
        BY <1>4, <2>2, <3>1
      <4>2. CASE i < m
        <5>1. i \in 1..(n - 1) /\ conn'[i] = g
          BY <1>2, <1>4, <1>6, <3>1, <4>2
        <5> QED BY <5>1
      <4>3. CASE i > m
        <5>1. i - 1 \in 1..(n - 1) /\ ~(i - 1 < m) /\ (i - 1) + 1 = i
          BY <1>2, <1>4, <4>3
        <5>2. conn'[i - 1] = g
          BY <1>6, <3>1, <5>1
        <5> QED BY <5>1, <5>2
      <4> QED BY <1>2, <1>4, <4>1, <4>2, <4>3
    <3>2. ASSUME NEW j \in 1..(n - 1), conn'[j] = g PROVE \E i \in 1..n : conn[i] = g
      <4>1. j \in 1..n /\ j + 1 \in 1..n
        BY <1>2
      <4> QED BY <1>6, <3>2, <4>1
    <3> QED BY <1>2, <1>8, <2>2, <3>1, <3>2
  <2> QED BY <2>1, <2>2
<1>12. ArrayInv'
  <2>1. proto' = "socket" /\ Len(conn') = Len(poll') /\ refs' = Len(conn') /\ Len(poll') = n - 1
    BY <1>1, <1>2, <1>6, <1>7
  <2> QED BY <1>6, <1>9, <1>10, <1>11, <2>1, ArrayStep
<1>13. TypeOK'
  <2>1. fdmap' \in [Fd -> Conns \cup {None}]
    BY <1>1, <1>3
  <2>2. srv' \in [pc : {"wait", "recv", "closed"}, fd : Fd \cup {0}, part : 0..1]
    BY <1>1, <1>3
  <2>3. refs' \in 0..Cardinality(Fd)
    BY <1>1, <1>2, <1>4, Finite
  <2> QED BY <1>1, <1>6, <1>7, <2>1, <2>2, <2>3 DEF IInv, TypeOK
<1>14. FdInv'
  <2>1. Backlog' = Backlog
    BY <1>1 DEF Backlog
  <2>2. FreeFd \subseteq FreeFd' /\ FreeFd' \subseteq Fd
    BY <1>8 DEF FreeFd
  <2>3. IsFiniteSet(FreeFd') /\ Cardinality(FreeFd') \in Nat
    BY <2>2, Finite, FS_Subset, FS_CardinalityType
  <2>4. Cardinality(FreeFd) <= Cardinality(FreeFd')
    BY <2>2, <2>3, FS_Subset
  <2>5. Cardinality(Backlog') <= Cardinality(FreeFd')
    BY <2>1, <2>3, <2>4, Finite DEF IInv, FdInv
  <2>6. \A j \in 1..Len(poll') : fdmap'[poll'[j].fd] # None
    <3> SUFFICES ASSUME NEW j \in 1..(n - 1) PROVE fdmap'[poll'[j].fd] # None
      BY <1>7
    <3>1. conn'[j] \in Fd
      BY <1>6
    <3> QED BY <1>9, <1>11, <3>1
  <2>7. srv'.pc # "recv"
    BY <1>1, <1>3
  <2>8. /\ \A f, g \in Fd : fdmap'[f] = fdmap'[g] /\ fdmap'[f] # None => f = g
        /\ \A f \in Fd : fdmap'[f] # None => fdmap'[f] \in accepted'
    BY <1>1, <1>8 DEF IInv, FdInv
  <2> QED BY <2>5, <2>6, <2>7, <2>8 DEF FdInv
<1>15. ScanInv'
  <2>1. ToScan' = ToScan
    <3>1. \A j \in 1..n : j \in ToScan' <=> j \in ToScan
      <4> SUFFICES ASSUME NEW j \in 1..n PROVE j \in ToScan' <=> j \in ToScan
        OBVIOUS
      <4>1. j \in ToScan' <=> j \in 1..(n - 1) /\ j <= index /\ poll'[j].ready
        BY <1>1, <1>7 DEF ToScan
      <4>2. j \in ToScan <=> j <= index /\ poll[j].ready
        BY DEF ToScan, n
      <4>3. j <= index => j \in 1..(n - 1) /\ poll'[j] = poll[j]
        BY <1>2, <1>4, <1>7
      <4> QED BY <4>1, <4>2, <4>3
    <3>2. ToScan' \subseteq 1..n /\ ToScan \subseteq 1..n
      BY <1>2, <1>7 DEF ToScan, n
    <3> QED BY <3>1, <3>2
  <2>2. index' <= Len(poll') /\ srv'.pc = "wait"
    BY <1>1, <1>2, <1>3, <1>4, <1>7
  <2> QED BY <1>1, <2>1, <2>2 DEF IInv, ScanInv
<1>16. StreamInv'
  <2>1. srv'.pc = "wait"
    BY <1>1, <1>3
  <2>2. \A x \in Conns : read[x] % 2 = 1 => peer[x] = "closed" /\ written[x] = read[x]
    BY <1>1 DEF IInv, StreamInv, Framing
  <2> QED BY <1>1, <2>1, <2>2 DEF IInv, StreamInv, Framing
<1>17. ReplyInv'
  <2>1. srv'.pc = "wait"
    BY <1>1, <1>3
  <2>2. \A q \in replies : /\ q.msg <= log[q.from]
                           /\ fdmap'[q.fd] = q.from \/ Abandoned(q.from)
    <3> SUFFICES ASSUME NEW q \in replies, fdmap[q.fd] = q.from, ~Abandoned(q.from)
                 PROVE  fdmap'[q.fd] = q.from
      BY DEF IInv, ReplyInv
    <3>1. q.fd \in Fd
      BY DEF IInv, TypeOK
    <3>2. q.fd # srv.fd
      BY <1>1, <1>3, LeftBehind
    <3> QED BY <1>8, <3>1, <3>2
  <2> QED BY <1>1, <2>1, <2>2 DEF IInv, ReplyInv, ReplyOwner, Abandoned, Pending
<1> QED BY <1>12, <1>13, <1>14, <1>15, <1>16, <1>17 DEF IInv

\* Reading the end of a Unix domain stream keeps the invariant.
LEMMA RecvEofUdsInv ==
    ASSUME IInv, RecvEofUds
    PROVE  IInv'
<1>1. /\ UNCHANGED <<proto, accepted, peer, written, sync, await, died, fdmap, read, log, poll,
                     conn, listen, index, nready, refs, replies, answered>>
      /\ proto = "uds" /\ srv.pc = "recv"
      /\ peer[ServerConn] = "closed" /\ read[ServerConn] = written[ServerConn]
      /\ srv' = [srv EXCEPT !.pc = "wait"]
  BY DEF RecvEofUds, client, array
<1>2. /\ srv'.pc = "wait"
      /\ srv' \in [pc : {"wait", "recv", "closed"}, fd : Fd \cup {0}, part : 0..1]
  BY <1>1 DEF IInv, TypeOK
<1>3. TypeOK'
  BY <1>1, <1>2 DEF IInv, TypeOK
<1>4. FdInv'
  <2>1. Backlog' = Backlog /\ FreeFd' = FreeFd
    BY <1>1 DEF Backlog, FreeFd
  <2> QED BY <1>1, <1>2, <2>1 DEF IInv, FdInv
<1>5. ArrayInv' /\ ScanInv'
  BY <1>1 DEF IInv, ArrayInv, ArraysMatch, ScanInv
<1>6. StreamInv'
  <2>1. \A x \in Conns : read[x] % 2 = 1 => peer[x] = "closed" /\ written[x] = read[x]
    BY <1>1 DEF IInv, StreamInv, Framing
  <2> QED BY <1>1, <1>2, <2>1 DEF IInv, StreamInv, Framing
<1>7. ReplyInv'
  BY <1>1, <1>2, ReplyFrame DEF IInv
<1> QED BY <1>3, <1>4, <1>5, <1>6, <1>7 DEF IInv

\* Sending a reply keeps the invariant.
LEMMA ReplyStepInv ==
    ASSUME IInv, NEW q \in replies, Reply(q)
    PROVE  IInv'
<1> DEFINE k == fdmap[q.fd]
<1>1. /\ UNCHANGED <<proto, accepted, peer, written, sync, died, fdmap, read, log, poll, conn,
                     listen, index, nready, refs, srv>>
      /\ replies' = replies \ {q}
      /\ \/ UNCHANGED <<answered, await>>
         \/ /\ k # None
            /\ answered' = [answered EXCEPT ![k] = @ \cup {<<q.from, q.msg>>}]
            /\ await' = await \ {k}
  BY DEF Reply, array
<1>2. q.from \in Conns /\ q.msg \in 1..MaxMsg /\ q.fd \in Fd /\ k \in Conns \cup {None}
  BY DEF IInv, TypeOK
<1>3. /\ answered \in [Conns -> SUBSET (Conns \X (1..MaxMsg))]
      /\ answered' \in [Conns -> SUBSET (Conns \X (1..MaxMsg))]
  <2> DEFINE P == Conns \X (1..MaxMsg)
  <2>1. answered \in [Conns -> SUBSET P]
    BY DEF IInv, TypeOK
  <2>2. <<q.from, q.msg>> \in P
    BY <1>2
  <2> HIDE DEF P
  <2>3. answered' \in [Conns -> SUBSET P]
    <3>1. CASE UNCHANGED <<answered, await>>
      BY <2>1, <3>1
    <3>2. CASE answered' = [answered EXCEPT ![k] = @ \cup {<<q.from, q.msg>>}]
      BY <2>1, <2>2, <3>2
    <3> QED BY <1>1, <3>1, <3>2
  <2> QED BY <2>1, <2>3 DEF P
<1>4. \A x \in Conns : answered[x] \subseteq answered'[x]
  BY <1>1, <1>2, <1>3
<1>5. \A x \in Conns : Abandoned(x) => Abandoned(x)'
  BY <1>1, <1>4 DEF Abandoned
<1>6. srv.pc # "closed"
  BY DEF IInv, ReplyInv
<1>7. k = q.from \/ Abandoned(q.from)
  BY DEF IInv, ReplyInv
<1>8. TypeOK'
  <2>1. replies' \subseteq [from : Conns, msg : 1..MaxMsg, fd : Fd] /\ await' \subseteq Conns
    BY <1>1 DEF IInv, TypeOK
  <2> QED BY <1>1, <1>3, <2>1 DEF IInv, TypeOK
<1>9. FdInv'
  <2>1. Backlog' = Backlog
    BY <1>1 DEF Backlog
  <2> QED BY <1>1, <2>1, FdFrame DEF IInv
<1>10. ArrayInv' /\ ScanInv' /\ StreamInv'
  BY <1>1, ArrayFrame, ScanFrame, StreamFrame DEF IInv
<1>11. ReplyOwner'
  <2> SUFFICES ASSUME NEW x \in Conns, NEW a \in answered'[x]
               PROVE  a[1] = x \/ Abandoned(a[1])'
    BY DEF ReplyOwner
  <2>1. CASE a \in answered[x]
    <3>1. a[1] \in Conns /\ (a[1] = x \/ Abandoned(a[1]))
      BY <1>3, <2>1 DEF IInv, ReplyInv, ReplyOwner
    <3> QED BY <1>5, <3>1
  <2>2. CASE a \notin answered[x]
    <3>1. x = k /\ a = <<q.from, q.msg>>
      BY <1>1, <1>2, <1>3, <2>2
    <3> QED BY <1>2, <1>5, <1>7, <3>1
  <2> QED BY <2>1, <2>2
<1>12. \A x \in Conns, n \in 1..MaxMsg : Pending(x, n)' => Pending(x, n)
  BY <1>1 DEF Pending
<1>13. ASSUME NEW x \in Conns, ~Abandoned(x)', NEW n \in 1..MaxMsg, Pending(x, n)'
       PROVE  x \in await'
  <2>1. ~Abandoned(x) /\ Pending(x, n) /\ x \in await
    BY <1>5, <1>6, <1>12, <1>13 DEF IInv, ReplyInv
  <2>2. CASE UNCHANGED <<answered, await>>
    BY <2>1, <2>2
  <2>3. CASE /\ k # None
             /\ answered' = [answered EXCEPT ![k] = @ \cup {<<q.from, q.msg>>}]
             /\ await' = await \ {k}
    <3> SUFFICES ASSUME x = k PROVE FALSE
      BY <2>1, <2>3
    <3>1. q.from = k
      <4> SUFFICES ASSUME q.from # k PROVE FALSE
        OBVIOUS
      <4>1. <<q.from, q.msg>> \in answered'[x] /\ q.from # x
        BY <1>2, <1>3, <2>3
      <4>2. Abandoned(x)'
        <5>1. \E a \in answered'[x] : a[1] # x
          BY <4>1
        <5> QED BY <5>1 DEF Abandoned
      <4> QED BY <1>13, <4>2
    <3>2. Pending(k, q.msg)
      BY <3>1 DEF Pending
    <3>3. n = q.msg
      BY <1>2, <1>6, <2>1, <3>2 DEF IInv, ReplyInv
    <3>4. ~(n \in sync[k] /\ n > log[k])
      <4>1. q.msg <= log[k] /\ log[k] \in Int
        BY <1>2, <2>3, <3>1 DEF IInv, TypeOK, ReplyInv
      <4> QED BY <1>2, <3>3, <4>1
    <3>5. PICK p \in replies : p # q /\ p.from = k /\ p.msg = n
      BY <1>1, <1>13, <3>4 DEF Pending
    <3>6. p.fd \in Fd /\ fdmap[p.fd] = k
      BY <2>1, <3>5 DEF IInv, TypeOK, ReplyInv
    <3>7. p.fd = q.fd
      BY <1>2, <2>3, <3>6 DEF IInv, FdInv
    <3>8. /\ p \in [from : Conns, msg : 1..MaxMsg, fd : Fd]
          /\ q \in [from : Conns, msg : 1..MaxMsg, fd : Fd]
      BY DEF IInv, TypeOK
    <3> QED BY <3>1, <3>3, <3>5, <3>7, <3>8
  <2> QED BY <1>1, <2>2, <2>3
<1>14. \A x \in Conns : ~Abandoned(x)' =>
         \A l, n \in 1..MaxMsg : Pending(x, l)' /\ Pending(x, n)' => l = n
  BY <1>5, <1>6, <1>12 DEF IInv, ReplyInv
<1>15. ASSUME NEW p \in replies'
       PROVE  p.msg <= log[p.from] /\ (fdmap[p.fd] = p.from \/ Abandoned(p.from)')
  <2>1. p \in replies /\ p.from \in Conns
    BY <1>1 DEF IInv, TypeOK
  <2> QED BY <1>5, <2>1 DEF IInv, ReplyInv
<1>16. await' \subseteq {x \in Conns : peer[x] = "open"}
  BY <1>1 DEF IInv, ReplyInv
<1>17. ReplyInv'
  BY <1>1, <1>6, <1>11, <1>13, <1>14, <1>15, <1>16 DEF ReplyInv
<1> QED BY <1>8, <1>9, <1>10, <1>17 DEF IInv

\* Closing the server's combox keeps the invariant.
LEMMA CloseInv ==
    ASSUME IInv, Close
    PROVE  IInv'
<1>1. /\ UNCHANGED <<proto, accepted, peer, written, sync, await, died, read, log, listen,
                     replies, answered>>
      /\ srv.pc = "wait" /\ replies = {} /\ srv' = [srv EXCEPT !.pc = "closed"]
      /\ fdmap' = [f \in Fd |-> None] /\ poll' = <<>> /\ conn' = <<>>
      /\ nready' = 0 /\ index' = -1 /\ refs' = refs - Len(conn)
  BY DEF Close, client
<1>2. /\ srv'.pc = "closed"
      /\ srv' \in [pc : {"wait", "recv", "closed"}, fd : Fd \cup {0}, part : 0..1]
  BY <1>1 DEF IInv, TypeOK
<1>3. refs' = 0
  <2>1. CASE proto = "socket"
    BY <1>1, <2>1, ArrayFacts
  <2>2. CASE proto = "uds"
    <3>1. conn = <<>> /\ refs = 0
      BY <2>2 DEF IInv, ArrayInv
    <3>2. Len(conn) = 0
      BY <3>1
    <3> QED
      <4>1. refs' = refs - Len(conn)
        BY <1>1
      <4> QED BY <3>1, <3>2, <4>1
  <2> QED BY <2>1, <2>2, ArrayFacts
<1>4. TypeOK'
  <2>1. fdmap' \in [Fd -> Conns \cup {None}]
    BY <1>1
  <2>2. poll' \in Seq([fd : Fd, ready : BOOLEAN]) /\ conn' \in Seq(Fd)
    BY <1>1
  <2>3. /\ index' \in -1..Cardinality(Fd) /\ nready' \in 0..(Cardinality(Fd) + 1)
        /\ refs' \in 0..Cardinality(Fd)
    BY <1>1, <1>3, Finite
  <2>4. /\ proto' \in Protos /\ peer' \in [Conns -> {"new", "open", "closed"}]
        /\ written' \in [Conns -> 0..2 * MaxMsg] /\ sync' \in [Conns -> SUBSET (1..MaxMsg)]
        /\ accepted' \subseteq Conns /\ await' \subseteq Conns /\ died' \subseteq Conns
        /\ read' \in [Conns -> 0..2 * MaxMsg] /\ log' \in [Conns -> 0..MaxMsg]
        /\ listen' \in BOOLEAN /\ replies' \subseteq [from : Conns, msg : 1..MaxMsg, fd : Fd]
        /\ answered' \in [Conns -> SUBSET (Conns \X (1..MaxMsg))]
    BY <1>1 DEF IInv, TypeOK
  <2> QED BY <1>2, <2>1, <2>2, <2>3, <2>4 DEF TypeOK
<1>5. FdInv'
  <2>1. Backlog' = Backlog /\ FreeFd' = Fd /\ FreeFd \subseteq Fd
    BY <1>1 DEF Backlog, FreeFd
  <2>2. Cardinality(FreeFd) <= Cardinality(Fd)
    BY <2>1, Finite, FS_Subset
  <2>3. Cardinality(Backlog') <= Cardinality(FreeFd')
    BY <2>1, <2>2, Finite DEF IInv, FdInv
  <2> QED BY <1>1, <1>2, <2>3 DEF FdInv
<1>6. ArrayInv'
  <2>1. conn' \in Seq(Fd) /\ Len(conn') = 0 /\ Len(poll') = 0
    BY <1>1
  <2> QED BY <1>1, <1>2, <1>3, <2>1, ArrayStep
<1>7. ScanInv'
  <2>1. Len(poll') = 0
    BY <1>1
  <2> QED BY <1>1, <1>2, <2>1 DEF ScanInv
<1>8. StreamInv'
  BY <1>1, <1>2 DEF IInv, StreamInv, Framing
<1>9. ReplyInv'
  BY <1>1, <1>2 DEF IInv, ReplyInv, ReplyOwner, Abandoned
<1> QED BY <1>4, <1>5, <1>6, <1>7, <1>8, <1>9 DEF IInv

-----------------------------------------------------------------------------
(* The theorems. *)

\* Nothing is connected at first.
LEMMA InitInv == Init => IInv
<1> SUFFICES ASSUME Init PROVE IInv
  OBVIOUS
<1>1. TypeOK
  <2>1. poll \in Seq([fd : Fd, ready : BOOLEAN]) /\ conn \in Seq(Fd)
    BY DEF Init
  <2>2. srv \in [pc : {"wait", "recv", "closed"}, fd : Fd \cup {0}, part : 0..1]
    BY DEF Init
  <2>3. /\ index \in -1..Cardinality(Fd) /\ nready \in 0..(Cardinality(Fd) + 1)
        /\ refs \in 0..Cardinality(Fd)
    BY Finite DEF Init
  <2>4. /\ written \in [Conns -> 0..2 * MaxMsg] /\ read \in [Conns -> 0..2 * MaxMsg]
        /\ log \in [Conns -> 0..MaxMsg]
    <3>1. 0 \in 0..MaxMsg /\ 0 \in 0..2 * MaxMsg
      BY TransportAssumption
    <3> QED BY <3>1 DEF Init
  <2>5. /\ peer \in [Conns -> {"new", "open", "closed"}]
        /\ sync \in [Conns -> SUBSET (1..MaxMsg)]
        /\ fdmap \in [Fd -> Conns \cup {None}]
        /\ answered \in [Conns -> SUBSET (Conns \X (1..MaxMsg))]
    BY DEF Init
  <2>6. /\ proto \in Protos /\ accepted = {} /\ await = {} /\ died = {} /\ listen = FALSE
        /\ replies = {}
    BY DEF Init
  <2> QED BY <2>1, <2>2, <2>3, <2>4, <2>5, <2>6 DEF TypeOK
<1>2. Len(poll) = 0 /\ Len(conn) = 0
  BY DEF Init
<1>3. FdInv
  <2>1. Backlog = {}
    BY DEF Init, Backlog
  <2>2. Cardinality(Backlog) = 0
    BY <2>1, FS_EmptySet
  <2> QED BY <1>2, <2>2, Finite DEF Init, FdInv
<1>4. ArrayInv
  <2>1. conn \in Seq(Fd)
    BY <1>1 DEF TypeOK
  <2>2. IsInjective(conn) /\ ToSet(conn) = {}
    <3>1. \A i \in 1..Len(conn) : FALSE
      BY <1>2
    <3> QED BY <2>1, <3>1, Positions
  <2>3. Fd \ FreeFd = {}
    BY DEF Init, FreeFd
  <2> QED BY <1>2, <2>2, <2>3 DEF Init, ArrayInv, ArraysMatch
<1>5. ScanInv
  <2>1. ToScan = {}
    BY <1>2 DEF ToScan
  <2>2. Cardinality(ToScan) = 0
    BY <2>1, FS_EmptySet
  <2> QED BY <1>2, <2>2 DEF Init, ScanInv
<1>6. StreamInv
  BY DEF Init, StreamInv, Framing
<1>7. ReplyInv
  BY DEF Init, ReplyInv, ReplyOwner, Pending
<1> QED BY <1>1, <1>3, <1>4, <1>5, <1>6, <1>7 DEF IInv

\* Every step keeps the invariant.
LEMMA NextInv == IInv /\ [Next]_vars => IInv'
<1> SUFFICES ASSUME IInv, [Next]_vars PROVE IInv'
  OBVIOUS
<1>1. ASSUME NEW k \in Conns, ClientStep(k) PROVE IInv'
  BY <1>1, ConnectInv, SendInv, LeaveInv DEF ClientStep
<1>2. CASE ReceiveStep
  BY <1>2, PollInv, ScanStepInv, WaitUdsInv, RecvInv, CloseSockInv, RecvEofUdsInv,
     AcceptInv, AcceptUdsInv DEF ReceiveStep
<1>3. ASSUME NEW q \in replies, Reply(q) PROVE IInv'
  BY <1>3, ReplyStepInv
<1>4. CASE Close
  BY <1>4, CloseInv
<1>5. CASE UNCHANGED vars
  <2>1. Backlog' = Backlog
    BY <1>5 DEF vars, client, Backlog
  <2>2. TypeOK'
    BY <1>5 DEF IInv, TypeOK, vars, client, array
  <2> QED BY <1>5, <2>1, <2>2, FdFrame, ArrayFrame, ScanFrame, StreamFrame, ReplyFrame
          DEF IInv, vars, client, array
<1> QED BY <1>1, <1>2, <1>3, <1>4, <1>5 DEF Next

\* IInv holds in every reachable state, whatever the clients do.
THEOREM Inductive == Spec => []IInv
  BY InitInv, NextInv, PTL DEF Spec

\* Messages are never mixed or split: Framing, for any number of clients,
\* connections and messages.
THEOREM FramesWhole == Spec => []Framing
<1>1. IInv => Framing
  BY DEF IInv, StreamInv
<1> QED BY <1>1, Inductive, PTL

\* The arrays match, the scan is exact and every variable keeps its type:
\* ScanExact, for every set of descriptors.
THEOREM ScansExactly == Spec => []ScanExact
<1>1. IInv => ScanExact
  BY DEF IInv, ArrayInv, ScanInv, ScanExact
<1> QED BY <1>1, Inductive, PTL

\* A reply reaches the client that asked unless that client was gone:
\* ReplyOwner, whichever descriptors are reused.
THEOREM RepliesOwned == Spec => []ReplyOwner
<1>1. IInv => ReplyOwner
  BY DEF IInv, ReplyInv
<1> QED BY <1>1, Inductive, PTL

=============================================================================
