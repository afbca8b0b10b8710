------------------------------- MODULE Buffer -------------------------------
(***************************************************************************)
(* The marshalling buffers: pop_buffer_xdr and pop_buffer_raw of the       *)
(* dynamic library, the copies the pseudo-dynamic library has of them, and *)
(* popc_buffer_xdr_mpi.                                                    *)
(*                                                                         *)
(* A buffer is the sequence of the blocks Pack wrote, each with the offset *)
(* it starts at, the size of the data and the offset the next UnPack reads *)
(* from.  Offsets count bytes after the 20 bytes of the header.  What a    *)
(* class does with an array of n elements of a type is its layout: the     *)
(* bytes Pack adds, the bytes UnPack asks CheckUnPack for, the bytes by    *)
(* which UnPack moves on, and how many elements really are written.        *)
(* A read that does not start where a block of its type starts yields      *)
(* Junk.                                                                   *)
(***************************************************************************)
EXTENDS Integers, Sequences, SequencesExt

Junk == -1      \* an element that is not what was packed
Wide == 9       \* a long that does not fit in 32 bits
Nul == 0        \* the end of a C string

Encodings == {"xdr", "raw", "ps-xdr", "ps-raw", "mpi-xdr"}

Empty == [size |-> 0, pos |-> 0, blocks |-> {}, ok |-> TRUE]

Flat(k, n) == [space |-> k, check |-> k, step |-> k, kept |-> n]
\* ((n - 1) / 4 + 1) * 4, for n > 0.
Padded(n) == ((n - 1) \div 4 + 1) * 4

-----------------------------------------------------------------------------
(* pop_buffer_xdr, dynamic library. *)

XdrInts(n) == Flat(4 * n, n)
XdrLongs(n) == Flat(8 * n, n)
XdrShorts(n) == Flat(4 * n, n)
\* The loop that copies the elements counts n down to -1, and UnPack moves on
\* by ((n - 1) / 4 + 1) * 4 after it.
XdrBools(n) == [space |-> Padded(n), check |-> n, step |-> 4, kept |-> n]

\* Mutant of XdrChars: UnPack moves on by the bytes it copied.
XdrCharsUnpadded(n) == [space |-> Padded(n), check |-> n, step |-> n, kept |-> n]

XdrChars(n) == [space |-> Padded(n), check |-> n, step |-> Padded(n), kept |-> n]
XdrReals(t, n) == Flat(IF t = "double" THEN 8 * n ELSE 4 * n, n)

(* pop_buffer_raw, dynamic library: every type is an array of bytes. *)
SizeOf(t) == CASE t \in {"bool", "char"} -> 1
               [] t = "short" -> 2
               [] t \in {"int", "float"} -> 4
               [] OTHER -> 8
RawLayout(t, n) ==
    LET k == SizeOf(t) * n
    IN  [space |-> Padded(k), check |-> k, step |-> Padded(k), kept |-> n]

(* The copies of the pseudo-dynamic library. *)
PsXdrInts(n) == Flat(4 * n, n)
PsXdrLongs(n) == Flat(8 * n, n)
PsXdrShorts(n) == Flat(4 * n, n)
PsXdrBools(n) == [space |-> Padded(n), check |-> n, step |-> 4, kept |-> n]
PsXdrChars(n) == [space |-> Padded(n), check |-> n, step |-> Padded(n), kept |-> n]
PsXdrReals(t, n) == Flat(IF t = "double" THEN 8 * n ELSE 4 * n, n)
PsRawLayout(t, n) ==
    LET k == SizeOf(t) * n
    IN  [space |-> Padded(k), check |-> k, step |-> Padded(k), kept |-> n]

(* popc_buffer_xdr_mpi: no result of xdr_vector is looked at.  A short takes
   four bytes of XDR and the stream is given two for each. *)
MpiInts(n) == Flat(4 * n, n)
MpiLongs(n) == Flat(4 * n, n)
MpiShorts(n) ==
    LET k == ((n - 1) \div 2 + 1) * 4
    IN  [space |-> k, check |-> 2 * n, step |-> k, kept |-> n \div 2]
MpiBools(n) == [space |-> Padded(n), check |-> n, step |-> 4, kept |-> n]
MpiChars(n) == [space |-> Padded(n), check |-> n, step |-> Padded(n), kept |-> n]
MpiReals(t, n) == Flat(IF t = "double" THEN 8 * n ELSE 4 * n, n)

Layout(e, t, n) ==
    CASE e = "raw" -> RawLayout(t, n)
      [] e = "ps-raw" -> PsRawLayout(t, n)
      [] e = "xdr" -> (CASE t = "int" -> XdrInts(n) [] t = "long" -> XdrLongs(n)
                         [] t = "short" -> XdrShorts(n) [] t = "bool" -> XdrBools(n)
                         [] t = "char" -> XdrChars(n) [] OTHER -> XdrReals(t, n))
      [] e = "ps-xdr" -> (CASE t = "int" -> PsXdrInts(n) [] t = "long" -> PsXdrLongs(n)
                            [] t = "short" -> PsXdrShorts(n) [] t = "bool" -> PsXdrBools(n)
                            [] t = "char" -> PsXdrChars(n) [] OTHER -> PsXdrReals(t, n))
      [] e = "mpi-xdr" -> (CASE t = "int" -> MpiInts(n) [] t = "long" -> MpiLongs(n)
                             [] t = "short" -> MpiShorts(n) [] t = "bool" -> MpiBools(n)
                             [] t = "char" -> MpiChars(n) [] OTHER -> MpiReals(t, n))

-----------------------------------------------------------------------------
\* xdr_long refuses a value of more than 32 bits: "Exception in
\* serialization 5", except where the result is not looked at and the rest of
\* the array is lost.
Refuses(e, t, v) == e \in {"xdr", "ps-xdr"} /\ t = "long" /\ \E i \in DOMAIN v : v[i] = Wide
Lost(e, t, v, i) ==
    \/ i > Layout(e, t, Len(v)).kept
    \/ e = "mpi-xdr" /\ t = "long" /\ \E j \in 1..i : v[j] = Wide

\* Pack of the elements v of type t; ok is false once an exception was thrown.
PackBlock(e, b, t, v) ==
    IF ~b.ok \/ v = <<>> THEN b
    ELSE IF Refuses(e, t, v) THEN [b EXCEPT !.ok = FALSE]
    ELSE [b EXCEPT !.size = @ + Layout(e, t, Len(v)).space,
                   !.blocks = @ \cup {[at |-> b.size, t |-> t,
                        v |-> [i \in DOMAIN v |-> IF Lost(e, t, v, i) THEN Junk ELSE v[i]]]}]

\* CheckUnPack.
Fits(e, b, t, n) == b.pos + Layout(e, t, n).check <= b.size

\* UnPack of n elements of type t: [b, v].
UnPackBlock(e, b, t, n) ==
    IF ~b.ok \/ n <= 0 THEN [b |-> b, v |-> <<>>]
    ELSE IF ~Fits(e, b, t, n) THEN [b |-> [b EXCEPT !.ok = FALSE], v |-> <<>>]
    ELSE LET B == {k \in b.blocks : k.at = b.pos /\ k.t = t /\ Len(k.v) >= n}
         IN  [b |-> [b EXCEPT !.pos = @ + Layout(e, t, n).step],
              v |-> IF B = {} THEN [i \in 1..n |-> Junk]
                    ELSE SubSeq((CHOOSE k \in B : TRUE).v, 1, n)]

UnPackInt(e, b) ==
    [UnPackBlock(e, b, "int", 1) EXCEPT !.v = IF @ = <<>> THEN Junk ELSE @[1]]

\* Strings go as their length with the final zero, and their characters.
PackStrings(e, b, v) ==
    FoldLeft(LAMBDA acc, s : LET c == Append(s, Nul)
                             IN  PackBlock(e, PackBlock(e, acc, "int", <<Len(c)>>), "char", c),
             b, v)

\* *list = tmpstr.data(): the characters up to the first zero.
CString(c) == LET Z == {i \in DOMAIN c : c[i] = Nul}
              IN  IF Z = {} THEN c
                  ELSE SubSeq(c, 1, (CHOOSE i \in Z : \A j \in Z : i <= j) - 1)
UnPackStrings(e, b, n) ==
    FoldLeft(LAMBDA acc, i :
                LET len == UnPackInt(e, acc.b)
                IN  [UnPackBlock(e, len.b, "char", len.v) EXCEPT !.v = Append(acc.v, CString(@))],
             [b |-> b, v |-> <<>>], [i \in 1..n |-> i])

\* The header Send writes in front of the data, and what Recv keeps of it.
Framed(h) ==
    CASE h.type = "request"   -> [type |-> h.type, uid |-> h.uid, method |-> h.method,
                                  sem |-> h.sem, code |-> ""]
      [] h.type = "exception" -> [type |-> h.type, uid |-> Junk, method |-> Junk,
                                  sem |-> {}, code |-> h.code]
      [] h.type = "response"  -> [type |-> h.type, uid |-> Junk, method |-> Junk,
                                  sem |-> {}, code |-> ""]

\* Recv starts again with an empty buffer, reads the header and then the data.
Received(b) == [b EXCEPT !.pos = 0, !.ok = TRUE]
=============================================================================
