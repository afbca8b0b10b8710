------------------------------ MODULE Popfile ------------------------------
(***************************************************************************)
(* Parallel files: one application with one stream (dev/popfile/           *)
(* popfile.cpp), its output buffers (popfilebuffer.cpp), its readers       *)
(* (popfilereader.cc), the metadata file (popfile_metadata.cpp) and the    *)
(* file managers that own the strips (services/lib/popfilemanager.cc).     *)
(*                                                                         *)
(* A byte is its position in what the application wrote, 0 is a byte       *)
(* nobody wrote.  Block k of Offset bytes belongs to strip k % n.  The     *)
(* appends to the strips are asynchronous concurrent calls, so those in    *)
(* flight arrive in any order.  The application works on a closed stream   *)
(* only through open, and never opens an open one.                         *)
(*                                                                         *)
(* usage is a history variable: the circumstances met so far under which   *)
(* the code does not keep its promises.  The properties say that there are *)
(* no others.                                                              *)
(***************************************************************************)
EXTENDS Integers, Sequences, FiniteSets, SequencesExt, FiniteSetsExt

CONSTANTS
    Offset,         \* the strip factor of the files created
    StripNumber,    \* strips asked for by open
    Neighbours,     \* number of neighbours of the local file manager
    FullLen,        \* length of POPFILEBUFFER_FULL_WITHOUT_REMAINING
    ScatterBlock,   \* bytes scatter reads at a time
    WriteSizes,     \* sizes of the writes
    ReadSizes,      \* sizes of the reads
    MaxBytes,       \* bound: bytes written
    MaxGrips,       \* bound: reads of one stream
    MaxOpens,       \* bound: times a file is opened
    Faults,         \* "disk": an append, or the local strip, may fail; "crash": the application may die
    None

ASSUME PopfileAssumption ==
    /\ Offset \in Nat \ {0}
    /\ StripNumber \in Nat /\ StripNumber >= 2
    /\ {Neighbours, FullLen, MaxBytes, MaxGrips, MaxOpens} \subseteq Nat
    /\ ScatterBlock \in Nat \ {0}
    /\ WriteSizes \subseteq Nat \ {0} /\ ReadSizes \subseteq Nat
    /\ Faults \subseteq {"disk", "crash"}

VARIABLES
    st,         \* the members of POPFStream
    buf,        \* popfile_writebuffers
    rd,         \* popfile_reader_ref: queue of calls, input buffer, its put pointer
    grips,      \* the grips the application holds
    call,       \* the call the application is in
    disk,       \* the metadata file, None when there is none
    plain,      \* the standard file of the same name, None when there is none
    strips,     \* the strip files
    flight,     \* appends on their way to the file managers
    opens,
    written,    \* history: the bytes of the file, in order
    sent,       \* history: sent[i], the appends to strip i in the order of the calls
    last,       \* history: what the last read returned
    usage       \* history: see above

file == <<disk, plain, strips, flight>>
hist == <<written, sent, last, usage>>
vars == <<st, buf, rd, grips, call, file, opens, hist>>

Ids == 0..StripNumber - 1

Stream == [par : BOOLEAN, loaded : BOOLEAN, plainopen : BOOLEAN,
           popen : BOOLEAN, n : 0..StripNumber,
           offset : {0, Offset}, out : Ids, total : Nat, first : 0..Offset,
           reader : 0..StripNumber, roff : Nat, readptr : Nat,
           made : BOOLEAN, grip : Nat, served : Nat, bad : BOOLEAN]

Idle == [op |-> "idle", val |-> <<>>, size |-> 0, grip |-> None, cur |-> 0,
         acc |-> <<>>, gather |-> None]

Byte == 0..MaxBytes

TypeOK ==
    /\ st \in Stream
    /\ buf \in [Ids -> [data : Seq(Byte), cap : Nat, rem : Nat]]
    /\ \A i \in Ids : buf[i].rem = buf[i].cap - Len(buf[i].data)
    /\ rd \in [Ids -> [queue : Seq([start : Nat, len : Nat]), data : Seq(Byte), put : Nat]]
    /\ grips \in Seq([size : Nat, reader : 0..StripNumber, order : Nat, read : Nat, from : Nat])
    /\ call.op \in {"idle", "write", "request", "get", "gather", "gathering", "undefined"}
    /\ disk \in {None} \cup [n : 1..StripNumber, end : Nat, strip : Ids]
    /\ plain \in {None} \cup Seq(Byte)
    /\ strips \in [Ids -> Seq(Byte)]
    /\ \A f \in flight : f.strip \in Ids /\ f.data \in Seq(Byte)
    /\ opens \in 0..MaxOpens
    /\ written \in Seq(Byte)
    /\ sent \in [Ids -> Seq(Seq(Byte))]

-----------------------------------------------------------------------------
(* The stream and its buffers *)

EmptyBuffer(cap) == [data |-> <<>>, cap |-> cap, rem |-> cap]
NewReader == [queue |-> <<>>, data |-> <<>>, put |-> 0]

\* popfile_init; whether the metadata are loaded is not initialised.
Fresh(loaded) ==
    [par |-> FALSE, loaded |-> loaded, plainopen |-> FALSE,
     popen |-> FALSE, n |-> 0, offset |-> 0,
     out |-> 0, total |-> 0, first |-> 0, reader |-> 0, roff |-> 0, readptr |-> 0,
     made |-> FALSE, grip |-> 0, served |-> 0, bad |-> FALSE]

Init ==
    /\ \E l \in BOOLEAN : st = Fresh(l)
    /\ buf = [i \in Ids |-> EmptyBuffer(0)]
    /\ rd = [i \in Ids |-> NewReader]
    /\ grips = <<>>
    /\ call = Idle
    /\ disk = None
    /\ plain = None
    /\ strips = [i \in Ids |-> <<>>]
    /\ flight = {}
    /\ opens = 0
    /\ written = <<>>
    /\ sent = [i \in Ids |-> <<>>]
    /\ last = None
    /\ usage = {}

IsOpen == IF st.par THEN st.loaded ELSE st.plainopen

\* writeToRemoteStrip: an asynchronous call of the local file manager, which
\* makes another one; the number tells two appends of the same bytes apart.
WriteToRemoteStrip(i, data) ==
    [strip |-> i, data |-> data, nr |-> Len(sent[i]) + 1]

\* POPFileBuffer::flush of the buffers in I
Flush(I, b) ==
    LET full == {i \in I : b[i].rem < b[i].cap} IN
    /\ flight' = flight \cup {WriteToRemoteStrip(i, b[i].data) : i \in full}
    /\ sent' = [i \in Ids |-> IF i \in full THEN Append(sent[i], b[i].data) ELSE sent[i]]

Flushed(b) == EmptyBuffer(b.cap)

Buffers == 0..st.n - 1

\* createStrip on the neighbours in turn, until there are enough strips; ok
\* are those where it succeeds.
FindResources(ok) == LET k == 1 + Cardinality(ok) IN IF k < StripNumber THEN k ELSE StripNumber

\* popfile_try_open_parallel: what the metadata file says of the stream.
Loaded(s) ==
    [s EXCEPT !.par = TRUE, !.loaded = TRUE, !.n = @ + disk.n, !.offset = Offset,
              !.out = disk.strip, !.total = disk.end,
              !.first = Offset - (disk.end % Offset)]

TryOpenParallel ==
    /\ st' = Loaded(st)
    /\ buf' = [i \in Ids |-> EmptyBuffer(IF i < disk.n THEN Offset ELSE 0)]

Usable == ~st.par /\ call.op = "idle" /\ opens < MaxOpens

\* open(filename); popfile_open guards standard files only, and stays set when
\* such a file is closed.
Open ==
    /\ Usable /\ ~st.popen
    /\ opens' = opens + 1
    /\ IF disk # None
       THEN TryOpenParallel /\ UNCHANGED plain
       ELSE /\ st' = [st EXCEPT !.plainopen = TRUE, !.popen = TRUE]
            /\ plain' = IF plain = None THEN <<>> ELSE plain
            /\ UNCHANGED buf
    /\ written' = IF disk # None THEN written ELSE plain'
    /\ UNCHANGED <<rd, grips, call, disk, strips, flight, sent, last, usage>>

\* open(filename, stripnumber, offset, local) of a file that does not exist:
\* offset 0 stays in the stream, the metadata are neither saved nor marked
\* loaded.  local is TRUE, its default, so findResourcesForStrip counts the
\* local strip and never finds too few.
Created(k) ==
    [st EXCEPT !.par = TRUE, !.n = @ + k]

CreateStrips(ok, bytes) ==
    LET k == FindResources(ok) IN
    /\ st' = [Created(k) EXCEPT !.total = bytes]
    /\ buf' = [i \in Ids |-> EmptyBuffer(IF i < k THEN Offset ELSE 0)]
    /\ strips' = [i \in Ids |-> IF i < k THEN <<>> ELSE strips[i]]
    /\ sent' = [i \in Ids |-> <<>>]

Create ==
    /\ Usable /\ ~st.plainopen
    /\ opens' = opens + 1
    /\ IF disk # None
       THEN TryOpenParallel /\ UNCHANGED <<strips, sent, written>>
       ELSE /\ \E ok \in SUBSET (1..Neighbours) : CreateStrips(ok, 0)
            /\ written' = <<>>
    /\ UNCHANGED <<rd, grips, call, disk, plain, flight, last, usage>>

\* The same open, when the local strip cannot be created: nothing is open.
CreateFails ==
    /\ Usable /\ ~st.plainopen /\ disk = None
    /\ "disk" \in Faults
    /\ opens' = opens + 1
    /\ UNCHANGED <<st, buf, rd, grips, call, file, hist>>

\* POPFileMetaData::save
Saved(s) == [n |-> s.n, end |-> s.total, strip |-> s.out]

\* close: everything is flushed, then the metadata are saved.  The members are
\* those of a new stream; the standard file stays open under a scattered one.
Close ==
    /\ IF st.par
       THEN /\ Flush(Buffers, buf)
            /\ disk' = Saved(st)
            /\ st' = [Fresh(FALSE) EXCEPT !.plainopen = st.plainopen]
            /\ buf' = [i \in Ids |-> EmptyBuffer(0)]
            /\ rd' = [i \in Ids |-> NewReader]
       ELSE /\ st' = [st EXCEPT !.plainopen = FALSE]
            /\ UNCHANGED <<disk, flight, sent, buf, rd>>
    /\ grips' = <<>>
    /\ last' = None
    /\ UNCHANGED <<plain, strips, opens, written, usage>>
AppClose == call = Idle /\ (st.par \/ st.plainopen) /\ Close /\ UNCHANGED call

\* The end of the buffers without a flush.
Abandon(why) ==
    /\ \E l \in BOOLEAN : st' = Fresh(l)
    /\ buf' = [i \in Ids |-> EmptyBuffer(0)]
    /\ rd' = [i \in Ids |-> NewReader]
    /\ grips' = <<>>
    /\ call' = Idle
    /\ usage' = usage \cup {why}
    /\ last' = None
    /\ UNCHANGED <<file, opens, written, sent>>

\* ~POPFStream; a standard file is closed by its own destructor.
Destroy ==
    /\ call = Idle
    /\ st.par
    /\ IF IsOpen THEN Close /\ UNCHANGED call ELSE Abandon("destroyed")

Crash ==
    /\ "crash" \in Faults /\ usage = {}
    /\ st.par /\ call.op # "undefined"
    /\ Abandon("crashed")

-----------------------------------------------------------------------------
(* Writing *)

\* The next n bytes the application writes
NextBytes(n) == [j \in 1..n |-> Len(written) + j]

\* write of a string to a standard file
WritePlain ==
    /\ call = Idle /\ ~st.par /\ st.plainopen
    /\ \E n \in WriteSizes :
        /\ Len(written) + n <= MaxBytes
        /\ plain' = plain \o NextBytes(n)
        /\ written' = written \o NextBytes(n)
    /\ usage' = IF disk = None THEN usage ELSE usage \cup {"divided"}
    /\ UNCHANGED <<st, buf, rd, grips, call, disk, strips, flight, opens, sent, last>>

\* The part of popfile_writeToBuffer before the first buffer_add
WriteToBuffer(v) ==
    /\ buf' = IF st.first = 0 THEN buf ELSE [buf EXCEPT ![st.out] = EmptyBuffer(st.first)]
    /\ call' = [Idle EXCEPT !.op = "write", !.val = v]

\* Bound: no write after a read of the same stream; they share no member.
Write ==
    /\ call = Idle /\ st.par /\ ~st.made
    /\ \E n \in WriteSizes :
        /\ Len(written) + n <= MaxBytes
        /\ WriteToBuffer(NextBytes(n))
        /\ st' = [st EXCEPT !.bad = FALSE, !.first = 0, !.total = @ + n]
        /\ written' = written \o NextBytes(n)
    /\ UNCHANGED <<rd, grips, file, opens, sent, last, usage>>

NextBuffer(i) == IF (i + 1) % st.n = 0 THEN 0 ELSE i + 1

\* buffer_add: the value fits and leaves room, or the buffer is filled and
\* flushed.  A rest that reads "FULL" is taken for no rest.
BufferAdd ==
    /\ call.op = "write"
    /\ LET i == st.out
           b == buf[i]
           v == call.val
           k == b.rem
           rest == SubSeq(v, k + 1, Len(v))
           filled == [buf EXCEPT ![i] = [@ EXCEPT !.data = @ \o SubSeq(v, 1, k), !.rem = 0]]
       IN  IF Len(v) < k
           THEN /\ buf' = [buf EXCEPT ![i] = [@ EXCEPT !.data = @ \o v, !.rem = k - Len(v)]]
                /\ call' = Idle
                /\ UNCHANGED <<st, flight, sent, usage>>
           ELSE /\ Flush({i}, filled)
                /\ buf' = [buf EXCEPT ![i] = EmptyBuffer(Offset)]
                /\ st' = [st EXCEPT !.out = NextBuffer(i)]
                /\ \/ /\ rest # <<>>
                      /\ call' = [call EXCEPT !.val = rest]
                      /\ UNCHANGED usage
                   \/ /\ rest = <<>> \/ Len(rest) = FullLen
                      /\ call' = Idle
                      /\ usage' = IF rest = <<>> THEN usage ELSE usage \cup {"full"}
    /\ UNCHANGED <<rd, grips, disk, plain, strips, opens, written, last>>
\* POPFStream::flush: a block flushed in the middle gets a whole capacity again.
AppFlush ==
    /\ call = Idle /\ st.par /\ ~st.made
    /\ usage = {} /\ \E i \in Buffers : buf[i].data # <<>>
    /\ Flush(Buffers, buf)
    /\ buf' = [i \in Ids |-> IF i \in Buffers /\ buf[i].rem < buf[i].cap THEN Flushed(buf[i]) ELSE buf[i]]
    /\ usage' = usage \cup {"flushed"}
    /\ UNCHANGED <<st, rd, grips, call, disk, plain, strips, opens, written, last>>

\* Mutant of WriteToStrip: the strip is opened without std::ios::app.
WriteToStripAnew(f) ==
    /\ flight' = flight \ {f}
    /\ strips' = [strips EXCEPT ![f.strip] = f.data]
    /\ UNCHANGED <<st, buf, rd, grips, call, disk, plain, opens, written, sent, last, usage>>
\* writeToStrip at a file manager; a file that cannot be opened is only logged.
WriteToStrip(f) ==
    /\ flight' = flight \ {f}
    /\ \/ /\ strips' = [strips EXCEPT ![f.strip] = @ \o f.data]
          /\ UNCHANGED usage
       \/ /\ "disk" \in Faults /\ usage = {}
          /\ usage' = usage \cup {"disk"}
          /\ UNCHANGED strips
    /\ UNCHANGED <<st, buf, rd, grips, call, disk, plain, opens, written, sent, last>>

\* What scatter reads of the standard file: every block but the last lacks its
\* terminator, and g[k] bytes nobody wrote follow the k-th.
Unterminated(g) ==
    FlattenSeq([k \in 1..Len(g) + 1 |->
        SubSeq(plain, (k - 1) * ScatterBlock + 1,
               IF k <= Len(g) THEN k * ScatterBlock ELSE Len(plain))
        \o (IF k <= Len(g) THEN [j \in 1..g[k] |-> 0] ELSE <<>>)])

\* scatter: a new parallel file, and the standard file written to it
Scatter ==
    /\ call = Idle /\ ~st.par /\ st.plainopen /\ disk = None
    /\ \E ok \in SUBSET (1..Neighbours) :
        LET full == IF plain = <<>> THEN 0 ELSE (Len(plain) - 1) \div ScatterBlock IN
        /\ \E g \in [1..full -> 0..1] :
            LET v == Unterminated(g) IN
            /\ CreateStrips(ok, Len(v))
            /\ call' = [Idle EXCEPT !.op = "write", !.val = v]
            /\ written' = v
        /\ usage' = IF full > 0 THEN usage \cup {"scatter"} ELSE usage
    /\ UNCHANGED <<rd, grips, disk, plain, flight, opens, last>>

-----------------------------------------------------------------------------
(* Reading *)

\* What the strip should hold: its blocks of what was written.
Share(w, i, n) ==
    LET mine == {p \in 1..Len(w) : ((p - 1) \div Offset) % n = i}
        ps == SetToSortSeq(mine, <)
    IN  [j \in DOMAIN ps |-> w[ps[j]]]

\* Where the bytes a read asks for begin, if the reads before it took theirs
Taken == IF grips = <<>> THEN 0 ELSE grips[Len(grips)].from + grips[Len(grips)].size

\* read_in_background up to its loop.  The stream of a file just created has
\* offset 0: its loop never ends.
ReadInBackground(size, gather) ==
    /\ rd' = IF st.made THEN rd ELSE [i \in Ids |-> NewReader]
    /\ st' = [st EXCEPT !.made = TRUE, !.grip = @ + 1, !.bad = FALSE]
    /\ grips' = Append(grips, [size |-> size, reader |-> st.reader, order |-> st.grip,
                               read |-> 0, from |-> Taken])
    /\ call' = [Idle EXCEPT !.op = IF st.offset = 0 THEN "undefined" ELSE "request",
                            !.size = size, !.gather = gather]
    /\ usage' = usage \cup (IF st.readptr # 0 THEN {"unaligned"} ELSE {})
                      \cup (IF Taken + size > Len(written) THEN {"beyond"} ELSE {})
                      \cup (IF st.served > 0 /\ st.grip > st.served THEN {"pipelined"} ELSE {})
    /\ last' = None
    /\ UNCHANGED <<buf, file, opens, written, sent>>

\* Bound: reads are not explored further once their promises are void, nor are
\* two of the circumstances of usage that the model is free to choose.
Reading == usage \subseteq {"sought"}

AppRead ==
    /\ call = Idle /\ st.par
    /\ Len(grips) < MaxGrips /\ Reading
    /\ \E size \in ReadSizes : ReadInBackground(size, None)

\* Mutant of NextReader: the position in the strips does not move.
NextReaderStays(s) ==
    [s EXCEPT !.reader = IF (s.reader + 1) % s.n = 0 THEN 0 ELSE @ + 1]
NextReader(s) ==
    IF (s.reader + 1) % s.n = 0
    THEN [s EXCEPT !.reader = 0, !.roff = @ + s.offset]
    ELSE [s EXCEPT !.reader = @ + 1]

\* The asynchronous call read_in_strip(start, len) of the current reader
ReadCall(start, len) == [rd EXCEPT ![st.reader].queue = Append(@, [start |-> start, len |-> len])]

\* One turn of the loops of read_in_background
Request ==
    /\ call.op = "request"
    /\ LET size == call.size
           whole == size >= st.offset
           len == IF whole THEN (IF st.readptr # 0 THEN st.readptr ELSE st.offset) ELSE size
       IN  IF st.reader >= st.n
           THEN /\ call' = [call EXCEPT !.op = "undefined"]
                /\ UNCHANGED <<st, rd, grips>>
           ELSE /\ rd' = IF len > 0 THEN ReadCall(st.roff, len) ELSE rd
                /\ grips' = IF whole /\ st.readptr # 0
                            THEN [grips EXCEPT ![Len(grips)].read = st.readptr] ELSE grips
                /\ st' = IF whole THEN NextReader([st EXCEPT !.readptr = 0])
                         ELSE IF size > 0 THEN [st EXCEPT !.readptr = st.offset - size] ELSE st
                /\ call' = IF whole THEN [call EXCEPT !.size = size - len]
                           ELSE IF call.gather = None THEN Idle
                           ELSE [call EXCEPT !.op = "gathering"]
    /\ UNCHANGED <<buf, file, opens, hist>>

\* readFromStrip: nothing from behind the end; the part of the buffer the file
\* does not fill is not initialised, a zero ends it at once or late.
ReadFromStrip(i, start, len) ==
    IF start >= Len(strips[i]) THEN {<<>>}
    ELSE LET there == SubSeq(strips[i], start + 1, Min({start + len, Len(strips[i])}))
         IN  {there \o [j \in 1..g |-> 0] : g \in {0, len - Len(there)}}

\* add_data: the put pointer of a stringstream, which str() sends back to the
\* beginning
AddData(r, d) ==
    [r EXCEPT !.data = SubSeq(r.data, 1, r.put) \o d \o SubSeq(r.data, r.put + Len(d) + 1, Len(r.data)),
              !.put = @ + Len(d)]
\* read_in_strip, a sequential method of the reader
ReadInStrip(i) ==
    /\ rd[i].queue # <<>>
    /\ LET q == Head(rd[i].queue) IN
       \E d \in ReadFromStrip(i, q.start, q.len) :
           rd' = [rd EXCEPT ![i] = AddData([@ EXCEPT !.queue = Tail(@)], d)]
    /\ usage' = IF strips[i] = Share(written, i, st.n) THEN usage ELSE usage \cup {"unsettled"}
    /\ UNCHANGED <<st, buf, grips, call, file, opens, written, sent, last>>

\* buffer_get of the k first bytes
BufferGet(r, k) == [r EXCEPT !.data = SubSeq(@, k + 1, Len(@)), !.put = 0]

\* The size of the next read_current_buffer of get_read; -1 is a whole block.
GetSize ==
    IF call.size <= st.offset THEN call.size
    ELSE IF call.grip.read # 0 THEN call.grip.read ELSE -1

\* get_read up to its loop: a grip out of turn is refused.
GetRead(k, gather) ==
    /\ IF grips[k].order # st.served
       THEN /\ st' = [st EXCEPT !.bad = TRUE]
            /\ call' = IF gather = None THEN Idle
                       ELSE [Idle EXCEPT !.op = "gather", !.gather = gather - grips[k].size]
       ELSE /\ call' = [Idle EXCEPT !.op = "get", !.size = grips[k].size, !.grip = grips[k],
                                    !.cur = grips[k].reader, !.gather = gather]
            /\ UNCHANGED st
    /\ UNCHANGED <<buf, rd, grips, file, opens, hist>>
AppGet ==
    /\ call = Idle /\ st.par
    /\ \E k \in DOMAIN grips : grips[k].order >= st.served /\ GetRead(k, None)

\* The end of get_read, and with gather what follows it there
Served(data) ==
    /\ st' = [st EXCEPT !.served = @ + 1]
    /\ last' = [from |-> call.grip.from, size |-> call.grip.size, data |-> data]
    /\ call' = IF call.gather = None THEN Idle
               ELSE [Idle EXCEPT !.op = "gather", !.gather = call.gather - call.grip.size]
    /\ plain' = IF call.gather = None THEN plain ELSE plain \o data

\* One read_current_buffer of get_read.  The method is sequential: it runs after
\* the reads requested before it, and bytes they did not bring never come.
Get ==
    /\ call.op = "get"
    /\ LET i == call.cur
           k == GetSize
           len == IF k = -1 THEN Offset ELSE k
           left == call.size - len
           r == rd[i]
       IN  /\ r.queue = <<>>
           /\ k = -1 \/ Len(r.data) >= k
           /\ IF len > Len(r.data)
              THEN /\ call' = [call EXCEPT !.op = "undefined"]
                   /\ UNCHANGED <<st, rd, last, plain>>
              ELSE /\ rd' = [rd EXCEPT ![i] = BufferGet(r, len)]
                   /\ LET acc == call.acc \o SubSeq(r.data, 1, len) IN
                      IF left > 0
                      THEN /\ call' = [call EXCEPT !.size = left, !.grip.read = 0, !.acc = acc,
                                                   !.cur = NextBuffer(i)]
                           /\ UNCHANGED <<st, last, plain>>
                      ELSE Served(acc)
    /\ UNCHANGED <<buf, grips, disk, strips, flight, opens, written, sent, usage>>

\* gather: the standard file is emptied, then filled by reads of a block each.
StartGather ==
    /\ call = Idle /\ st.par /\ IsOpen /\ Reading
    /\ plain' = <<>>
    /\ call' = [Idle EXCEPT !.op = "gather", !.gather = st.total]
    /\ UNCHANGED <<st, buf, rd, grips, disk, strips, flight, opens, hist>>

Gather ==
    /\ call.op = "gather"
    /\ IF call.gather > 0
       THEN ReadInBackground(IF call.gather > st.offset THEN st.offset ELSE call.gather, call.gather)
       ELSE /\ call' = Idle
            /\ last' = [from |-> 0, size |-> st.total, data |-> plain]
            /\ UNCHANGED <<st, buf, rd, grips, file, opens, written, sent, usage>>
Gathering == call.op = "gathering" /\ GetRead(Len(grips), call.gather)

\* seekg: the block within the strips stays the same, and what is left to read
\* of the block is set to what was already read of it.
Seek(a) ==
    /\ call = Idle /\ st.par /\ st.offset # 0 /\ usage = {}
    /\ LET blocks == IF a = 0 THEN 0 ELSE (a - 1) \div st.offset
       IN  st' = [st EXCEPT !.reader = blocks % (st.n + 1), !.readptr = a % st.offset]
    /\ usage' = usage \cup {"sought"}
    /\ UNCHANGED <<buf, rd, grips, call, file, opens, written, sent, last>>

\* eof assigns where it means to compare; good asks eof.
Eof ==
    /\ call = Idle /\ st.par /\ usage = {}
    /\ st' = [st EXCEPT !.readptr = st.total]
    /\ usage' = IF st.total # 0 THEN usage \cup {"sought"} ELSE usage
    /\ UNCHANGED <<buf, rd, grips, call, file, opens, written, sent, last>>

-----------------------------------------------------------------------------
\* Bound: a behaviour is not followed further once a read met a strip lacking
\* appends, or has no defined outcome.
Followed == "unsettled" \notin usage /\ call.op # "undefined"

Proceed == Followed /\ (BufferAdd \/ Request \/ Get \/ Gather \/ Gathering)
Reader(i) == Followed /\ ReadInStrip(i)
Arrive == Followed /\ \E f \in flight : WriteToStrip(f)

Next ==
    \/ /\ Followed
       /\ \/ Open \/ Create \/ CreateFails \/ AppClose \/ Destroy \/ Crash
          \/ WritePlain \/ Write \/ AppFlush \/ Scatter
          \/ AppRead \/ AppGet \/ StartGather \/ Eof
          \/ \E a \in ReadSizes : Seek(a)
    \/ Proceed
    \/ Arrive
    \/ \E i \in Ids : Reader(i)

Spec == Init /\ [][Next]_vars

-----------------------------------------------------------------------------
(* Properties *)

\* What the bytes of the stream that the application wrote are, without those a
\* write under way still has to put into the buffers.
Buffered == SubSeq(written, 1, Len(written) - Len(call.val))

\* The blocks are dealt to the strips in turn, across every close and reopen
\* (popfile_writeToBuffer, popfile_try_open_parallel), unless the application
\* flushed in the middle of a block, a rest of a write read "FULL" or scatter
\* met a file of more than one of its blocks.
Striping ==
    st.par /\ usage = {} =>
        \A i \in Buffers : FlattenSeq(sent[i]) \o buf[i].data = Share(Buffered, i, st.n)

\* No byte is lost or duplicated between the write and the strips, in whatever
\* order the asynchronous appends of POPFileBuffer::flush are executed.
NoByteLost ==
    (st.par \/ disk # None) /\ usage \subseteq {"flushed", "unaligned", "beyond", "pipelined", "unsettled", "sought"} =>
        LET held == FlattenSeq(SetToSeq({f.data : f \in flight}))
                    \o FlattenSeq([i \in 1..StripNumber |-> strips[i - 1] \o buf[i - 1].data])
                    \o call.val
        IN  Len(held) = Len(written) /\ ToSet(held) = ToSet(written)

\* The metadata never promise bytes that are neither in a strip nor on their way
\* there (close flushes before it saves), not even when the application dies.
MetadataBehindData ==
    disk # None /\ usage \subseteq {"flushed", "crashed", "unaligned", "beyond", "pipelined", "unsettled", "sought"} =>
        1..disk.end \subseteq
            UNION ({ToSet(f.data) : f \in flight} \cup {ToSet(strips[i]) : i \in Ids})

\* What was written is kept: every variable keeps its type, every byte is in
\* exactly one place, the blocks are in their turn, and the metadata follow.
WritesKept == TypeOK /\ Striping /\ NoByteLost /\ MetadataBehindData

\* A read returns the bytes that follow those of the reads before it, and gather
\* the whole file, unless a read before it ended within a block, it asked for
\* more than the file holds, its strip lacked appends still on their way or had
\* got them out of order, or the application mixed up its background reads.
\* Under the same conditions a read of a file that was opened, not just created,
\* has a defined outcome: its loops end, the readers it asks exist, and no block
\* is shorter than what is taken from it (read_in_background, get_read).
ReadExact ==
    usage = {} =>
        /\ last # None => last.data = SubSeq(written, last.from + 1, last.from + last.size)
        /\ call.op = "undefined" => st.offset = 0

=============================================================================
