------------------------------- MODULE Buffer -------------------------------
(***************************************************************************)
(* The chunked byte buffers under every packer and unpacker                *)
(* (ext/cbor/buffer.h, buffer.c and the methods of buffer_class.c).        *)
(*                                                                         *)
(* A buffer is a list of chunks; the last one, the tail, is where bytes    *)
(* are appended.  A chunk's bytes lie in a page of the page pool all       *)
(* buffers share (PagePool), in memory from malloc, or in a Ruby string    *)
(* the chunk refers to.  Two chunks can lie in one page: a byte written    *)
(* through one of them is then seen through the other.                     *)
(***************************************************************************)
EXTENDS Integers, SequencesExt, FiniteSets

CONSTANTS
  Buffer, IoBuffer,         \* the buffers, and those opened on an io
  Page, PageSize,           \* MSGPACK_RMEM_PAGE_SIZE, 4096 in the code
  WriteReferenceThreshold,  \* longer strings are referred to, or bypass
  ReuseFragment,            \* FALSE: DISABLE_RMEM_REUSE_INTERNAL_FRAGMENT
  Null, Heap, Mapped,       \* where bytes lie when not in a page
  Stamps,                   \* the bytes of a buffer are numbered modulo this
  WriteLengths, EnsureLengths, ReadLengths, FeedLengths,
  MaxBytes, MaxChunks       \* bounds on the bytes in chunks and on the chunks

ASSUME BufferAssumption == IoBuffer \subseteq Buffer
ASSUME SizeAssumption == {PageSize, WriteReferenceThreshold, Stamps} \subseteq Nat \ {0}
ASSUME PlaceAssumption == /\ Null \notin Page /\ Heap \notin Page /\ Mapped \notin Page
                          /\ Null # Heap /\ Null # Mapped /\ Heap # Mapped
\* An empty string appends nothing (buffer.h:241), and what is written after
\* msgpack_buffer_ensure_writable fits where that made room.
ASSUME LengthAssumption == /\ WriteLengths \subseteq Nat \ {0}
                           /\ \A e \in EnsureLengths : e[1] \in Nat /\ e[2] \in 1 .. e[1]
                           /\ ReadLengths \subseteq Nat /\ FeedLengths \subseteq Nat

VARIABLES
  buf,     \* buf[b]: the msgpack_buffer_t of b (see Fresh)
  inUse,   \* the pages the pool has handed out
  stamp,   \* stamp[b]: number of the next byte to enter b
  busy,    \* busy[b]: the call of b that waits for its io, or Free
  call     \* the last call, as ByteQueue has it

vars == <<buf, inUse, stamp, busy, call>>

Bytes == Buffer \X (0 .. Stamps - 1)

NextBytes(b, n) == [i \in 1 .. n |-> <<b, (stamp[b] + i - 1) % Stamps>>]
-----------------------------------------------------------------------------
(* Chunks and the state of one buffer *)

\* A chunk holds `data` from offset `first` of the memory `at`; `mem` is what
\* its destruction gives back.
Chunk == [at : Page \cup {Null, Heap, Mapped}, first : Nat, data : Seq(Bytes),
          mem : Page \cup {Null, Heap}]

NullChunk == [at |-> Null, first |-> 0, data |-> <<>>, mem |-> Null]

End(c) == c.first + Len(c.data)

\* msgpack_buffer_init: rd is read_buffer, te tail_buffer_end, and
\* [rlast, PageSize) of page rpage the fragment rmem_last .. rmem_end
Fresh == [chunks |-> <<NullChunk>>, rd |-> 0, te |-> 0,
          rpage |-> Null, rlast |-> PageSize]

TopChunk(s) == Head(s.chunks)
TailChunk(s) == Last(s.chunks)

\* msgpack_buffer_top_readable_size, msgpack_buffer_writable_size
TopReadable(s) == End(TopChunk(s)) - s.rd
Writable(s) == s.te - End(TailChunk(s))

\* the bytes each chunk has left, as flush_to_io and all_as_string take them
Parts(s) == [i \in DOMAIN s.chunks |->
               IF i = 1 THEN SubSeq(TopChunk(s).data, s.rd - TopChunk(s).first + 1, Len(TopChunk(s).data))
                        ELSE s.chunks[i].data]

\* msgpack_buffer_all_as_string
Content(s) == FlattenSeq(Parts(s))

\* msgpack_buffer_all_readable_size
AllReadable(s) == Len(Content(s))

-----------------------------------------------------------------------------
(* Giving chunks up *)

\* _msgpack_buffer_shift_chunk, k times: when the tail goes the list is left
\* with a tail that has no memory.
Shifted(s, k) ==
  IF k = Len(s.chunks)
  THEN [s EXCEPT !.chunks = <<NullChunk>>, !.rd = 0, !.te = 0]
  ELSE [s EXCEPT !.chunks = SubSeq(@, k + 1, Len(@)),
                 !.rd = IF k = 0 THEN @ ELSE s.chunks[k + 1].first]

\* Seeded fault: one chunk too many gives its page back.
FreesOneMore(s, k) == {s.chunks[i].mem : i \in 1 .. Min({k + 1, Len(s.chunks)})} \cap Page

\* _msgpack_buffer_chunk_destroy of the first k chunks: the pages given back
FreedPages(s, k) == {s.chunks[i].mem : i \in 1 .. k} \cap Page

\* what is left to read in the first k chunks
Upto(s, k) == Len(FlattenSeq(SubSeq(Parts(s), 1, k)))

\* Seeded fault: a chunk read to its end stays until the next read (> for >=
\* in _msgpack_buffer_consumed).
DropsLate(s, n) == Min({k \in 0 .. Len(s.chunks) : k = Len(s.chunks) \/ n <= Upto(s, k + 1)})

\* msgpack_buffer_read_nonblock and _msgpack_buffer_consumed: a chunk is
\* shifted when all of it is read
DropsFor(s, n) == Min({k \in 0 .. Len(s.chunks) :
                        \/ k = Len(s.chunks)
                        \/ n = Upto(s, k)
                        \/ n < Upto(s, k + 1)})

Consumed(s, n) == LET k == DropsFor(s, n)
                      t == Shifted(s, k)
                  IN IF k = Len(s.chunks) THEN t ELSE [t EXCEPT !.rd = @ + n - Upto(s, k)]
-----------------------------------------------------------------------------
(* Appending *)

\* the bytes of chunk c after `bytes` were stored from offset off of page p
Clobbered(c, p, off, bytes) ==
  IF c.at # p \/ p \notin Page THEN c
  ELSE [c EXCEPT !.data = [i \in DOMAIN c.data |->
          LET k == c.first + i - off IN IF k \in DOMAIN bytes THEN bytes[k] ELSE c.data[i]]]

\* memcpy to tail.last in msgpack_buffer_append_impl, write_1, write_2 and
\* write_byte_and_data: b's tail grows, and whatever lies there is overwritten
Stored(m, b, bytes) ==
  LET t == TailChunk(m[b])
      seen(x, i) == IF x = b /\ i = Len(m[b].chunks)
                    THEN [t EXCEPT !.data = t.data \o bytes]
                    ELSE Clobbered(m[x].chunks[i], t.at, End(t), bytes)
  IN [x \in Buffer |->
        [m[x] EXCEPT !.chunks = [i \in DOMAIN m[x].chunks |-> seen(x, i)]]]

\* _msgpack_buffer_add_new_chunk: the tail is copied behind the others.  The
\* unused end of its page becomes the fragment, but only in a longer list.
ChunkAdded(s) ==
  LET unused == /\ ReuseFragment /\ Len(s.chunks) > 1
                /\ s.rpage = TailChunk(s).at /\ s.rlast = s.te
  IN IF TailChunk(s).at = Null /\ Len(s.chunks) = 1 THEN s
     ELSE [s EXCEPT !.chunks = Append(s.chunks, TailChunk(s)),
                    !.rlast = IF unused THEN End(TailChunk(s)) ELSE s.rlast]

\* the tail is set to an empty chunk whose memory ends at te
NewTail(s, c, te) ==
  [s EXCEPT !.chunks = Append(Front(s.chunks), c), !.te = te,
            !.rd = IF Len(s.chunks) = 1 THEN c.first ELSE s.rd]

Empty(at, first, mem) == [at |-> at, first |-> first, data |-> <<>>, mem |-> mem]

\* _msgpack_buffer_chunk_malloc into the tail: memory from malloc, the
\* fragment, or page p
FragmentFits(s, n) == ReuseFragment /\ PageSize - s.rlast >= n

\* Seeded fault: the chunk in the fragment owns the page, and so does the chunk
\* the page came with.
OwnsFragmentTwice(s, n, p) ==
  IF n > PageSize THEN NewTail(s, Empty(Heap, 0, Heap), n)
  ELSE IF FragmentFits(s, n)
       THEN [NewTail(s, Empty(s.rpage, s.rlast, s.rpage), PageSize) EXCEPT !.rlast = PageSize]
       ELSE [NewTail(s, Empty(p, 0, p), PageSize) EXCEPT !.rpage = p, !.rlast = PageSize]

Malloced(s, n, p) ==
  IF n > PageSize THEN NewTail(s, Empty(Heap, 0, Heap), n)
  ELSE IF FragmentFits(s, n)
       THEN [NewTail(s, Empty(s.rpage, s.rlast, Null), PageSize) EXCEPT !.rlast = PageSize]
       ELSE [NewTail(s, Empty(p, 0, p), PageSize) EXCEPT !.rpage = p, !.rlast = PageSize]

\* Seeded fault: realloc without more room.
NotDoubled(filled, n) == filled

\* _msgpack_buffer_chunk_realloc: the capacity doubles until it is enough
Doubled(filled, n) == LET size[k \in 0 .. n] == IF k = 0 THEN filled ELSE 2 * size[k - 1]
                      IN size[Min({k \in 1 .. n : size[k] >= filled + n})]

\* _msgpack_buffer_expand with data = NULL: room for n bytes at the tail
MayRealloc(c) == c.at # Mapped /\ Len(c.data) > PageSize

Room(s, n, p) == IF MayRealloc(TailChunk(s))
                 THEN [s EXCEPT !.te = Doubled(Len(TailChunk(s).data), n)]
                 ELSE Malloced(ChunkAdded(s), n, p)

Roomy(m, b, n, p) == [m EXCEPT ![b] = Room(m[b], n, p)]

\* msgpack_buffer_ensure_writable once any flush is done
Ensured(m, b, n, p) == IF Writable(m[b]) >= n THEN m ELSE Roomy(m, b, n, p)

\* msgpack_buffer_append_impl once any flush is done: the old tail is filled
\* first
Appended(m, b, bytes, p) ==
  LET avail == Writable(m[b])
      n == Len(bytes)
  IN IF n <= avail THEN Stored(m, b, bytes)
     ELSE Stored(Roomy(Stored(m, b, SubSeq(bytes, 1, avail)), b, n - avail, p),
                 b, SubSeq(bytes, avail + 1, n))

\* _msgpack_buffer_append_reference
Referred(s, bytes) == LET c == [Empty(Mapped, 0, Null) EXCEPT !.data = bytes]
                      IN NewTail(ChunkAdded(s), c, Len(bytes))
-----------------------------------------------------------------------------
(* Calls.  Each sets `call` to what it took in and gave out. *)

Called(op, b, n, in, out, raised) ==
  call' = [op |-> op, buf |-> b, n |-> n, in |-> in, out |-> out, raised |-> raised]

\* A call of b that an io is serving, in Ruby code that may use every other
\* buffer: what it does next, with n bytes, of which `require` must fit.
Doing(op, n, require) == [op |-> op, n |-> n, require |-> require]
Free == Doing("none", 0, 0)
Sending == {"flush", "append", "ensure", "bypass"}

Idle(b) == busy[b] = Free
Becomes(b, w) == busy' = [busy EXCEPT ![b] = w]

\* The pool after the first k chunks of b gave their pages back and the tail
\* of m[b] took one; `Room` finds its page among those free by then.
FreePages(b, k) == Page \ (inUse \ FreedPages(buf[b], k))
PoolAfter(b, k, m) ==
  inUse' = (inUse \ FreedPages(buf[b], k)) \cup ({TailChunk(m[b]).mem} \cap Page)

Enters(b, n) == stamp' = [stamp EXCEPT ![b] = (@ + n) % Stamps]

\* Bounds of the model.  Bytes already read count: they stay in their chunk
\* until all of it is read.
Fits(b, n) ==
  Len(FlattenSeq([i \in DOMAIN buf[b].chunks |-> buf[b].chunks[i].data])) + n <= MaxBytes
FitsAfter(s) == Len(s.chunks) <= MaxChunks

\* Seeded fault: flush sends the head chunk from `first` instead of read_buffer.
ResendsRead(b, k) == FlattenSeq([i \in 1 .. k |-> buf[b].chunks[i].data])

\* What is left of the first k chunks goes out, and the chunks are shifted.
Flushed(b, k) == [buf EXCEPT ![b] = Shifted(@, k)]
Sent(b, k) == FlattenSeq(SubSeq(Parts(buf[b]), 1, k))

GivesBack(b, k) == buf' = Flushed(b, k) /\ inUse' = inUse \ FreedPages(buf[b], k)

\* msgpack_buffer_flush_to_io has something to write first.  An append flushes
\* only if its bytes do not fit (_msgpack_buffer_expand).
FlushesFirst(b, w) ==
  /\ TopReadable(buf[b]) > 0
  /\ \/ w.op \in {"flush", "bypass"}
     \/ b \in IoBuffer /\ w.require > Writable(buf[b])

\* The rest of call w once flushing is over, the last k chunks going with it
GoesOn(b, k, w) ==
  LET bytes == NextBytes(b, w.n)
  IN \/ /\ w.op = "flush"
        /\ GivesBack(b, k)
        /\ Called("flush", b, 0, <<>>, Sent(b, k), FALSE)
        /\ Becomes(b, Free)
        /\ UNCHANGED stamp
     \/ /\ w.op \in {"append", "ensure"}
        /\ \E p \in FreePages(b, k) :
             /\ buf' = IF w.op = "append" THEN Appended(Flushed(b, k), b, bytes, p)
                       ELSE Stored(Ensured(Flushed(b, k), b, w.require, p), b, bytes)
             /\ PoolAfter(b, k, buf')
        /\ FitsAfter(buf'[b])
        /\ Enters(b, w.n)
        /\ Called("write", b, w.n, bytes, Sent(b, k), FALSE)
        /\ Becomes(b, Free)
     \/ /\ w.op = "bypass"
        /\ GivesBack(b, k)
        /\ Called("sends", b, 0, <<>>, Sent(b, k), FALSE)
        /\ Becomes(b, Doing("direct", w.n, 0))
        /\ UNCHANGED stamp

\* A call begins: to its end, or to the first write of its io.
Begins(b, w) ==
  /\ Idle(b)
  /\ \/ ~FlushesFirst(b, w) /\ GoesOn(b, 0, w)
     \/ FlushesFirst(b, w) /\ Becomes(b, w) /\ UNCHANGED <<buf, inUse, stamp, call>>

\* msgpack_buffer_flush_to_io(.., consume = true): the head chunk is shifted
\* when its write returns, and the next one is written.
WriteReturns(b) ==
  /\ busy[b].op \in Sending
  /\ \/ Len(buf[b].chunks) = 1 /\ GoesOn(b, 1, busy[b])
     \/ /\ Len(buf[b].chunks) > 1
        /\ GivesBack(b, 1)
        /\ Called("sends", b, 0, <<>>, Sent(b, 1), FALSE)
        /\ UNCHANGED <<stamp, busy>>

\* _msgpack_buffer_append_long_string: the long string itself is with the io.
DirectReturns(b) ==
  LET bytes == NextBytes(b, busy[b].n)
  IN /\ busy[b].op = "direct"
     /\ Called("write", b, busy[b].n, bytes, bytes, FALSE)
     /\ Enters(b, busy[b].n)
     /\ Becomes(b, Free)
     /\ UNCHANGED <<buf, inUse>>

\* The io raises: the chunk it was given stays, and the call's bytes are
\* never stored.
WriteRaises(b) ==
  /\ busy[b].op \in Sending \cup {"direct"}
  /\ Called(IF busy[b].op = "flush" THEN "flush" ELSE "write", b, busy[b].n, <<>>, <<>>, TRUE)
  /\ Becomes(b, Free)
  /\ UNCHANGED <<buf, inUse, stamp>>

\* _msgpack_buffer_append_reference
Refer(b, n) ==
  /\ Idle(b)
  /\ buf' = [buf EXCEPT ![b] = Referred(@, NextBytes(b, n))]
  /\ FitsAfter(buf'[b])
  /\ Enters(b, n)
  /\ Called("write", b, n, NextBytes(b, n), <<>>, FALSE)
  /\ UNCHANGED <<inUse, busy>>

\* msgpack_buffer_append_string (Buffer#write and <<, packed strings).  Whether
\* rb_str_dup copies is up to the string (STR_DUP_LIKELY_DOES_COPY).
Long(n) == n > WriteReferenceThreshold

AppendString(b, n) ==
  /\ Fits(b, n)
  /\ \/ ~(Long(n) /\ b \in IoBuffer) /\ Begins(b, Doing("append", n, n))
     \/ Long(n) /\ b \in IoBuffer /\ Begins(b, Doing("bypass", n, 0))
     \/ Long(n) /\ b \notin IoBuffer /\ Refer(b, n)

\* msgpack_buffer_ensure_writable and then the bytes of one head, number or
\* bignum (packer.h); a head of two bytes asks for three
WriteEnsured(b, require, n) == Fits(b, n) /\ Begins(b, Doing("ensure", n, require))

\* Buffer#flush, and #write_to for a buffer without an io
Flush(b) == Begins(b, Doing("flush", 0, 0))

\* b gives out its first n bytes, or all it has, and then `in`
Available(b, n) == Min({n, AllReadable(buf[b])})

Takes(op, b, n, in, raised) ==
  /\ buf' = [buf EXCEPT ![b] = Consumed(@, n)]
  /\ inUse' = inUse \ FreedPages(buf[b], DropsFor(buf[b], n))
  /\ Called(op, b, n, in, SubSeq(Content(buf[b]), 1, Available(b, n)) \o in, raised)

\* Buffer#read and #skip: what is there, then partial reads of the io until
\* it is enough or the io ends.  If the io raises anything but EOFError, what
\* was taken is gone.
Read(b, n) ==
  LET missing == IF b \in IoBuffer THEN n - Available(b, n) ELSE 0
  IN /\ Idle(b)
     /\ \E more \in 0 .. missing, raised \in BOOLEAN :
          /\ raised => more < missing
          /\ Takes("read", b, n, NextBytes(b, more), raised)
          /\ Enters(b, more)
     /\ UNCHANGED busy
-----------------------------------------------------------------------------
(* Buffer#read_all and #skip_all, and every read of a value's head or body: *)
(* msgpack_buffer_ensure_readable, then a read that finds all it wants.     *)

Enough(b, n) == AllReadable(buf[b]) >= n

ReadAll(b, n) ==
  /\ Idle(b)
  /\ \/ /\ Enough(b, n)
        /\ Takes("read_all", b, n, <<>>, FALSE)
        /\ UNCHANGED <<stamp, busy>>
     \/ /\ ~Enough(b, n) /\ b \notin IoBuffer
        /\ Called("read_all", b, n, <<>>, <<>>, TRUE)
        /\ UNCHANGED <<buf, inUse, stamp, busy>>
     \/ /\ ~Enough(b, n) /\ b \in IoBuffer
        /\ Becomes(b, Doing("read_all", n, 0))
        /\ UNCHANGED <<buf, inUse, stamp, call>>

\* _msgpack_buffer_feed_from_io: appends without flushing
Feed(b, n) ==
  /\ busy[b].op = "read_all" /\ ~Enough(b, busy[b].n) /\ Fits(b, n)
  /\ \E p \in FreePages(b, 0) :
       /\ buf' = Appended(buf, b, NextBytes(b, n), p)
       /\ PoolAfter(b, 0, buf')
  /\ Enters(b, n)
  /\ Called("feed", b, n, NextBytes(b, n), <<>>, FALSE)
  /\ UNCHANGED busy

\* the io ends (EOFError) or raises before there is enough
FeedEnds(b) ==
  /\ busy[b].op = "read_all" /\ ~Enough(b, busy[b].n)
  /\ Becomes(b, Free)
  /\ Called("read_all", b, busy[b].n, <<>>, <<>>, TRUE)
  /\ UNCHANGED <<buf, inUse, stamp>>

ReadAllFed(b) ==
  /\ busy[b].op = "read_all" /\ Enough(b, busy[b].n)
  /\ Takes("read_all", b, busy[b].n, <<>>, FALSE)
  /\ Becomes(b, Free)
  /\ UNCHANGED stamp
-----------------------------------------------------------------------------
\* msgpack_buffer_clear
Clear(b) ==
  LET k == Len(buf[b].chunks) IN
  /\ Idle(b)
  /\ GivesBack(b, k)
  /\ Called("clear", b, 0, <<>>, Sent(b, k), FALSE)
  /\ UNCHANGED <<stamp, busy>>

\* msgpack_buffer_destroy, when the garbage collector finds a buffer or the
\* packer or unpacker around it, and a new buffer in its place.  What the old
\* one had left of a page is forgotten; `Clear` keeps it.
Collected(b) ==
  LET k == Len(buf[b].chunks) IN
  /\ Idle(b)
  /\ buf' = [buf EXCEPT ![b] = Fresh]
  /\ inUse' = inUse \ FreedPages(buf[b], k)
  /\ Called("collected", b, 0, <<>>, Sent(b, k), FALSE)
  /\ UNCHANGED <<stamp, busy>>

Queue == INSTANCE ByteQueue WITH content <- [b \in Buffer |-> Content(buf[b])]

Init == /\ buf = [b \in Buffer |-> Fresh]
        /\ inUse = {}
        /\ stamp = [b \in Buffer |-> 0]
        /\ busy = [b \in Buffer |-> Free]
        /\ call = Queue!NoCall

Next == \E b \in Buffer :
          \/ \E n \in WriteLengths : AppendString(b, n)
          \/ \E e \in EnsureLengths : WriteEnsured(b, e[1], e[2])
          \/ \E n \in ReadLengths : Read(b, n) \/ ReadAll(b, n)
          \/ \E n \in FeedLengths : Feed(b, n)
          \/ FeedEnds(b)
          \/ ReadAllFed(b)
          \/ WriteReturns(b)
          \/ DirectReturns(b)
          \/ WriteRaises(b)
          \/ Flush(b)
          \/ Clear(b)
          \/ Collected(b)

Spec == Init /\ [][Next]_vars
-----------------------------------------------------------------------------
TypeOK ==
  /\ buf \in [Buffer -> [chunks : Seq(Chunk), rd : Nat, te : Nat,
                         rpage : Page \cup {Null}, rlast : 0 .. PageSize]]
  /\ inUse \subseteq Page
  /\ stamp \in [Buffer -> 0 .. Stamps - 1]
  /\ busy \in [Buffer -> [op : Sending \cup {"none", "direct", "read_all"}, n : Nat, require : Nat]]
  /\ \A b \in Buffer : /\ buf[b].chunks # <<>>
                       /\ TopChunk(buf[b]).first <= buf[b].rd
                       /\ buf[b].rd <= End(TopChunk(buf[b]))
                       /\ End(TailChunk(buf[b])) <= buf[b].te

\* empty?, flush and read look only at the top chunk: when it has no byte
\* left no other chunk has any, and the buffer holds no page and no other
\* memory: a drained buffer costs nothing until it is written again.
EmptyTopMeansEmpty ==
  \A b \in Buffer : TopReadable(buf[b]) = 0 => buf[b].chunks = <<NullChunk>>

\* Every buffer is a queue of bytes, whatever chunks its bytes are spread
\* over, whatever the other buffers write into the pages they share the pool
\* with, and whichever io call raises.
Fifo == Queue!Spec

\* Unread bytes lie in pages the pool has handed out, never in one it may
\* hand out again.
UnreadInLivePages ==
  \A b \in Buffer : \A i \in DOMAIN buf[b].chunks :
    buf[b].chunks[i].at \in Page => buf[b].chunks[i].at \in inUse

\* Every page handed out is given back by exactly one chunk of one buffer:
\* none is lost, none is given back twice.
OwnedOnce(m, used) ==
  /\ \A b \in Buffer : \A i \in DOMAIN m[b].chunks :
       m[b].chunks[i].mem \in Page => m[b].chunks[i].mem \in used
  /\ \A p \in used : \E b \in Buffer : \E i \in DOMAIN m[b].chunks : m[b].chunks[i].mem = p
  /\ \A b, x \in Buffer : \A i \in DOMAIN m[b].chunks, j \in DOMAIN m[x].chunks :
       m[b].chunks[i].mem \in Page /\ m[b].chunks[i].mem = m[x].chunks[j].mem => b = x /\ i = j

PagesOwnedOnce == OwnedOnce(buf, inUse)

\* The room at a tail is nobody else's: no other chunk has bytes, and no
\* other tail has room, where the tail will write.
Cells(c, from, to) == IF c.at \in Page THEN {c.at} \X (from .. to - 1) ELSE {}

RoomExclusive ==
  \A b \in Buffer :
    LET t == TailChunk(buf[b])
        room == Cells(t, End(t), buf[b].te)
    IN \A x \in Buffer : \A i \in DOMAIN buf[x].chunks :
         LET c == buf[x].chunks[i]
             isTail == i = Len(buf[x].chunks)
         IN (x # b \/ ~isTail) =>
              room \cap Cells(c, c.first, IF isTail THEN buf[x].te ELSE End(c)) = {}
=============================================================================
