# A TLA+ model of cbor-ruby

cbor-ruby is a CBOR encoder and decoder for Ruby, a C extension derived from
msgpack-ruby. These modules model the parts of the extension that keep state,
and TLC and TLAPS check what makes them correct.

## 1. Inventory

All state lives in C structures behind the classes `CBOR::Buffer`,
`CBOR::Packer` and `CBOR::Unpacker`. Ruby's global lock lets one call run at a
time; control leaves a call only through a method of an io, a block, a `to_cbor`
or a tag conversion written in Ruby, or through an exception (a `longjmp`).

| Part | Source | State | Operations |
|------|--------|-------|------------|
| page allocator | `ext/cbor/rmem.{h,c}` | one pool per process: a `head` chunk of 32 pages, an array of chunks, a bit mask of free pages in each | alloc a page, free a page, destroy |
| byte buffer | `ext/cbor/buffer.{h,c}`, `buffer_class.c` | list of chunks, the tail embedded, `read_buffer`, `tail_buffer_end`, the free end of a page (`rmem_last`..`rmem_end`, `rmem_owner`), io | write, read, skip, read_all, skip_all, flush, write_to, clear, feed from the io, destroy |
| unpacker | `ext/cbor/unpacker.{h,c}`, `unpacker_class.c` | `head_byte`, stack of open containers, `reading_raw`, `reading_raw_remaining`, `textflag`, `last_object` | read, skip, each, feed_each, skip_nil, read_array_header, read_map_header, feed, reset, `CBOR.decode` |
| packer | `ext/cbor/packer.{h,c}`, `packer_class.c` | its buffer; the recursion over the object | write, write_nil, headers, flush, `CBOR.encode` |
| core extensions | `ext/cbor/core_ext.c` | none | `to_cbor` of the core classes |
| setup and platform | `rbinit.c`, `compat.h`, `sysdep*.h`, `extconf.rb` | none | registration, build options |

How they interact: every buffer of every packer and unpacker takes its pages
from the one pool. A packer appends to its buffer, which may flush to an io
first; an unpacker takes bytes from its buffer, which may feed itself from an
io. The unpacker reads either from the top chunk only (the fast path) or across
chunks, and calls Ruby for tags. The packer calls `to_cbor` of foreign objects,
which call the packer again.

What is hard here, and to test: memory shared by buffers that know nothing of
each other; the order of chunks when the embedded tail is copied away and
reused; an io that raises between two writes; an item that arrives in any
pieces, so that every field of the unpacker must survive an `EOFError` at every
point; nested containers ending together; size_t counts at zero; calls of
different methods in the middle of one item; Ruby code that runs in the middle of a C
loop (an io's methods, the block of `each`, `to_cbor`) and calls the library again.

What makes each part correct:

* allocator: a page has one holder or none; no chunk goes back to malloc while a
  page of it is held; it grows only when all pages are held.
* buffer: it is a queue of bytes, whatever its chunks and the other buffers do.
* unpacker: the objects delivered are a function of the bytes alone, not of how
  they were cut into feeds and calls; every call returns.
* packer: the bytes written decode to the object; a header's count fits what
  follows it.
* both ends of a stream: what is written and flushed comes out, in order, as
  soon as its last byte is there.

## 2. Plan

1. (done) `PagePool`, `Rmem` and its proofs. 2. (done) `ByteQueue`, `Buffer`.
3. (done) `CborReference`, `ItemReader`, `Unpacker`.
4. (done) `CborNumber`: numbers of any size and floats, as bytes and back;
   `Packer`: heads, values, and the traversal with callbacks that raise or
   change containers, checked against `CborReference`.
5. (done) counts of 2^63 and more in the unpacker, by their bytes; calls from
   the block of `each`.
6. (done) flushes that stop at every write of the io, whose code uses other
   buffers; destruction of buffers.
7. (done) `Stream`: `Packer` and `Unpacker` at the two ends of a stream. It takes
   the place of a composition of `Packer` with `Buffer`: what the packer and the
   unpacker need of a buffer is that it is a queue, which is `Fifo`.
8. (done) `BufferProofs`: `PagesOwnedOnce`, and without reuse of page ends
   `UnreadInLivePages` and `RoomExclusive`.
9. (done) `UnpackerProofs`: `TypeOK`, `CountsOwed` and `NoResidue`;
   `PackerProofs`: `HeadersFit`.
10. (done) `BufferProofs`: the shape of the chunk lists, `EmptyTopMeansEmpty` and
   `TypeOK` of `Buffer`, and that it implements `ByteQueue`; `CborFacts` and
   `PackerProofs`: types of `Packer`, heads, counts and floats read back, and
   `ShortestForm`.
11. (done) `CborItems`, a reading of items that recurses over numbers only, and
   `PackerReads`: what the packer writes reads back as the values written.
12. (done) `UnpackerProofs`: what the unpacker delivers is what the bytes it has taken
   read as.
13. (done) `StreamProofs`: what comes out of a stream is what went in.

## 3. Modules

| Module | Role |
|--------|------|
| `PagePool` | what the allocator promises: pages are handed out and taken back |
| `Rmem` | the allocator; implements `PagePool` |
| `RmemProofs` | its inductive invariant and theorems |
| `ByteQueue` | what buffers promise: queues of bytes |
| `Buffer` | the chunked buffers; implements `ByteQueue` |
| `BufferProofs` | who owns which page, the shape of the chunk lists, and that the chunks of a buffer are a queue: the buffers' inductive invariants and theorems, and the refinement of `ByteQueue` |
| `ListFacts` | lemmas about sequences, for the modules of proofs |
| `CborNumber` | numbers and floats as bytes, both ways |
| `CborValue` | initial bytes, Ruby objects, tag conversions |
| `CborReference` | a stateless recursive decoder (TLC only: it is RECURSIVE) |
| `CborItems` | the items in a string of bytes, read from head to head: the decoder that theorems speak of |
| `ItemReader` | what the unpacker promises: items cut from the input |
| `Unpacker` | the decoder; implements `ItemReader` |
| `UnpackerProofs` | its types, counts and what is left between items; then, with the invariant of whole items, that what it delivers is what its bytes stand for |
| `Packer` | the encoder, `CBOR.encode` and `to_cbor` |
| `PackerProofs` | hash headers and callbacks, types, heads and the shortest form: the encoder's invariants and theorems |
| `PackerReads` | that what is written reads back: the invariant of whole traversals and its theorem |
| `CborFacts` | numbers, floats and items as bytes: lemmas and a theorem |
| `Stream` | `Packer` and `Unpacker`, composed over a stream of bytes |
| `StreamProofs` | that values come out of it in order: the composition of the two invariants and its theorem |
| `MCRmem`, `MCBuffer`, `MCUnpacker`, `MCPacker`, `MCStream` | instances for TLC; `MCPacker` also reads the packer's output back |

Operators commented as seeded faults are plausible bugs; they are used in no
action. Each checked property has one that breaks it (listed in `PROJECT.json`).

### Rmem

A chunk is its set of pages and the mask of those free; `head` and
`chunks[1..n]` are as in `msgpack_rmem_t`. `AllocHead` is the inline fast path,
`AllocFromArray` and `AllocNewChunk` the two halves of `_msgpack_rmem_alloc2`
(search and swap; grow and take), `FreeToHead` and `FreeToArray` the two
branches of `msgpack_rmem_free`, the second with the removal of a wholly free
chunk. `held` is the set of pages with a holder. 32 pages per chunk are
`PagesPerChunk`, the first capacity of the array (8) `FirstCapacity`.

### Buffer

Pages come from the pool as `PagePool` describes it: any free page. A buffer is
a record of its chunks and of the four pointers that matter (`Fresh`). A chunk
knows where its bytes lie; writing through one chunk overwrites what another
chunk has at the same place (`Clobbered`), so that sharing a page by mistake
shows as wrong bytes. The bytes of a buffer are numbered modulo `Stamps`: enough
to see a byte lost, repeated, reordered or foreign.

A call that does not reach its io is one action, with the expansion and the
shift of chunks it makes. A call that flushes stops at every write of the io:
`busy[b]` says what it will do when flushing is over (`Begins`, `WriteReturns`,
`GoesOn`), and the io may raise instead of returning (`WriteRaises`). Meanwhile
the io's code, and other threads, use every other buffer. So it is for the long
string that is handed to the io past the buffer (`DirectReturns`) and for the
feeds of `read_all` (`Feed`, `FeedEnds`, `ReadAllFed`). `read` and `skip` are
one action although they call the io: they have emptied the buffer by then and
touch no chunk until they return. If the io raises something other than
`EOFError` they lose what they took, and `ByteQueue` says so (`raised` with
bytes in `out`).

Calls of the very buffer whose io is running are left out: no document promises
anything, and the code keeps no lock. What such a write appends lies in the
chunk that is shifted when the io returns, and is lost.

### Unpacker

Bytes are real bytes. One step is one turn of the loop of
`msgpack_unpacker_read` or `_skip`: `ReadPrimitive` in its eight outcomes, then
the step for the container on top, repeated while containers complete
(`container_completed`). `unread` is what the buffer holds, in order: that it
is a queue is what `Buffer` shows. Where the chunks end matters to the
unpacker at one place, and is a free choice there (`WholeString` or
`SplitString`). An io that has no more bytes raises `EOFError` from inside the
buffer and leaves the unpacker as PRIMITIVE_EOF does. `each` yields between two
steps (`Yields`), and its block may read, skip, peek, feed and reset with the same
unpacker, let the loop go on or leave it (`RubyRuns`, `Returns`). `FeedEach` feeds
and begins the loop at once. A second `each` in the block is left out; it would
be the same loop.

`taken`, `within` and `lost` are history: the bytes of the item under way, and
whether an exception or a mix of calls has left it undeliverable. `ItemReader`
is instantiated with `pending <- taken \o unread`, and `DeliversItems` compares what a
read returns with `Reading(taken)` of `CborItems`.

Counts come from the argument's bytes (`Count`): those of 2^24 and more are not
told apart and are called `Huge`, since so many bytes or elements never come
(`PendingAssumption`).
`val*2` drops the upper bit of eight bytes before that (`KeysAndValues`). A
decrement of a size_t 0 gives `Wrapped`, from which no number of steps comes back
to 0. What is fed at a time is one of `Pieces`: single bytes in most runs. A Hash is the sequence of its insertions, so equality of keys is left
to Ruby. Tag conversions are modelled by the classes they accept: strings that
are no regular expression or no URI, and `Time.at` of NaN, are left out, and URI
is taken to be loaded.

Integers are a sign and their significant bytes, so they have no bound; floats
are sign, exponent and mantissa fields, so that signed zeros and NaN payloads
count.

### Packer

`todo` is the C stack: one frame for each value, array, hash, tag or `to_cbor`
under way, and before them the headers the caller has written and not yet
filled. A loop of `packer.c` is one action for its start, one for a turn and one
for its end (`WriteArray`, `NextElement`, `ArrayEnds`; `WriteHash`, `NextEntry`,
`NextValue`, `HashEnds`), because a turn may run Ruby code. `heap` has the
contents of arrays and hashes; an array is read by index with the length taken
at first, a hash in the order of its entries, of which deleted ones are passed
over. `buffer` is the packer's buffer as a sequence, and may be flushed to the
io before any value (`Emits`); a long string that goes to the io past the
buffer comes to the same bytes in the same order.

While a `to_cbor` runs (`InCallback`) it may write values and headers with the
same packer, flush, raise, shorten and lengthen arrays, delete, set and add hash
entries (the last not in a hash under iteration, which Ruby refuses). Its
contract is that it writes one item. It does not clear the packer, and does not
rescue an exception of the packer itself: exceptions go to the outermost caller
(`Unwinds`). An io may raise at any flush, also between the head and the body
of a string (`Begun`). Strings have one of four encodings, of which the last,
ISO-8859-1, stands for those that are converted.

`written`, `mark` and `damaged` are history: the values written from outside,
each part as it was when the traversal came to it; the bytes there were when
the outermost call began; and whether an exception came after bytes of its
call were out, a caller cleared the packer in the middle of something, or a
`to_cbor` deleted hash entries that a header had counted. That last case gives a
map whose header promises more than follows. No document says what should
happen, so `HeadersFit`, `Encodes` and `ReadsBack` promise nothing from then on,
until `clear` with nothing sent.

`ReadsBack` is the central property: everything sent and buffered reads back, from
the first byte to the last, as the values written, and behind them is at most a
container the caller has not filled. `CborItems` reads there; `Encodes` says the same
with the reference decoder the unpacker is held to, which is written in another way.
`ShortestForm` says that no shorter head or float would have done; `Heads` finds
the initial bytes it speaks of.

### Stream

The bytes the packer has sent are the stream; whoever reads it hands them to
`feed_each` in pieces of any length, and the block keeps the objects (`got`).
The writer does all that `Packer` describes, until an exception or a callback
leaves half a value in the stream, and then only flushes: after that the reader's
objects are those of other values, and no document says how to go on. The reader
feeds and reads and does nothing else with its unpacker.

`InOrder` is what a stream promises, `Arrives` that it does so at once. `Unharmed` says
that what a packer wrote never makes the unpacker raise; it holds as long as values nest no
deeper than the unpacker's stack, which is 4 in the run, like the packer's frames.
`Stream` takes `Packer` and `Unpacker` from their modules of proofs, so that
`StreamProofs` can cite what is proved of each; pieces of any bytes may come.

## 4. Runs

| Run | Shows | Bounds |
|-----|-------|--------|
| `page_allocator` | all properties of `Rmem` and that it implements `PagePool` | 4 chunks of 3 pages, array starting at 1 slot: grows twice, all swaps occur |
| `buffer_chunks` | the default build: pages, malloc, realloc, references and reuse of page ends together; no page is lost or given back twice, a drained buffer holds nothing | pages of 3 bytes, references from 5 bytes, 14 bytes, 5 chunks |
| `buffers_sharing_pages` | two buffers on one pool of 4 pages, the first with an io; no reuse of page ends | pages of 2 bytes, 5 bytes and 3 chunks each, writes and feeds of up to 3 |
| `unpacker` | all eight methods in any mix, also from the block of `each`, definite items; items as by the reference decoder and as by `CborItems` | 5 bytes of {01, 18, 1c, 42, 82, a1, c1}, stack of 2 |
| `unpacker_nested` | indefinite arrays, maps and strings, stray breaks, tags with two-byte numbers and conversions that raise | 5 bytes of 11, stack of 2 |
| `unpacker_returns` | every call returns, under fairness | 4 bytes of 5 |
| `packer` | the bytes decode to the values written, by two decoders; headers fit, forms are shortest | one array and one hash of up to 2, 4 frames, an io; integers at each change of width and sign up to 2^64, floats at each edge of the formats, strings of each encoding; one value before the last |
| `stream` | values come out in order and at once, and none of them makes the reader raise | two values before the last, four frames, containers of one element, pieces of any length; two object graphs |

The bounds are small because the cases are: a chunk list shows all its shapes
(top = tail, two, several) by three chunks; a page is at its end after two or
three bytes; the unpacker's control depends on one head byte, its argument and
the frame on top, so a stack of two frames has a container inside a container
and the error one deeper, and five bytes hold the smallest items of every kind
nested twice and cut everywhere. In `packer` an array and a hash that may hold
each other, with foreign objects as elements, keys and values, give every mix of
traversal and callback that four frames have room for, and each number, float
and string of the lists in `MCPacker` is written both as an element and as a key.
Pages are interchangeable (`PageSymmetry`); the views
leave out `call`, `out` and a stale `last_object`, which no step reads.
Properties that look at steps are still checked on every step.

Runs that show what the code does against its documentation:

| Run | Source | What happens |
|-----|--------|--------------|
| `buffer_fragment_reuse` | `buffer.c:387` | with references to small strings and reuse of page ends a page is given back under unread bytes |
| `skip_indefinite` | `unpacker.c:717` | `skip` of an indefinite container never passes its break byte |
| `huge_map_wraps` | `unpacker.c:398` | a map of 2^63 + 1 entries is delivered with one |
| `split_keys_not_symbols` | `unpacker.c:269` | with `symbolize_keys` a key that arrived in pieces is a String |

The passing runs stay clear of these: `unpacker`, which skips and peeks, has no
break byte and no 0xdf, none symbolizes, none feeds a count of 2^63; the run of
`Buffer` that checks contents has no reuse of page ends.

`skip_nil` returns true without consuming the nil, against
doclib/cbor/unpacker.rb:57; it is modelled as it is (`SkipNil`).

The unused end of a page is reused only after a string was referred to or more
than a page was asked for at once: otherwise the old tail is filled up first, or
what is left of it is too small. So `buffers_sharing_pages`, which leaves reuse
out, has all the layouts the default build has without these two, and
`buffer_chunks` shows what still holds with them.

Seen while modelling and promised by no document, so that `ItemReader` sets
`lost` and promises nothing until `reset`: after `StackError`, a failed tag
conversion or a wrong chunk in an indefinite string the item's beginning is
gone and later reads go on in its middle; an indefinite string may hold
indefinite strings; a `read` that goes on after a `skip` delivers a container
without the elements skipped; `skip` of a lone break byte returns nil.
And of no effect on the runs, which do not go there: a byte 0xdf that `skip_nil`
or a header method has taken is forgotten, since `head_byte` holds 0xdf when it
holds none (`unpacker.c:66`), and the next read goes on behind it; `CBOR.encode`
with an io returns nil; `to_cbor` takes an instance of a subclass of
`CBOR::Packer`, or a packer with singleton methods, for an io (`core_ext.c:48`);
a `CBOR::Simple` above 255 is written with the head of a float.

### Fairness

`FairSpec` has weak fairness of `Step` only: a call that has begun makes its
next turn, since the loops wait for nothing. No fairness is assumed of callers,
blocks or feeds.

`Stream` has weak fairness of the reader: of `ReceivesSome` (bytes that were sent
are fed), of `Reads` (its loop goes on) and of `Keeps` (its block returns). A
reader that stops reading the stream is not the library's concern. The writer
has none: `Arrives` holds although it may stop after the flush, or raise.

## 5. Proofs

`RmemProofs` proves for every `PagesPerChunk`, `FirstCapacity` and set of blocks,
and so for any number of chunks, that the allocator's inductive invariant holds
(`Invariance`), and from it types (`TypeCorrect`), that masks and holders agree
page by page (`PagesAccounted`), that at most one wholly free chunk is kept
(`MemoryGivenBack`), that malloc is called only when all pages are held
(`GrowthJustified`) and that `Rmem` implements `PagePool` (`Implementation`).

`HeldExact` alone is not inductive: freeing a page finds its chunk by its
address, so chunks must be disjoint (`BlocksDistinct`); the swap of `head` with
an array element keeps that. "At most one spare chunk" needs that a wholly free
chunk in the array is its first, since the code looks there only. Each action
has a lemma that it preserves the conjunction; `HandedOutExact` and
`TakenBackExact` say what one bit of a mask does to the set of held pages. The
assumptions are those stated in `Rmem`: sizes are positive numbers.

`BufferProofs` proves for any number of buffers, any pages and any lengths that
the chunks of all buffers agree with the pool (`BooksKept`). From it: no page is
lost or given back twice (`PagesReturned`), in either build of the code; and in the
build that does not reuse page ends, that unread bytes never lie in a page the
pool may hand out (`UnreadStaysLive`) and that no buffer writes where another one
has bytes or room (`RoomIsExclusive`). The last two are false in the default build
(`buffer_fragment_reuse`), hence their condition `~ReuseFragment`, which is the
switch `DISABLE_RMEM_REUSE_INTERNAL_FRAGMENT`.

`PagesOwnedOnce` is not inductive by itself. When the only chunk has no memory
it is overwritten and not copied, and no page may be lost with it: a chunk
without memory owns no page (`OwnsItsPage`, first part). Without reuse a chunk
owns the page its bytes lie in (second part), so two chunks in one page would
own it twice. The rest of the invariant (`Books`) is what the provers need of
records and sequences: `WellFormed` says that a buffer has its fields and its
chunks are a sequence that is not empty. The argument follows the code: what
a chunk list becomes when chunks go at its front (`ChunksDropped`) or one comes
at its end (`ChunkAppended`), then the operators that append (`RoomyBooks`,
`AppendedBooks`, `EnsuredBooks`, `ReferredBooks`) and read (`TakenBooks`), then one
lemma per action. The only assumption is `PlaceAssumption`: pages, malloc'ed
memory and strings are different things.

It also proves for both builds what a chunk list looks like (`ChunksKept`):
`read_buffer` points into the bytes of the top chunk, `tail_buffer_end` lies behind
those of the last chunk and within its page, the free end of a page is that of a
page, and no chunk is without unread bytes unless the buffer is drained. A call
that waits for its io waits for something it can get.
It adds to the books that lengths are lengths (`LengthAssumption`: sizes and bounds
are natural numbers). From it `BufferTypes`, and `EmptyTop`: an empty top chunk means
an empty buffer. `buffer.h` and `unpacker.c` test the top chunk alone wherever they
ask whether anything is left.

`BufferProofs` ends with a proof that `Buffer` implements `ByteQueue` (`BuffersAreQueues`), which
`Packer`, `Unpacker` and `Stream` take for granted: step by step, a call appends its bytes
at the end and hands out those at the front, and what one buffer writes changes no
byte of another. The contents of a buffer are the bytes of its chunks in a row
(`FlattenSeq`); chunks dropped at the front are a cut of that row, and a chunk that
grows or is added is a continuation of it. That other buffers keep their bytes needs
`RoomIsExclusive`, and so does this theorem its condition `~ReuseFragment`.

`UnpackerProofs` proves three properties of the decoder for any bytes, fed in any
pieces, any set of methods, any depth of the stack and with the block of `each`
calling back (`Inv`, which TLC has checked on the instances of the runs as well):

* `TypeCorrect`: the stack stays within its memory, and `reading_raw` is open
  exactly while bytes are missing (`TypeInv`). For the second part the invariant
  needs `StringInv`: a string under way keeps its head byte, since that is what
  sends the next call back to `read_raw_body_cont`, and no item completes
  meanwhile.
* `CountsStayOwed`: every frame waits for as many objects as its container
  misses, so no count is decremented at 0 and a map never ends on a key. The
  assumption is that no byte 0xbb (187), a map with an eight-byte count, is fed:
  with it the property is false, which is `huge_map_wraps`. By itself `CountsOwed`
  is almost inductive (`OwedInv`); the work is in the counts' arithmetic, below
  and at `Huge`, and in the repeated end of containers. Of `skip` it says nothing:
  the code counts otherwise there.
* `NothingLeftBehind`: after an item no head byte, frame or string is left that
  the next item could be mistaken for. The property looks at the moments between
  items, so `ResidueInv` says besides what holds on the way: an item that has left
  a trace has taken bytes, and a step that completes one has given up its head
  byte. The assumption `BreaksEnd` is that no break byte is fed or `skip` is not
  called: `skip` leaves a break byte's head behind (`skip_indefinite`).

`PackerProofs` proves `HeadersAlwaysFit` for any object graph, any nesting of
`write` and `to_cbor`, and any changes callbacks make to containers: in every hash
frame, the entries written and the entries still there behind its place in the
hash are together what its header has promised. A frame's hash may be under
iteration several times, so the invariant is about all frames at once, and each
change of a hash has to be right for all of them: `HashChangesKeeps` shows that an
entry deleted, set or added by a callback disturbs none, or is a deletion that
sets `damaged`. The library's theorems about finite sets count the entries. The
only assumption is what a heap is (`HeapsAssumption`).

`BytesAndCounts` (types of `Packer`) is about what the packer is given: Ruby objects of
the kinds it knows, strings as bytes and any contents of arrays and hashes
(`ValueAssumption`), with lengths and counts below 2^24 (`LengthAssumption`; the
code has no such bound, the model takes numbers apart in three bytes). Every byte
string written is then one of bytes, and no array, tag or header has more elements
than it announced. The invariant (`Typed`) says besides that the frames below the top
have room for what is above them (`Waits`), and that containers hold values, also
after a callback has changed them (`StoreOK`).

How numbers go out and come back is proved from both ends. `HeadsReadBack`: for
every major type and any number of up to eight bytes, what `read_head` makes of
the bytes of `cbor_encoder_write_head` is the same type and number, whatever
follows. `CountsReadBack` says the same of lengths and counts as the
unpacker counts. `FloatsReadBack`: every double, the zeros, subnormals, infinities
and NaNs included, comes back as the same double from the two, four or eight bytes that
`msgpack_packer_write_double` chooses, and it chooses no more than are needed.

`ArgumentsAreShort` lifts this to everything a packer writes (`ShortestForm`). Its
invariant (`FormInv`) is that what was sent and is in the buffer is a row of heads, each
in its shortest form and, if it is a string's, followed by the string (`Good`). Every
step appends whole heads and strings, except an exception, which may leave
half a string: then the history `damaged` is set, unless there are as many bytes as
when the call began. In that case the bytes are the very same, because bytes are only
appended; `encode` throws its buffer away, and so needs that what was
sent before was `Good` (`SentBefore`). The condition of the theorem is that a
`CBOR::Simple` is below 2^16: a larger one gets a head of four bytes, which are those of a
float.

`PackerReads` proves `ReadsBack` (`ValuesReadBack`), for any heap, any nesting of calls
and containers, any `to_cbor` that writes, changes containers or raises, and flushes and
exceptions of the io anywhere. `CborItems` makes this possible: a reading has a position,
the containers it is in with the objects seen of each, and the items before, and
makes a turn for every head and every container that is full. So its state after all bytes
so far can be put beside the packer's frames, and the inductive invariant (`ReadInv`)
does so at every step and not only at rest:

* `Stood`: the reading of all bytes so far stands behind the last one, in exactly the
  containers of `todo` (arrays, hashes, tags and headers, with as many objects to come as their
  frames have; `item`, `foreign` and `encode` frames do not show), and its items are
  `written`. When a frame has completed, and its end is still to be noticed by the packer, the
  reading counts it as an object already (`Stands`). Objects seen are those the packer has
  collected, which is what `written` gets in the end.
* `Before`: the same of what there was when the outermost call began. An exception that
  comes before the call has written anything falls back to this, and so does `encode`,
  which drops its own buffer.
* `FirstOK`: the only frame an exception leaves is the caller's own header, which comes
  first.

A leaf is one object to a reading wherever it comes (`LeafRead`), by `HeadsReadBack`,
`FloatsReadBack` and what strings and bignums are; a head opens the container it was
written for (`OpeningRead`); an object that fills a container completes those around
it as far as they are full (`CompletesReads`). That a finite reading gets there at all is
counted: every byte begins one container at most, and ends one (`ReadsAll`). The
hypothesis is that a `CBOR::Simple` is a byte and not false, true or nil: these
come back as `false`, `true` and `nil`, and larger ones as floats.

`UnpackerProofs` proves the same of the other direction (`ItemsDelivered`: `DeliversItems`),
for any pieces, any mix of methods, also from the block of `each`, and any depth of the
stack: the object that a read returns is the one that the bytes it has taken read as, from
the first to the last and no further, and a read runs out of bytes only when
those taken and those in the buffer together hold no object. It is this that a test of a
few splits cannot show: wherever the bytes were cut, and however often a call has given
up within a head, a string or a container, nothing is lost, read twice or read ahead.

The inductive invariant (`ReadsInv`) puts the unpacker's fields beside the place that the
reading of `taken` has come to:

* `Image`: a frame for every container the reading is in, with the same kind, the objects
  so far as its array, pairs or string, the key that has no value yet, and the objects
  still missing as its count (`Mirrors`). For a map the frame's type says whether their
  number is even, so `map_key` and `map_value` are one container (`TypeOf`).
* `Midway` when a turn begins: an object may come next, whose head byte may be in
  `head_byte` (`Before`), or a string has some of its bytes in `reading_raw` (`InBody`).
* `Done` when an object is complete: the reading has put it where `last_object` is about
  to go. That is one step ahead of the frames, which is why the two phases are told apart.
* `Broke`: a break byte has come, which the reading takes only if the frame on top allows.

A full frame is popped in a step of the unpacker and closed in a turn of the reading, one
container at a time (`ElementFull`). Counts from `Huge` on are not told apart
in frames, so it is also needed that fewer bytes are pending than that (`PendingInv`) and that
no container has more objects than there were bytes (`Bound`).

The hypotheses are what the findings demand: no keys become symbols, no break byte is fed
to an unpacker that skips (`BreaksEnd`), no 0xdf to one that looks for nil or a header
(`NoMark`: the mark for no head byte is itself a byte, hazard `unpacker.c:66`), and no item
begins with a map head of eight bytes (`NoLongMap`; 0xbb within a string does no harm).
`ShortMapsDelivered` has the last one as a condition on what is fed; the runs `unpacker` and
`unpacker_nested` fulfil all of them. After an exception, a header read within an
item, or a skip that ran out within one, the property promises nothing until `reset`
(`lost`, `within`).

`StreamProofs` puts the two together (`ArrivesInOrder`: `InOrder`): the objects yielded at
one end of a stream are the values given to the packer at the other, in order and no
others, for any values and depth, any flushes, callbacks and exceptions of the packer, and any
cut of the stream. The invariants of the two ends are kept as they are (`WriterInv`,
`ReaderInv`), and one relates them (`Between`): the bytes of the objects that came, those
taken for the next and those not read yet are, in a row, the bytes that were carried;
and the first of them are a string of whole items, the objects that came (`HoldsItems`).
An object that is yielded adds its bytes and itself to these (`ItemBehind`: readings
go on behind one another). All bytes sent, and so the first of them, read as the values
written and nothing else (`SentTypes`), whether or not the last value is whole.

Two things had to be added to the ends for this. The invariant of the packer also
says that no reading of its bytes comes to the head of a map with an eight-byte
count: a hash holds fewer entries (`LengthAssumption`). The unpacker needs just that
(`NoLongMap`), at a time when its reading has only come to that head; the reading of all
bytes comes there as well (`LongMapComes`). And a packer that has left half a value and goes on only flushes,
so that its bytes remain the first of some values. Readings are operators of both
instances, `Writer` and `Reader`; the first lemmas say that they are the same.
The hypotheses are those of the two ends that are left: keys are not made symbols, and a
`CBOR::Simple` is a byte and not false, true or nil. The unpacker may raise in between, when
the stack is not deep enough: then what came before is still in order, and nothing
comes after it.

Each operator of a model has a lemma that says what it returns,
and the lemmas for the actions cite those; `ListFacts` has what they share about
sequences. Recursive functions (`FlattenSeq`, `Heads`) are reasoned about by the least
number for which a claim fails (`MinOfNaturals`): the library's induction rules take
an operator as a parameter, which these provers cannot instantiate.

Only model-checked: that the recursive decoder agrees with both ends (`Encodes` and
`ReadsItems`, whose proved counterparts are `ReadsBack` and `DeliversItems`; the
reference decoder is recursive over nested items, and a module that declares a RECURSIVE
operator is out of the provers' reach), and `Unharmed`, which holds only of values that fit
the unpacker's stack: `packer.c` has no bound on their depth, so that it is no theorem.
Liveness (`CallsReturn`, `Arrives`) stays with TLC as well.

## 6. Not modelled

Class registration and the platform layer (no state). The branches of the packer
for Rubinius and for Rubies without `rb_integer_pack`. Calls of a buffer from its
own io, from another thread in the middle of its call, or of a packer's or
unpacker's own `buffer` in the middle of its work; a `to_cbor` that writes less or
more than one item, or clears the packer; packers of subclasses. The depth of
recursion of the packer is bounded in the runs (`MaxDepth`) and only by the C
stack in the code. Garbage collection destroys buffers (`Collected`); that what
is reachable from `last_object`, `reading_raw`, a frame or a chunk is marked is
taken from `msgpack_unpacker_mark` and `msgpack_buffer_mark`.

`feed` on an unpacker that was opened on an io appends through the writing path,
which writes unread bytes to the io when the tail is full; `Buffer` does so too,
and no document says what it should do.
