-------------------------------- MODULE Rmem --------------------------------
(***************************************************************************)
(* The page allocator of the buffers (ext/cbor/rmem.h and rmem.c).  It     *)
(* takes chunks of PagesPerChunk pages from malloc.  `head` is the chunk   *)
(* that serves allocations; the others are in `array`, kept in the order   *)
(* array_first .. array_last - 1.  A chunk's mask is the set of its pages  *)
(* that are available.                                                     *)
(***************************************************************************)
EXTENDS Integers

CONSTANTS
  Block,          \* addresses malloc can return for a chunk's pages
  PagesPerChunk,  \* 32 in the code
  FirstCapacity   \* 8 in the code: slots of the first realloc of the array

ASSUME PagesPerChunkAssumption == PagesPerChunk \in Nat \ {0}
ASSUME FirstCapacityAssumption == FirstCapacity \in Nat \ {0}

VARIABLES
  head,           \* pm->head
  array,          \* the chunks of pm->array_first .. pm->array_last - 1
  last,           \* pm->array_last - pm->array_first
  capacity,       \* pm->array_end - pm->array_first
  holders         \* holders[p]: how many callers hold page p; the allocator
                  \* never reads it

vars == <<head, array, last, capacity, holders>>

AllPages == 0 .. PagesPerChunk - 1      \* the mask 0xffffffff

Page == Block \X AllPages

Chunk == [pages : Block, mask : SUBSET AllPages]

Slots == 1 .. last

\* _msgpack_bsp32: the lowest bit of the mask that is set.
IsLowest(pos, mask) == pos \in mask /\ \A q \in mask : pos <= q

\* _msgpack_rmem_chunk_available
Available(c) == c.mask # {}

\* Seeded fault: any page given back marks the whole chunk available.
FreesChunk(c, pos) == [c EXCEPT !.mask = AllPages]

\* _msgpack_rmem_chunk_alloc and _msgpack_rmem_chunk_try_free
ChunkAlloc(c, pos) == [c EXCEPT !.mask = @ \ {pos}]
ChunkFree(c, pos) == [c EXCEPT !.mask = @ \cup {pos}]

Live == {head.pages} \cup {array[i].pages : i \in Slots}

Init == /\ \E b \in Block : head = [pages |-> b, mask |-> AllPages]
        /\ array = [i \in {} |-> head]
        /\ last = 0
        /\ capacity = 0
        /\ holders = [p \in Page |-> 0]

HandedOut(p) == holders' = [holders EXCEPT ![p] = @ + 1]
TakenBack(p) == holders' = [holders EXCEPT ![p] = @ - 1]
-----------------------------------------------------------------------------
\* msgpack_rmem_alloc when head has a page left
AllocHead ==
  /\ Available(head)
  /\ \E pos \in AllPages :
       /\ IsLowest(pos, head.mask)
       /\ head' = ChunkAlloc(head, pos)
       /\ HandedOut(<<head.pages, pos>>)
  /\ UNCHANGED <<array, last, capacity>>

\* the scan of _msgpack_rmem_alloc2: the first chunk of the array that has a
\* page left
Found(i) == Available(array[i]) /\ \A j \in 1 .. i - 1 : ~Available(array[j])

\* Seeded fault: head is not put into the slot.
NotSwapped(i) == array

Swapped(i) == [array EXCEPT ![i] = head]

\* _msgpack_rmem_alloc2, page found: that chunk changes places with head
AllocFromArray ==
  /\ ~Available(head)
  /\ \E i \in Slots : \E pos \in AllPages :
       /\ Found(i)
       /\ IsLowest(pos, array[i].mask)
       /\ head' = ChunkAlloc(array[i], pos)
       /\ array' = Swapped(i)
       /\ HandedOut(<<array[i].pages, pos>>)
  /\ UNCHANGED <<last, capacity>>

\* Seeded fault: only head is looked at before malloc.
HeadExhausted == ~Available(head)

\* the condition on which _msgpack_rmem_alloc2 leaves its scan empty-handed
Exhausted == ~Available(head) /\ \A i \in Slots : ~Available(array[i])

\* Seeded fault: the first realloc is forgotten.
NotGrown(c) == 2 * c

Grown(c) == IF c = 0 THEN FirstCapacity ELSE 2 * c

\* "& (~1)": the first page of a new chunk is the one returned
FirstTaken == AllPages \ {0}

\* _msgpack_rmem_alloc2, no page left: a new chunk becomes head
AllocNewChunk ==
  /\ Exhausted
  /\ capacity' = IF last = capacity THEN Grown(capacity) ELSE capacity
  /\ last' = last + 1
  /\ array' = [i \in 1 .. last + 1 |-> IF i = last + 1 THEN head ELSE array[i]]
  /\ \E b \in Block \ Live :
       /\ head' = [pages |-> b, mask |-> FirstTaken]
       /\ HandedOut(<<b, 0>>)
-----------------------------------------------------------------------------
\* msgpack_rmem_free of a page of head
FreeToHead ==
  /\ \E pos \in AllPages :
       /\ holders[<<head.pages, pos>>] > 0
       /\ head' = ChunkFree(head, pos)
       /\ TakenBack(<<head.pages, pos>>)
  /\ UNCHANGED <<array, last, capacity>>

\* Seeded fault: chunks are never sent to _msgpack_rmem_chunk_free.
NeverChunkFree(i, c) == FALSE

\* The test that sends a chunk to _msgpack_rmem_chunk_free: c is array[i]
\* with the page already given back.
GoesToChunkFree(i, c) == i # 1 /\ c.mask = AllPages

\* Seeded fault: the slot of the dropped chunk is not filled with the last.
DroppedLast(i) == [j \in 1 .. last - 1 |-> array[j]]

\* _msgpack_rmem_chunk_free when the first chunk is wholly available too: c
\* goes back to malloc and the last chunk takes its slot
Dropped(i) == [j \in 1 .. last - 1 |-> IF j = i THEN array[last] ELSE array[j]]

\* _msgpack_rmem_chunk_free otherwise: c changes places with the first chunk
MovedFirst(i, c) == [array EXCEPT ![1] = c, ![i] = array[1]]

SpareExists == array[1].mask = AllPages

\* msgpack_rmem_free of a page of a chunk of the array
FreeToArray(i) ==
  /\ \E pos \in AllPages :
       LET c == ChunkFree(array[i], pos) IN
         /\ holders[<<array[i].pages, pos>>] > 0
         /\ TakenBack(<<array[i].pages, pos>>)
         /\ \/ /\ ~GoesToChunkFree(i, c)
               /\ array' = [array EXCEPT ![i] = c]
               /\ last' = last
            \/ /\ GoesToChunkFree(i, c) /\ SpareExists
               /\ array' = Dropped(i)
               /\ last' = last - 1
            \/ /\ GoesToChunkFree(i, c) /\ ~SpareExists
               /\ array' = MovedFirst(i, c)
               /\ last' = last
  /\ UNCHANGED <<head, capacity>>

Next == \/ AllocHead
        \/ AllocFromArray
        \/ AllocNewChunk
        \/ FreeToHead
        \/ \E i \in Slots : FreeToArray(i)

Spec == Init /\ [][Next]_vars
-----------------------------------------------------------------------------
\* Type invariant; the array never holds more chunks than realloc gave slots
\* for (rmem.c:64-75 grows it only when it is exactly full).
TypeOK == /\ head \in Chunk
          /\ last \in Nat
          /\ array \in [Slots -> Chunk]
          /\ capacity \in Nat
          /\ last <= capacity
          /\ holders \in [Page -> Nat]

\* No two chunk descriptors stand for the same memory, whatever sequence of
\* swaps, moves and removals the frees and allocations made.
BlocksDistinct ==
  /\ \A i \in Slots : array[i].pages # head.pages
  /\ \A i, j \in Slots : array[i].pages = array[j].pages => i = j

\* The masks and the callers agree on every page: a page has one holder when
\* its chunk is in the pool with the page's bit cleared, and none otherwise.
\* So no chunk goes back to malloc under a page somebody holds, no page has
\* two holders, and none is lost.
Taken(c, b, pos) == c.pages = b /\ pos \notin c.mask

TakenSomewhere(b, pos) == Taken(head, b, pos) \/ \E i \in Slots : Taken(array[i], b, pos)

HeldExact == \A b \in Block, pos \in AllPages :
               holders[<<b, pos>>] = IF TakenSomewhere(b, pos) THEN 1 ELSE 0

\* Memory is given back: past the first slot of the array no chunk is wholly
\* available, so the pool never keeps more than two such chunks.
SpareOnlyFirst == \A i \in Slots : array[i].mask = AllPages => i = 1

\* malloc is asked for a chunk only when no page of the pool is available:
\* a page given back is used again, wherever the swaps left its chunk.
GrowsOnlyWhenExhausted ==
  [][ (\E b \in Live' : b \notin Live)
       => \A p \in Live \X AllPages : holders[p] > 0 ]_vars

\* The inductive invariant.
RmemInv == TypeOK /\ BlocksDistinct /\ HeldExact /\ SpareOnlyFirst

\* Rmem implements PagePool: every call hands out a page nobody holds or takes
\* back one that is held.
Pool == INSTANCE PagePool
PagePoolSpec == Pool!Spec
=============================================================================
