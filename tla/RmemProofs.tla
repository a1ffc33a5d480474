----------------------------- MODULE RmemProofs -----------------------------
(***************************************************************************)
(* Proofs about the page allocator for every number of pages in a chunk,   *)
(* every first capacity and every set of addresses malloc may return.      *)
(***************************************************************************)
EXTENDS Rmem, TLAPS

USE PagesPerChunkAssumption, FirstCapacityAssumption

\* A page handed out: the books stay exact when the masks say the same.
LEMMA HandedOutExact ==
  ASSUME TypeOK, HeldExact, NEW b \in Block, NEW pos \in AllPages,
         HandedOut(<<b, pos>>), ~TakenSomewhere(b, pos),
         \A d \in Block, q \in AllPages :
           TakenSomewhere(d, q)' <=> TakenSomewhere(d, q) \/ (d = b /\ q = pos)
  PROVE  HeldExact' /\ holders' \in [Page -> Nat]
<1>1. holders \in [Page -> Nat] /\ <<b, pos>> \in Page
  BY DEF TypeOK, Page
<1>2. holders' = [holders EXCEPT ![<<b, pos>>] = @ + 1]
  BY DEF HandedOut
<1>3. holders' \in [Page -> Nat]
  BY <1>1, <1>2
<1>4. SUFFICES ASSUME NEW d \in Block, NEW q \in AllPages
               PROVE holders'[<<d, q>>] = IF TakenSomewhere(d, q)' THEN 1 ELSE 0
  BY <1>3 DEF HeldExact, AllPages
<1>5. <<d, q>> \in Page
  BY DEF Page
<1>6. holders'[<<d, q>>] = IF d = b /\ q = pos THEN holders[<<d, q>>] + 1
                                               ELSE holders[<<d, q>>]
  BY <1>1, <1>2, <1>5
<1> QED BY <1>6 DEF HeldExact

\* A page taken back, likewise.
LEMMA TakenBackExact ==
  ASSUME TypeOK, HeldExact, NEW b \in Block, NEW pos \in AllPages,
         TakenBack(<<b, pos>>), TakenSomewhere(b, pos),
         \A d \in Block, q \in AllPages :
           TakenSomewhere(d, q)' <=> TakenSomewhere(d, q) /\ ~(d = b /\ q = pos)
  PROVE  HeldExact' /\ holders' \in [Page -> Nat]
<1>1. holders \in [Page -> Nat] /\ <<b, pos>> \in Page
  BY DEF TypeOK, Page
<1>2. holders' = [holders EXCEPT ![<<b, pos>>] = @ - 1] /\ holders[<<b, pos>>] = 1
  BY DEF TakenBack, HeldExact
<1>3. holders' \in [Page -> Nat]
  BY <1>1, <1>2
<1>4. SUFFICES ASSUME NEW d \in Block, NEW q \in AllPages
               PROVE holders'[<<d, q>>] = IF TakenSomewhere(d, q)' THEN 1 ELSE 0
  BY <1>3 DEF HeldExact, AllPages
<1>5. <<d, q>> \in Page
  BY DEF Page
<1>6. holders'[<<d, q>>] = IF d = b /\ q = pos THEN holders[<<d, q>>] - 1
                                               ELSE holders[<<d, q>>]
  BY <1>1, <1>2, <1>5
<1> QED BY <1>2, <1>6 DEF HeldExact

\* A new pool satisfies the inductive invariant.
LEMMA InitInv == Init => RmemInv
<1> SUFFICES ASSUME Init PROVE RmemInv
  OBVIOUS
<1>1. PICK b \in Block : head = [pages |-> b, mask |-> AllPages]
  BY DEF Init
<1>2. TypeOK
  BY <1>1 DEF Init, TypeOK, Chunk, AllPages, Slots, Page
<1>3. BlocksDistinct /\ SpareOnlyFirst
  BY DEF Init, BlocksDistinct, SpareOnlyFirst, Slots
<1>4. HeldExact
  BY <1>1 DEF Init, HeldExact, TakenSomewhere, Taken, Slots, Page
<1> QED BY <1>2, <1>3, <1>4 DEF RmemInv

\* msgpack_rmem_alloc from head preserves the invariant.
LEMMA AllocHeadInv == RmemInv /\ AllocHead => RmemInv'
<1> SUFFICES ASSUME RmemInv, AllocHead PROVE RmemInv'
  OBVIOUS
<1>1. PICK pos \in AllPages :
        /\ pos \in head.mask
        /\ head' = [head EXCEPT !.mask = @ \ {pos}]
        /\ HandedOut(<<head.pages, pos>>)
        /\ UNCHANGED <<array, last, capacity>>
  BY DEF AllocHead, IsLowest, ChunkAlloc
<1>2. head \in Chunk /\ head' \in Chunk /\ head'.pages = head.pages
      /\ head'.mask = head.mask \ {pos} /\ head.pages \in Block
  BY <1>1 DEF RmemInv, TypeOK, Chunk
<1>3. BlocksDistinct'
  BY <1>1, <1>2 DEF RmemInv, BlocksDistinct, Slots
<1>4. ~TakenSomewhere(head.pages, pos)
  BY <1>1 DEF RmemInv, BlocksDistinct, TakenSomewhere, Taken
<1>5. \A d \in Block, q \in AllPages :
        TakenSomewhere(d, q)' <=> TakenSomewhere(d, q) \/ (d = head.pages /\ q = pos)
  BY <1>1, <1>2 DEF TakenSomewhere, Taken, Slots
<1>6. HeldExact' /\ holders' \in [Page -> Nat]
  BY <1>1, <1>2, <1>4, <1>5, HandedOutExact DEF RmemInv
<1>7. TypeOK'
  BY <1>1, <1>2, <1>6 DEF RmemInv, TypeOK, Slots, Page, Chunk, AllPages
<1>8. SpareOnlyFirst'
  BY <1>1 DEF RmemInv, SpareOnlyFirst, Slots
<1> QED BY <1>3, <1>6, <1>7, <1>8 DEF RmemInv

\* _msgpack_rmem_alloc2 finding a page in the array preserves the invariant:
\* the old head has no page left, so it may stand in any slot.
LEMMA AllocFromArrayInv == RmemInv /\ AllocFromArray => RmemInv'
<1> SUFFICES ASSUME RmemInv, AllocFromArray PROVE RmemInv'
  OBVIOUS
<1>1. PICK i \in Slots, pos \in AllPages :
        /\ pos \in array[i].mask
        /\ head' = [array[i] EXCEPT !.mask = @ \ {pos}]
        /\ array' = [array EXCEPT ![i] = head]
        /\ HandedOut(<<array[i].pages, pos>>)
        /\ UNCHANGED <<last, capacity>>
        /\ head.mask = {}
  BY DEF AllocFromArray, IsLowest, ChunkAlloc, Available, Swapped
<1>2. head \in Chunk /\ array \in [Slots -> Chunk] /\ array[i] \in Chunk
      /\ array[i].pages \in Block
  BY <1>1 DEF RmemInv, TypeOK, Chunk
<1>3. head' \in Chunk /\ head'.pages = array[i].pages
      /\ head'.mask = array[i].mask \ {pos}
  BY <1>1, <1>2 DEF Chunk
<1>4. Slots' = Slots /\ array' \in [Slots -> Chunk] /\ array'[i] = head
      /\ \A j \in Slots : j # i => array'[j] = array[j]
  BY <1>1, <1>2 DEF Slots
<1>5. BlocksDistinct'
  BY <1>3, <1>4 DEF RmemInv, BlocksDistinct
<1>6. ~TakenSomewhere(array[i].pages, pos)
  BY <1>1 DEF RmemInv, BlocksDistinct, TakenSomewhere, Taken
<1>7. ASSUME NEW d \in Block, NEW q \in AllPages
      PROVE  TakenSomewhere(d, q)'
               <=> TakenSomewhere(d, q) \/ (d = array[i].pages /\ q = pos)
  <2>1. Taken(head', d, q) <=> Taken(array[i], d, q) \/ (d = array[i].pages /\ q = pos)
    BY <1>3 DEF Taken
  <2>2. (\E j \in Slots : Taken(array'[j], d, q))
          <=> Taken(head, d, q) \/ \E j \in Slots \ {i} : Taken(array[j], d, q)
    BY <1>4
  <2>3. TakenSomewhere(d, q)'
          <=> Taken(head', d, q) \/ \E j \in Slots : Taken(array'[j], d, q)
    BY <1>4 DEF TakenSomewhere, Taken
  <2> QED BY <2>1, <2>2, <2>3 DEF TakenSomewhere
<1>8. HeldExact' /\ holders' \in [Page -> Nat]
  BY <1>1, <1>2, <1>6, <1>7, HandedOutExact DEF RmemInv
<1>9. TypeOK'
  BY <1>1, <1>2, <1>3, <1>4, <1>8 DEF RmemInv, TypeOK, Page, Chunk, AllPages
<1>10. SpareOnlyFirst'
  BY <1>1, <1>4 DEF RmemInv, SpareOnlyFirst, AllPages
<1> QED BY <1>5, <1>8, <1>9, <1>10 DEF RmemInv

\* A chunk taken from malloc preserves the invariant: malloc returns no
\* address of a live chunk, and the old head has no page left.
LEMMA AllocNewChunkInv == RmemInv /\ AllocNewChunk => RmemInv'
<1> SUFFICES ASSUME RmemInv, AllocNewChunk PROVE RmemInv'
  OBVIOUS
<1>1. PICK b \in Block \ Live :
        head' = [pages |-> b, mask |-> AllPages \ {0}] /\ HandedOut(<<b, 0>>)
  BY DEF AllocNewChunk, FirstTaken
<1>2. last \in Nat /\ capacity \in Nat /\ last <= capacity /\ head \in Chunk
      /\ array \in [Slots -> Chunk] /\ head.mask = {}
  BY DEF RmemInv, TypeOK, AllocNewChunk, Exhausted, Available
<1>3. last' = last + 1 /\ capacity' \in Nat /\ last' <= capacity'
  BY <1>2 DEF AllocNewChunk, Grown
<1>4. Slots' = Slots \cup {last + 1} /\ last + 1 \notin Slots
  BY <1>2, <1>3 DEF Slots
<1>5. array' \in [Slots' -> Chunk] /\ array'[last + 1] = head
      /\ \A j \in Slots : array'[j] = array[j]
  BY <1>2, <1>4 DEF AllocNewChunk, Slots
<1>6. 0 \in AllPages
  BY DEF AllPages
<1>7. BlocksDistinct'
  BY <1>1, <1>4, <1>5 DEF RmemInv, BlocksDistinct, Live
<1>8. ~TakenSomewhere(b, 0)
  BY <1>1 DEF TakenSomewhere, Taken, Live
<1>9. ASSUME NEW d \in Block, NEW q \in AllPages
      PROVE  TakenSomewhere(d, q)' <=> TakenSomewhere(d, q) \/ (d = b /\ q = 0)
  <2>1. Taken(head', d, q) <=> d = b /\ q = 0
    BY <1>1, <1>6 DEF Taken
  <2>2. (\E i \in Slots' : Taken(array'[i], d, q))
          <=> Taken(head, d, q) \/ \E i \in Slots : Taken(array[i], d, q)
    BY <1>4, <1>5
  <2>3. TakenSomewhere(d, q)'
          <=> Taken(head', d, q) \/ \E i \in Slots' : Taken(array'[i], d, q)
    BY DEF TakenSomewhere, Taken
  <2> QED BY <2>1, <2>2, <2>3 DEF TakenSomewhere
<1>10. HeldExact' /\ holders' \in [Page -> Nat]
  BY <1>1, <1>6, <1>8, <1>9, HandedOutExact DEF RmemInv
<1>11. TypeOK'
  BY <1>1, <1>2, <1>3, <1>5, <1>10 DEF RmemInv, TypeOK, Page, Chunk, AllPages
<1>12. SpareOnlyFirst'
  BY <1>2, <1>4, <1>5, <1>6 DEF RmemInv, SpareOnlyFirst, AllPages
<1> QED BY <1>7, <1>10, <1>11, <1>12 DEF RmemInv

\* A page given back to head preserves the invariant.
LEMMA FreeToHeadInv == RmemInv /\ FreeToHead => RmemInv'
<1> SUFFICES ASSUME RmemInv, FreeToHead PROVE RmemInv'
  OBVIOUS
<1>1. PICK pos \in AllPages :
        /\ holders[<<head.pages, pos>>] > 0
        /\ head' = [head EXCEPT !.mask = @ \cup {pos}]
        /\ TakenBack(<<head.pages, pos>>)
        /\ UNCHANGED <<array, last, capacity>>
  BY DEF FreeToHead, ChunkFree
<1>2. head \in Chunk /\ head' \in Chunk /\ head'.pages = head.pages
      /\ head'.mask = head.mask \cup {pos} /\ head.pages \in Block
  BY <1>1 DEF RmemInv, TypeOK, Chunk
<1>3. BlocksDistinct'
  BY <1>1, <1>2 DEF RmemInv, BlocksDistinct, Slots
<1>4. TakenSomewhere(head.pages, pos)
  BY <1>1, <1>2 DEF RmemInv, HeldExact
<1>5. \A d \in Block, q \in AllPages :
        TakenSomewhere(d, q)' <=> TakenSomewhere(d, q) /\ ~(d = head.pages /\ q = pos)
  BY <1>1, <1>2 DEF RmemInv, BlocksDistinct, TakenSomewhere, Taken, Slots
<1>6. HeldExact' /\ holders' \in [Page -> Nat]
  BY <1>1, <1>2, <1>4, <1>5, TakenBackExact DEF RmemInv
<1>7. TypeOK'
  BY <1>1, <1>2, <1>6 DEF RmemInv, TypeOK, Slots, Page, AllPages
<1>8. SpareOnlyFirst'
  BY <1>1 DEF RmemInv, SpareOnlyFirst, Slots
<1> QED BY <1>3, <1>6, <1>7, <1>8 DEF RmemInv

\* A page given back to a chunk of the array preserves the invariant.  When
\* the chunk is dropped its pages are all available, so no held page goes
\* with it; when it is kept wholly available it stands first.
LEMMA FreeToArrayInv ==
  ASSUME RmemInv, NEW i \in Slots, FreeToArray(i)
  PROVE  RmemInv'
<1>1. PICK pos \in AllPages :
        LET c == [array[i] EXCEPT !.mask = @ \cup {pos}] IN
          /\ holders[<<array[i].pages, pos>>] > 0
          /\ TakenBack(<<array[i].pages, pos>>)
          /\ \/ /\ ~GoesToChunkFree(i, c)
                /\ array' = [array EXCEPT ![i] = c]
                /\ last' = last
             \/ /\ GoesToChunkFree(i, c) /\ SpareExists
                /\ array' = Dropped(i)
                /\ last' = last - 1
             \/ /\ GoesToChunkFree(i, c) /\ ~SpareExists
                /\ array' = MovedFirst(i, c)
                /\ last' = last
  BY DEF FreeToArray, ChunkFree
<1> DEFINE c == [array[i] EXCEPT !.mask = @ \cup {pos}]
<1>2. UNCHANGED <<head, capacity>>
  BY DEF FreeToArray
<1>3. last \in Nat /\ capacity \in Nat /\ last <= capacity /\ head \in Chunk
      /\ array \in [Slots -> Chunk]
  BY DEF RmemInv, TypeOK
<1>4. array[i] \in Chunk /\ c \in Chunk /\ c.pages = array[i].pages
      /\ c.mask = array[i].mask \cup {pos} /\ array[i].pages \in Block
  BY <1>3 DEF Chunk
<1>5. TypeOK /\ BlocksDistinct /\ HeldExact /\ SpareOnlyFirst
  BY DEF RmemInv
<1>6. TakenSomewhere(array[i].pages, pos)
  BY <1>1, <1>4, <1>5 DEF HeldExact
<1>7. ASSUME NEW d \in Block, NEW q \in AllPages
      PROVE  TakenSomewhere(d, q) /\ ~(d = array[i].pages /\ q = pos)
               <=> \/ Taken(head, d, q)
                   \/ Taken(c, d, q)
                   \/ \E j \in Slots \ {i} : Taken(array[j], d, q)
  <2>1. TakenSomewhere(d, q) <=> \/ Taken(head, d, q)
                                 \/ Taken(array[i], d, q)
                                 \/ \E j \in Slots \ {i} : Taken(array[j], d, q)
    BY DEF TakenSomewhere
  <2>2. Taken(c, d, q) <=> Taken(array[i], d, q) /\ ~(d = array[i].pages /\ q = pos)
    BY <1>4 DEF Taken
  <2>3. d = array[i].pages => /\ ~Taken(head, d, q)
                              /\ \A j \in Slots \ {i} : ~Taken(array[j], d, q)
    BY <1>5 DEF BlocksDistinct, Taken
  <2> QED BY <2>1, <2>2, <2>3
\* what is left to show of each case
<1>8. ASSUME array' \in [Slots' -> Chunk], last' \in Nat, last' <= capacity,
             BlocksDistinct', SpareOnlyFirst',
             \A d \in Block, q \in AllPages :
               (\E j \in Slots' : Taken(array'[j], d, q))
                 <=> Taken(c, d, q) \/ \E j \in Slots \ {i} : Taken(array[j], d, q)
      PROVE  RmemInv'
  <2>1. \A d \in Block, q \in AllPages :
          TakenSomewhere(d, q)'
            <=> TakenSomewhere(d, q) /\ ~(d = array[i].pages /\ q = pos)
    BY <1>2, <1>7, <1>8 DEF TakenSomewhere, Taken
  <2>2. HeldExact' /\ holders' \in [Page -> Nat]
    BY <1>1, <1>4, <1>5, <1>6, <2>1, TakenBackExact
  <2>3. TypeOK'
    BY <1>2, <1>3, <1>8, <2>2 DEF TypeOK, Page, Chunk, AllPages
  <2> QED BY <1>8, <2>2, <2>3 DEF RmemInv
<1> HIDE DEF c
<1>a. CASE /\ ~GoesToChunkFree(i, c)
           /\ array' = [array EXCEPT ![i] = c]
           /\ last' = last
  <2>1. Slots' = Slots /\ array' \in [Slots -> Chunk] /\ array'[i] = c
        /\ \A j \in Slots : j # i => array'[j] = array[j]
    BY <1>a, <1>3, <1>4 DEF Slots
  <2>2. BlocksDistinct'
    BY <2>1, <1>2, <1>4, <1>5 DEF BlocksDistinct
  <2>3. SpareOnlyFirst'
    BY <1>a, <2>1, <1>5 DEF SpareOnlyFirst, GoesToChunkFree, AllPages
  <2>4. \A d \in Block, q \in AllPages :
          (\E j \in Slots' : Taken(array'[j], d, q))
            <=> Taken(c, d, q) \/ \E j \in Slots \ {i} : Taken(array[j], d, q)
    BY <2>1
  <2> QED BY <1>3, <1>a, <1>8, <2>1, <2>2, <2>3, <2>4
<1>b. CASE /\ GoesToChunkFree(i, c) /\ SpareExists
           /\ array' = Dropped(i)
           /\ last' = last - 1
  <2>1. i # 1 /\ c.mask = AllPages /\ last >= 2 /\ last' \in Nat /\ last' <= capacity
    BY <1>b, <1>3 DEF GoesToChunkFree, Slots
  <2>2. Slots' = 1 .. last - 1 /\ Slots' \subseteq Slots /\ last \in Slots
        /\ last \notin Slots' /\ Slots = Slots' \cup {last}
    BY <1>b, <2>1, <1>3 DEF Slots
  <2>3. array' \in [Slots' -> Chunk]
        /\ \A j \in Slots' : array'[j] = IF j = i THEN array[last] ELSE array[j]
    BY <1>b, <2>2, <1>3 DEF Dropped
  <2>4. BlocksDistinct'
    BY <2>2, <2>3, <1>2, <1>5 DEF BlocksDistinct
  <2>5. SpareOnlyFirst'
    BY <2>1, <2>2, <2>3, <1>5, <1>3 DEF SpareOnlyFirst, AllPages, Slots
  <2>6. \A d \in Block, q \in AllPages :
          (\E j \in Slots' : Taken(array'[j], d, q))
            <=> Taken(c, d, q) \/ \E j \in Slots \ {i} : Taken(array[j], d, q)
    <3>1. \A d \in Block, q \in AllPages : ~Taken(c, d, q)
      BY <2>1 DEF Taken
    <3> QED BY <2>2, <2>3, <3>1
  <2> QED BY <1>8, <2>1, <2>3, <2>4, <2>5, <2>6
<1>c. CASE /\ GoesToChunkFree(i, c) /\ ~SpareExists
           /\ array' = MovedFirst(i, c)
           /\ last' = last
  <2>1. i # 1 /\ c.mask = AllPages /\ 1 \in Slots /\ array[1].mask # AllPages
    BY <1>c, <1>3 DEF GoesToChunkFree, Slots, SpareExists
  <2>2. Slots' = Slots /\ array' \in [Slots -> Chunk] /\ array'[1] = c
        /\ array'[i] = array[1]
        /\ \A j \in Slots : j # i /\ j # 1 => array'[j] = array[j]
    BY <1>c, <2>1, <1>3, <1>4 DEF Slots, MovedFirst
  <2>3. BlocksDistinct'
    BY <2>1, <2>2, <1>2, <1>4, <1>5 DEF BlocksDistinct
  <2>4. SpareOnlyFirst'
    BY <2>1, <2>2, <1>5 DEF SpareOnlyFirst, AllPages
  <2>5. \A d \in Block, q \in AllPages :
          (\E j \in Slots' : Taken(array'[j], d, q))
            <=> Taken(c, d, q) \/ \E j \in Slots \ {i} : Taken(array[j], d, q)
    BY <2>1, <2>2
  <2> QED BY <1>3, <1>c, <1>8, <2>2, <2>3, <2>4, <2>5
<1> QED BY <1>1, <1>a, <1>b, <1>c DEF c

\* Every call of the allocator preserves the invariant.
LEMMA StepInv == RmemInv /\ [Next]_vars => RmemInv'
<1> SUFFICES ASSUME RmemInv, [Next]_vars PROVE RmemInv'
  OBVIOUS
<1>1. CASE UNCHANGED vars
  BY <1>1 DEF vars, RmemInv, TypeOK, BlocksDistinct, HeldExact, SpareOnlyFirst,
              Slots, Page, Chunk, AllPages, TakenSomewhere, Taken
<1>2. CASE Next
  BY <1>2, AllocHeadInv, AllocFromArrayInv, AllocNewChunkInv, FreeToHeadInv,
     FreeToArrayInv DEF Next
<1> QED BY <1>1, <1>2

\* The inductive invariant holds in every state of the allocator.
THEOREM Invariance == Spec => []RmemInv
<1> QED BY InitInv, StepInv, PTL DEF Spec

\* Type correctness: the array never holds more chunks than it has slots.
THEOREM TypeCorrect == Spec => []TypeOK
<1>1. RmemInv => TypeOK
  BY DEF RmemInv
<1> QED BY <1>1, Invariance, PTL

\* The masks and the callers agree on every page of every chunk: no chunk is
\* given back to malloc while one of its pages is held.
THEOREM PagesAccounted == Spec => []HeldExact
<1>1. RmemInv => HeldExact
  BY DEF RmemInv
<1> QED BY <1>1, Invariance, PTL

\* No two chunks are one block of memory: a page freed is found in the chunk it
\* came from.
THEOREM ChunksDisjoint == Spec => []BlocksDistinct
<1>1. RmemInv => BlocksDistinct
  BY DEF RmemInv
<1> QED BY <1>1, Invariance, PTL

\* The allocator never keeps more than one wholly available chunk besides its
\* head.
THEOREM MemoryGivenBack == Spec => []SpareOnlyFirst
<1>1. RmemInv => SpareOnlyFirst
  BY DEF RmemInv
<1> QED BY <1>1, Invariance, PTL

\* malloc is asked for a chunk only when every page of the pool is held.
THEOREM GrowthJustified == Spec => GrowsOnlyWhenExhausted
<1> DEFINE Growing == (\E b \in Live' : b \notin Live) 
                        => \A p \in Live \X AllPages : holders[p] > 0
<1>1. ASSUME RmemInv, [Next]_vars PROVE [Growing]_vars
  <2>1. CASE UNCHANGED vars
    BY <2>1
  <2>2. CASE AllocHead
    <3>1. Live' = Live
      BY <1>1, <2>2 DEF AllocHead, ChunkAlloc, Live, Slots, RmemInv, TypeOK, Chunk
    <3> QED BY <3>1
  <2>3. CASE AllocFromArray
    <3>1. PICK i \in Slots, pos \in AllPages :
            /\ head' = [array[i] EXCEPT !.mask = @ \ {pos}]
            /\ array' = [array EXCEPT ![i] = head]
            /\ last' = last
      BY <2>3 DEF AllocFromArray, ChunkAlloc, Swapped
    <3>2. array \in [Slots -> Chunk] /\ array[i] \in Chunk
      BY <1>1, <3>1 DEF RmemInv, TypeOK
    <3>3. head'.pages = array[i].pages /\ Slots' = Slots
      BY <3>1, <3>2 DEF Chunk, Slots
    <3>4. Live' \subseteq Live
      BY <3>1, <3>2, <3>3 DEF Live
    <3> QED BY <3>4
  <2>4. CASE AllocNewChunk
    <3>1. HeldExact /\ head \in Chunk /\ array \in [Slots -> Chunk]
      BY <1>1 DEF RmemInv, TypeOK
    <3>2. ASSUME NEW d \in Live, NEW q \in AllPages PROVE holders[<<d, q>>] > 0
      <4>1. TakenSomewhere(d, q)
        BY <2>4 DEF AllocNewChunk, Exhausted, Available, Live, TakenSomewhere, Taken
      <4>2. d \in Block
        BY <3>1 DEF Live, Chunk
      <4> QED BY <3>1, <4>1, <4>2 DEF HeldExact
    <3> QED BY <3>2
  <2>5. CASE FreeToHead
    <3>1. Live' = Live
      BY <1>1, <2>5 DEF FreeToHead, ChunkFree, Live, Slots, RmemInv, TypeOK, Chunk
    <3> QED BY <3>1
  <2>6. ASSUME NEW i \in Slots, FreeToArray(i) PROVE Growing
    <3>1. array \in [Slots -> Chunk] /\ last \in Nat /\ array[i] \in Chunk
      BY <1>1 DEF RmemInv, TypeOK
    <3>2. PICK pos \in AllPages :
            LET c == [array[i] EXCEPT !.mask = @ \cup {pos}] IN
              \/ array' = [array EXCEPT ![i] = c] /\ last' = last
              \/ array' = Dropped(i) /\ last' = last - 1
              \/ i # 1 /\ array' = MovedFirst(i, c) /\ last' = last
      BY <2>6 DEF FreeToArray, ChunkFree, GoesToChunkFree
    <3> DEFINE c == [array[i] EXCEPT !.mask = @ \cup {pos}]
    <3>3. c.pages = array[i].pages
      BY <3>1 DEF Chunk
    <3> HIDE DEF c
    <3>4. head' = head
      BY <2>6 DEF FreeToArray
    <3>5. CASE array' = [array EXCEPT ![i] = c] /\ last' = last
      BY <3>1, <3>3, <3>4, <3>5 DEF Live, Slots
    <3>6. CASE array' = Dropped(i) /\ last' = last - 1
      <4>1. Slots' = 1 .. last - 1 /\ last \in Slots /\ Slots' \subseteq Slots
        BY <3>1, <3>6 DEF Slots
      <4>2. \A j \in Slots' : array'[j] = IF j = i THEN array[last] ELSE array[j]
        BY <4>1, <3>6 DEF Dropped
      <4>3. Live' \subseteq Live
        BY <4>1, <4>2, <3>4 DEF Live
      <4> QED BY <4>3
    <3>7. CASE i # 1 /\ array' = MovedFirst(i, c) /\ last' = last
      <4>1. Slots' = Slots /\ 1 \in Slots
        BY <3>1, <3>7 DEF Slots
      <4>2. \A j \in Slots : array'[j].pages \in {array[k].pages : k \in Slots}
        BY <4>1, <3>1, <3>3, <3>7 DEF MovedFirst
      <4>3. Live' \subseteq Live
        BY <4>1, <4>2, <3>4 DEF Live
      <4> QED BY <4>3
    <3> QED BY <3>2, <3>5, <3>6, <3>7 DEF c
  <2> QED BY <1>1, <2>1, <2>2, <2>3, <2>4, <2>5, <2>6 DEF Next
<1> QED BY <1>1, Invariance, PTL DEF Spec, GrowsOnlyWhenExhausted

\* The allocator implements PagePool: a page it hands out was held by nobody,
\* a page it takes back had one holder.
THEOREM Implementation == Spec => PagePoolSpec
<1>1. Init => Pool!Init
  BY DEF Init, Pool!Init
<1> DEFINE Books == TypeOK /\ HeldExact
<1>2. ASSUME Books, NEW b \in Block, NEW pos \in AllPages,
             HandedOut(<<b, pos>>), ~TakenSomewhere(b, pos)
      PROVE  Pool!Next
  <2>1. <<b, pos>> \in Page /\ holders \in [Page -> Nat] /\ holders[<<b, pos>>] = 0
    BY <1>2 DEF HeldExact, TypeOK, Page
  <2>2. holders' = [holders EXCEPT ![<<b, pos>>] = holders[<<b, pos>>] + 1]
    BY <1>2 DEF HandedOut
  <2>3. Pool!Alloc(<<b, pos>>)
    BY <2>1, <2>2 DEF Pool!Alloc
  <2> QED BY <2>1, <2>3 DEF Pool!Next
<1>3. ASSUME Books, NEW b \in Block, NEW pos \in AllPages,
             TakenBack(<<b, pos>>), holders[<<b, pos>>] > 0
      PROVE  Pool!Next
  <2>1. <<b, pos>> \in Page /\ holders \in [Page -> Nat] /\ holders[<<b, pos>>] = 1
    BY <1>3 DEF HeldExact, TypeOK, Page
  <2>2. holders' = [holders EXCEPT ![<<b, pos>>] = holders[<<b, pos>>] - 1]
    BY <1>3 DEF TakenBack
  <2>3. Pool!Free(<<b, pos>>)
    BY <2>1, <2>2 DEF Pool!Free
  <2> QED BY <2>1, <2>3 DEF Pool!Next
<1>4. ASSUME RmemInv, [Next]_vars PROVE [Pool!Next]_holders
  <2>1. Books /\ BlocksDistinct /\ head \in Chunk /\ array \in [Slots -> Chunk]
    BY <1>4 DEF RmemInv, TypeOK
  <2>2. CASE UNCHANGED vars
    BY <2>2 DEF vars
  <2>3. CASE AllocHead
    <3>1. PICK pos \in AllPages : pos \in head.mask /\ HandedOut(<<head.pages, pos>>)
      BY <2>3 DEF AllocHead, IsLowest
    <3>2. head.pages \in Block /\ ~TakenSomewhere(head.pages, pos)
      BY <2>1, <3>1 DEF BlocksDistinct, TakenSomewhere, Taken, Chunk
    <3> QED BY <1>2, <2>1, <3>1, <3>2
  <2>4. CASE AllocFromArray
    <3>1. PICK i \in Slots, pos \in AllPages :
            pos \in array[i].mask /\ HandedOut(<<array[i].pages, pos>>)
      BY <2>4 DEF AllocFromArray, IsLowest
    <3>2. array[i].pages \in Block /\ ~TakenSomewhere(array[i].pages, pos)
      BY <2>1, <3>1 DEF BlocksDistinct, TakenSomewhere, Taken, Chunk
    <3> QED BY <1>2, <2>1, <3>1, <3>2
  <2>5. CASE AllocNewChunk
    <3>1. PICK b \in Block \ Live : HandedOut(<<b, 0>>)
      BY <2>5 DEF AllocNewChunk
    <3>2. 0 \in AllPages /\ ~TakenSomewhere(b, 0)
      BY <3>1 DEF Live, TakenSomewhere, Taken, AllPages
    <3> QED BY <1>2, <2>1, <3>1, <3>2
  <2>6. CASE FreeToHead
    <3>1. PICK pos \in AllPages : holders[<<head.pages, pos>>] > 0
                               /\ TakenBack(<<head.pages, pos>>)
      BY <2>6 DEF FreeToHead
    <3>2. head.pages \in Block
      BY <2>1 DEF Chunk
    <3> QED BY <1>3, <2>1, <3>1, <3>2
  <2>7. ASSUME NEW i \in Slots, FreeToArray(i) PROVE Pool!Next
    <3>1. PICK pos \in AllPages : holders[<<array[i].pages, pos>>] > 0
                               /\ TakenBack(<<array[i].pages, pos>>)
      BY <2>7 DEF FreeToArray
    <3>2. array[i].pages \in Block
      BY <2>1, <2>7 DEF Chunk
    <3> QED BY <1>3, <2>1, <3>1, <3>2
  <2> QED BY <1>4, <2>2, <2>3, <2>4, <2>5, <2>6, <2>7 DEF Next
<1> QED BY <1>1, <1>4, Invariance, PTL DEF Spec, PagePoolSpec, Pool!Spec
=============================================================================
