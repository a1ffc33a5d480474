---------------------------- MODULE BufferProofs ----------------------------
(***************************************************************************)
(* Proofs about the chunked buffers, for any number of buffers, with and   *)
(* without an io, any page size and any lengths read and written: first    *)
(* who holds which page, then how chunks are laid out.                     *)
(***************************************************************************)
EXTENDS Buffer, ListFacts

IsChunk(c) == c = [at |-> c.at, first |-> c.first, data |-> c.data, mem |-> c.mem]

\* the fields of a buffer, and its chunks as a sequence that is not empty
WellFormed(s) ==
  /\ s = [chunks |-> s.chunks, rd |-> s.rd, te |-> s.te, rpage |-> s.rpage, rlast |-> s.rlast]
  /\ Len(s.chunks) \in Nat \ {0}
  /\ s.chunks = [i \in 1 .. Len(s.chunks) |-> s.chunks[i]]
  /\ \A i \in 1 .. Len(s.chunks) : IsChunk(s.chunks[i])

\* A chunk without memory owns none.  Without reuse of page ends a chunk owns
\* the page it lies in.
OwnsItsPage(c) ==
  /\ c.at = Null => c.mem \notin Page
  /\ ~ReuseFragment /\ c.at \in Page => c.mem = c.at

\* The inductive invariant: the chunks of all buffers m agree with the pool.
Books(m, used) ==
  /\ m = [b \in Buffer |-> m[b]]
  /\ \A b \in Buffer : WellFormed(m[b])
  /\ \A b \in Buffer : \A i \in 1 .. Len(m[b].chunks) : OwnsItsPage(m[b].chunks[i])
  /\ used \subseteq Page
  /\ OwnedOnce(m, used)

BufferInv == Books(buf, inUse)

\* OwnedOnce, chunk by chunk
Claims(m, used) ==
  \A b \in Buffer : \A i \in 1 .. Len(m[b].chunks) :
    m[b].chunks[i].mem \in Page => m[b].chunks[i].mem \in used

Claimed(m, used) ==
  \A p \in used : \E b \in Buffer : \E i \in 1 .. Len(m[b].chunks) : m[b].chunks[i].mem = p

Unshared(m) ==
  \A b \in Buffer, x \in Buffer : \A i \in 1 .. Len(m[b].chunks) : \A j \in 1 .. Len(m[x].chunks) :
    m[b].chunks[i].mem \in Page /\ m[b].chunks[i].mem = m[x].chunks[j].mem => b = x /\ i = j
-----------------------------------------------------------------------------
(* Sequences of chunks *)

\* The chunks of a buffer are a sequence.
LEMMA ChunksSeq ==
  ASSUME NEW s, WellFormed(s)
  PROVE  /\ s.chunks \in Seq({s.chunks[i] : i \in 1 .. Len(s.chunks)})
         /\ DOMAIN s.chunks = 1 .. Len(s.chunks)
         /\ Len(s.chunks) \in Nat \ {0}
<1> DEFINE n == Len(s.chunks)
           S == {s.chunks[i] : i \in 1 .. n}
<1>1. n \in Nat \ {0} /\ s.chunks = [i \in 1 .. n |-> s.chunks[i]]
  BY DEF WellFormed
<1>2. s.chunks \in [1 .. n -> S]
  BY <1>1
<1>3. s.chunks \in Seq(S)
  BY <1>1, <1>2, SeqDef
<1> QED BY <1>1, <1>3

\* A sequence is well-formed as the chunks of a buffer.
LEMMA SeqChunks ==
  ASSUME NEW S, NEW q \in Seq(S), q # <<>>
  PROVE  /\ Len(q) \in Nat \ {0}
         /\ q = [i \in 1 .. Len(q) |-> q[i]]
         /\ DOMAIN q = 1 .. Len(q)
<1>1. Len(q) \in Nat /\ q \in [1 .. Len(q) -> S] /\ DOMAIN q = 1 .. Len(q)
  BY LenProperties
<1>2. Len(q) # 0
  BY EmptySeq
<1> QED BY <1>1, <1>2

\* OwnedOnce speaks of the same places whether chunks are counted or in DOMAIN.
LEMMA OwnedByIndex ==
  ASSUME NEW m, NEW used, \A b \in Buffer : WellFormed(m[b])
  PROVE  OwnedOnce(m, used) <=> Claims(m, used) /\ Claimed(m, used) /\ Unshared(m)
<1>1. \A b \in Buffer : DOMAIN m[b].chunks = 1 .. Len(m[b].chunks)
  BY ChunksSeq
<1>2. ASSUME OwnedOnce(m, used) PROVE Claims(m, used) /\ Claimed(m, used)
  BY <1>1, <1>2 DEF OwnedOnce, Claims, Claimed
<1>3. ASSUME OwnedOnce(m, used) PROVE Unshared(m)
  <2> SUFFICES ASSUME NEW b \in Buffer, NEW x \in Buffer,
                      NEW i \in 1 .. Len(m[b].chunks), NEW j \in 1 .. Len(m[x].chunks),
                      m[b].chunks[i].mem \in Page, m[b].chunks[i].mem = m[x].chunks[j].mem
               PROVE  b = x /\ i = j
    BY DEF Unshared
  <2>1. i \in DOMAIN m[b].chunks /\ j \in DOMAIN m[x].chunks
    BY <1>1
  <2> QED BY <1>3, <2>1, Zenon DEF OwnedOnce
<1>4. ASSUME Claims(m, used), Claimed(m, used), Unshared(m) PROVE OwnedOnce(m, used)
  <2>1. ASSUME NEW b \in Buffer, NEW x \in Buffer,
               NEW i \in DOMAIN m[b].chunks, NEW j \in DOMAIN m[x].chunks,
               m[b].chunks[i].mem \in Page, m[b].chunks[i].mem = m[x].chunks[j].mem
        PROVE  b = x /\ i = j
    <3>1. i \in 1 .. Len(m[b].chunks) /\ j \in 1 .. Len(m[x].chunks)
      BY <1>1
    <3> QED BY <1>4, <2>1, <3>1, Zenon DEF Unshared
  <2>2. \A b \in Buffer : \A i \in DOMAIN m[b].chunks :
          m[b].chunks[i].mem \in Page => m[b].chunks[i].mem \in used
    BY <1>1, <1>4 DEF Claims
  <2>3. \A p \in used : \E b \in Buffer : \E i \in DOMAIN m[b].chunks : m[b].chunks[i].mem = p
    BY <1>1, <1>4 DEF Claimed
  <2> QED BY <2>1, <2>2, <2>3, Zenon DEF OwnedOnce
<1> QED BY <1>2, <1>3, <1>4
-----------------------------------------------------------------------------
(* What a change of one buffer does to the books *)

\* Bytes stored, and room that grows in place, change no owner.
LEMMA SameOwners ==
  ASSUME NEW m, NEW used, Books(m, used), NEW m2, m2 = [b \in Buffer |-> m2[b]],
         \A b \in Buffer :
           /\ WellFormed(m2[b])
           /\ Len(m2[b].chunks) = Len(m[b].chunks)
           /\ \A i \in 1 .. Len(m[b].chunks) :
                /\ m2[b].chunks[i].at = m[b].chunks[i].at
                /\ m2[b].chunks[i].mem = m[b].chunks[i].mem
  PROVE  Books(m2, used)
<1>1. Claims(m, used) /\ Claimed(m, used) /\ Unshared(m)
  BY OwnedByIndex DEF Books
<1>2. OwnedOnce(m2, used)
  <2>1. Claims(m2, used)
    BY <1>1 DEF Claims
  <2>2. Claimed(m2, used)
    BY <1>1 DEF Claimed
  <2>3. Unshared(m2)
    BY <1>1 DEF Unshared
  <2> QED BY <2>1, <2>2, <2>3, OwnedByIndex
<1>3. \A b \in Buffer : \A i \in 1 .. Len(m2[b].chunks) : OwnsItsPage(m2[b].chunks[i])
  BY DEF Books, OwnsItsPage
<1> QED BY <1>2, <1>3 DEF Books

\* The first k chunks of a buffer go, and their pages with them.
LEMMA ShiftedShape ==
  ASSUME NEW s, WellFormed(s), NEW k \in 0 .. Len(s.chunks)
  PROVE  LET t == Shifted(s, k) IN
         /\ WellFormed(t)
         /\ \/ /\ k = Len(s.chunks) /\ t.chunks = <<NullChunk>>
            \/ /\ k < Len(s.chunks) /\ Len(t.chunks) = Len(s.chunks) - k
               /\ \A i \in 1 .. Len(t.chunks) : t.chunks[i] = s.chunks[i + k]
<1> DEFINE t == Shifted(s, k)
           n == Len(s.chunks)
           S == {s.chunks[i] : i \in 1 .. n}
<1>1. s.chunks \in Seq(S) /\ n \in Nat \ {0} /\ DOMAIN s.chunks = 1 .. n
  BY ChunksSeq
<1>2. CASE k = n
  <2>1. t = [chunks |-> <<NullChunk>>, rd |-> 0, te |-> 0, rpage |-> s.rpage, rlast |-> s.rlast]
    BY <1>2 DEF Shifted, WellFormed
  <2>2. IsChunk(NullChunk)
    BY DEF IsChunk, NullChunk
  <2>3. t.chunks = <<NullChunk>> /\ WellFormed(t)
    BY <2>1, <2>2 DEF WellFormed
  <2> QED BY <1>2, <2>3
<1>3. CASE k # n
  <2> DEFINE q == SubSeq(s.chunks, k + 1, n)
  <2>1. k \in Nat /\ k < n
    BY <1>1, <1>3
  <2>2. q \in Seq(S) /\ Len(q) = n - k /\ \A i \in 1 .. n - k : q[i] = s.chunks[i + k]
    BY <1>1, CutOf
  <2>3. \E rd : t = [chunks |-> q, rd |-> rd, te |-> s.te, rpage |-> s.rpage, rlast |-> s.rlast]
    BY <1>3 DEF Shifted, WellFormed
  <2>4. t.chunks = q
    BY <2>3
  <2> HIDE DEF q
  <2>5. q # <<>>
    <3>1. Len(q) # 0
      BY <1>1, <2>1, <2>2
    <3> QED BY <3>1, EmptySeq
  <2>6. q = [i \in 1 .. Len(q) |-> q[i]]
    BY <2>2, <2>5, SeqChunks
  <2>7. \A i \in 1 .. Len(q) : IsChunk(q[i])
    <3> SUFFICES ASSUME NEW i \in 1 .. Len(q) PROVE IsChunk(q[i])
      OBVIOUS
    <3>1. i + k \in 1 .. n /\ q[i] = s.chunks[i + k]
      BY <1>1, <2>1, <2>2
    <3> QED BY <3>1 DEF WellFormed
  <2> HIDE DEF t
  <2>8. WellFormed(t)
    <3>1. PICK rd : t = [chunks |-> q, rd |-> rd, te |-> s.te, rpage |-> s.rpage, rlast |-> s.rlast]
      BY <2>3
    <3>2. t = [chunks |-> t.chunks, rd |-> t.rd, te |-> t.te, rpage |-> t.rpage, rlast |-> t.rlast]
      BY <3>1
    <3> QED BY <1>1, <2>1, <2>2, <2>4, <2>6, <2>7, <3>2 DEF WellFormed
  <2> QED BY <2>1, <2>2, <2>4, <2>8 DEF t
<1> QED BY <1>2, <1>3

\* Chunks given back take just their own pages out of the books.
LEMMA ChunksDropped ==
  ASSUME PlaceAssumption, NEW m, NEW used, Books(m, used), NEW b \in Buffer,
         NEW k \in 0 .. Len(m[b].chunks)
  PROVE  Books([m EXCEPT ![b] = Shifted(m[b], k)], used \ FreedPages(m[b], k))
<1> DEFINE m2 == [m EXCEPT ![b] = Shifted(m[b], k)]
           n == Len(m[b].chunks)
           freed == FreedPages(m[b], k)
<1>1. /\ m = [x \in Buffer |-> m[x]] /\ used \subseteq Page
      /\ \A x \in Buffer : WellFormed(m[x])
      /\ \A x \in Buffer : \A i \in 1 .. Len(m[x].chunks) : OwnsItsPage(m[x].chunks[i])
  BY DEF Books
<1>2. \A x \in Buffer : Len(m[x].chunks) \in Nat \ {0} /\ DOMAIN m[x].chunks = 1 .. Len(m[x].chunks)
  BY <1>1, ChunksSeq
<1>before. Claims(m, used) /\ Claimed(m, used) /\ Unshared(m)
  BY OwnedByIndex DEF Books
<1>3. m2 = [x \in Buffer |-> IF x = b THEN Shifted(m[b], k) ELSE m[x]]
  BY <1>1
<1>4. /\ m2 = [x \in Buffer |-> m2[x]]
      /\ \A x \in Buffer \ {b} : m2[x] = m[x]
      /\ m2[b] = Shifted(m[b], k)
  BY <1>3
<1> HIDE DEF m2
<1>5. WellFormed(m2[b])
  BY <1>1, <1>4, ShiftedShape
<1>shape. \/ k = n /\ m2[b].chunks = <<NullChunk>>
          \/ /\ k < n /\ Len(m2[b].chunks) = n - k
             /\ \A i \in 1 .. Len(m2[b].chunks) : m2[b].chunks[i] = m[b].chunks[i + k]
  BY <1>1, <1>4, ShiftedShape
<1>6. \A x \in Buffer : WellFormed(m2[x])
  BY <1>1, <1>4, <1>5
<1>7. \A x \in Buffer : Len(m2[x].chunks) \in Nat \ {0} /\ DOMAIN m2[x].chunks = 1 .. Len(m2[x].chunks)
  BY <1>6, ChunksSeq
<1>8. \A i \in 1 .. Len(m2[b].chunks) :
        \/ m2[b].chunks[i] = NullChunk
        \/ i + k \in 1 .. n /\ m2[b].chunks[i] = m[b].chunks[i + k]
  <2>1. CASE k = n /\ m2[b].chunks = <<NullChunk>>
    BY <2>1
  <2>2. CASE /\ k < n /\ Len(m2[b].chunks) = n - k
             /\ \A i \in 1 .. Len(m2[b].chunks) : m2[b].chunks[i] = m[b].chunks[i + k]
    BY <1>2, <2>2
  <2> QED BY <1>shape, <2>1, <2>2, Zenon
<1>9. \A i \in k + 1 .. n : i - k \in 1 .. Len(m2[b].chunks) /\ m2[b].chunks[i - k] = m[b].chunks[i]
  <2>1. CASE k = n
    BY <1>2, <2>1
  <2>2. CASE /\ k < n /\ Len(m2[b].chunks) = n - k
             /\ \A i \in 1 .. Len(m2[b].chunks) : m2[b].chunks[i] = m[b].chunks[i + k]
    BY <1>2, <2>2
  <2> QED BY <1>shape, <2>1, <2>2, Zenon
<1>10. NullChunk.mem \notin Page /\ OwnsItsPage(NullChunk)
  BY PlaceAssumption DEF NullChunk, OwnsItsPage
<1>11. \A x \in Buffer : \A i \in 1 .. Len(m2[x].chunks) : OwnsItsPage(m2[x].chunks[i])
  BY <1>1, <1>4, <1>8, <1>10
<1>12. freed = {m[b].chunks[i].mem : i \in 1 .. k} \cap Page
  BY DEF FreedPages
<1> HIDE DEF freed
\* every chunk that stays is a chunk from before, which kept its page
<1>13. \A x \in Buffer : \A i \in 1 .. Len(m2[x].chunks) : m2[x].chunks[i].mem \in Page =>
         \E j \in 1 .. Len(m[x].chunks) :
           /\ j = IF x = b THEN i + k ELSE i
           /\ m[x].chunks[j].mem = m2[x].chunks[i].mem
  BY <1>4, <1>8, <1>10
<1>14. ASSUME NEW x \in Buffer, NEW i \in 1 .. Len(m2[x].chunks), m2[x].chunks[i].mem \in Page
       PROVE  m2[x].chunks[i].mem \in used \ freed
  <2>1. PICK j \in 1 .. Len(m[x].chunks) : /\ j = IF x = b THEN i + k ELSE i
                                           /\ m[x].chunks[j].mem = m2[x].chunks[i].mem
    BY <1>13, <1>14
  <2>2. m[x].chunks[j].mem \in used
    BY <1>before, <1>14, <2>1 DEF Claims
  <2>3. ASSUME NEW h \in 1 .. k, m[b].chunks[h].mem = m[x].chunks[j].mem PROVE FALSE
    <3>1. h \in 1 .. Len(m[b].chunks)
      BY <1>2
    <3>2. m[x].chunks[j].mem \in Page
      BY <1>14, <2>1
    <3>3. b = x /\ h = j
      BY <1>before, <2>3, <3>1, <3>2, Zenon DEF Unshared
    <3> QED BY <1>2, <1>7, <2>1, <3>3
  <2> QED BY <1>12, <2>1, <2>2, <2>3
<1>15. ASSUME NEW p \in used \ freed
       PROVE  \E x \in Buffer : \E i \in 1 .. Len(m2[x].chunks) : m2[x].chunks[i].mem = p
  <2>0. PICK x \in Buffer : \E i \in 1 .. Len(m[x].chunks) : m[x].chunks[i].mem = p
    BY <1>before DEF Claimed
  <2>1. PICK i \in 1 .. Len(m[x].chunks) : m[x].chunks[i].mem = p
    BY <2>0
  <2>2. CASE x # b
    BY <1>4, <2>1, <2>2
  <2>3. CASE x = b
    <3>1. i \in k + 1 .. n
      BY <1>1, <1>2, <1>12, <2>1, <2>3
    <3> QED BY <1>9, <2>1, <2>3, <3>1
  <2> QED BY <2>2, <2>3
<1>16. ASSUME NEW x \in Buffer, NEW y \in Buffer,
              NEW i \in 1 .. Len(m2[x].chunks), NEW j \in 1 .. Len(m2[y].chunks),
              m2[x].chunks[i].mem \in Page, m2[x].chunks[i].mem = m2[y].chunks[j].mem
       PROVE  x = y /\ i = j
  <2>1. PICK g \in 1 .. Len(m[x].chunks) : /\ g = IF x = b THEN i + k ELSE i
                                           /\ m[x].chunks[g].mem = m2[x].chunks[i].mem
    BY <1>13, <1>16
  <2>2. PICK h \in 1 .. Len(m[y].chunks) : /\ h = IF y = b THEN j + k ELSE j
                                           /\ m[y].chunks[h].mem = m2[y].chunks[j].mem
    BY <1>13, <1>16
  <2>3. x = y /\ g = h
    <3>1. m[x].chunks[g].mem \in Page /\ m[x].chunks[g].mem = m[y].chunks[h].mem
      BY <1>16, <2>1, <2>2
    <3> QED BY <1>before, <3>1, Zenon DEF Unshared
  <2>4. i \in Nat /\ j \in Nat /\ k \in Nat
    BY <1>2, <1>7
  <2>5. CASE x = b
    BY <2>1, <2>2, <2>3, <2>4, <2>5
  <2>6. CASE x # b
    BY <2>1, <2>2, <2>3, <2>6
  <2> QED BY <2>5, <2>6
<1>17. OwnedOnce(m2, used \ freed)
  <2>1. Claims(m2, used \ freed)
    BY <1>14 DEF Claims
  <2>2. Claimed(m2, used \ freed)
    BY <1>15 DEF Claimed
  <2>3. Unshared(m2)
    <3> SUFFICES ASSUME NEW x \in Buffer, NEW y \in Buffer,
                        NEW i \in 1 .. Len(m2[x].chunks), NEW j \in 1 .. Len(m2[y].chunks),
                        m2[x].chunks[i].mem \in Page, m2[x].chunks[i].mem = m2[y].chunks[j].mem
                 PROVE  x = y /\ i = j
      BY DEF Unshared
    <3> QED BY <1>16
  <2> QED BY <1>6, <2>1, <2>2, <2>3, OwnedByIndex
<1> QED BY <1>1, <1>4, <1>6, <1>11, <1>17 DEF Books, m2, freed

\* A chunk is put behind the others, or in place of the only one if that has
\* no memory.
Extends(t, s, c) ==
  \/ /\ Len(t.chunks) = Len(s.chunks) + 1
     /\ t.chunks[Len(s.chunks) + 1] = c
     /\ \A i \in 1 .. Len(s.chunks) : t.chunks[i] = s.chunks[i]
  \/ /\ Len(s.chunks) = 1 /\ s.chunks[1].at = Null
     /\ Len(t.chunks) = 1 /\ t.chunks[1] = c

\* The fields of a buffer with a new tail.
LEMMA NewTailFields ==
  ASSUME NEW s, s = [chunks |-> s.chunks, rd |-> s.rd, te |-> s.te, rpage |-> s.rpage, rlast |-> s.rlast],
         NEW c, NEW te
  PROVE  NewTail(s, c, te) = [chunks |-> Append(Front(s.chunks), c),
                              rd |-> IF Len(s.chunks) = 1 THEN c.first ELSE s.rd, te |-> te,
                              rpage |-> s.rpage, rlast |-> s.rlast]
<1> DEFINE q == Append(Front(s.chunks), c)
           rd == IF Len(s.chunks) = 1 THEN c.first ELSE s.rd
<1>1. NewTail(s, c, te) = [s EXCEPT !.chunks = q, !.te = te, !.rd = rd]
  BY DEF NewTail
<1> HIDE DEF q, rd
<1>2. [s EXCEPT !.chunks = q]
        = [chunks |-> q, rd |-> s.rd, te |-> s.te, rpage |-> s.rpage, rlast |-> s.rlast]
  OBVIOUS
<1>3. [[chunks |-> q, rd |-> s.rd, te |-> s.te, rpage |-> s.rpage, rlast |-> s.rlast] EXCEPT !.te = te]
        = [chunks |-> q, rd |-> s.rd, te |-> te, rpage |-> s.rpage, rlast |-> s.rlast]
  OBVIOUS
<1>4. [[chunks |-> q, rd |-> s.rd, te |-> te, rpage |-> s.rpage, rlast |-> s.rlast] EXCEPT !.rd = rd]
        = [chunks |-> q, rd |-> rd, te |-> te, rpage |-> s.rpage, rlast |-> s.rlast]
  OBVIOUS
<1>5. NewTail(s, c, te)
        = [chunks |-> q, rd |-> rd, te |-> te, rpage |-> s.rpage, rlast |-> s.rlast]
  BY <1>1, <1>2, <1>3, <1>4, Zenon
<1> QED BY <1>5 DEF q, rd

\* A chunk added behind the others, and what NewTail makes of it.
LEMMA NewTailShape ==
  ASSUME NEW s, WellFormed(s), NEW c, IsChunk(c), NEW te
  PROVE  LET t == NewTail(ChunkAdded(s), c, te)
         IN WellFormed(t) /\ Extends(t, s, c) /\ TailChunk(t) = c
<1> DEFINE n == Len(s.chunks)
           S == {s.chunks[i] : i \in 1 .. n}
           a == ChunkAdded(s)
           t == NewTail(a, c, te)
           S2 == S \cup {c}
<1>1. s.chunks \in Seq(S) /\ n \in Nat \ {0} /\ DOMAIN s.chunks = 1 .. n
  BY ChunksSeq
<1>2. s.chunks \in Seq(S2) /\ s.chunks[n] \in S
  BY <1>1, SeqMonotonic, ElementOfSeq
<1>3. \/ /\ n = 1 /\ s.chunks[1].at = Null /\ a = s
      \/ \E r : a = [chunks |-> Append(s.chunks, s.chunks[n]), rd |-> s.rd, te |-> s.te,
                     rpage |-> s.rpage, rlast |-> r]
  BY <1>1 DEF ChunkAdded, TailChunk, Last, WellFormed
<1>4. a = [chunks |-> a.chunks, rd |-> a.rd, te |-> a.te, rpage |-> a.rpage, rlast |-> a.rlast]
  BY <1>3 DEF WellFormed
<1> HIDE DEF a, t
<1> DEFINE rd == IF Len(a.chunks) = 1 THEN c.first ELSE a.rd
<1>5. t = [chunks |-> Append(Front(a.chunks), c), rd |-> rd, te |-> te,
           rpage |-> a.rpage, rlast |-> a.rlast]
  BY <1>4, NewTailFields DEF t
<1> HIDE DEF rd
<1> DEFINE Goal == WellFormed(t) /\ Extends(t, s, c) /\ TailChunk(t) = c
<1>6. ASSUME n = 1, s.chunks[1].at = Null, a = s PROVE Goal
  <2>1. Front(a.chunks) = <<>>
    <3>1. Front(a.chunks) = SubSeq(s.chunks, 1, n - 1)
      BY <1>6 DEF Front
    <3>2. n - 1 = 0
      BY <1>6
    <3>3. SubSeq(s.chunks, 1, 0) = <<>>
      BY SubSeqEmpty
    <3> QED BY <3>1, <3>2, <3>3, Zenon
  <2>2. t.chunks = <<c>>
    BY <1>5, <2>1
  <2>3. Len(t.chunks) = 1 /\ t.chunks[1] = c /\ t.chunks = [i \in 1 .. 1 |-> t.chunks[i]]
    BY <2>2
  <2>4. WellFormed(t)
    BY <1>5, <2>3 DEF WellFormed
  <2>5. Extends(t, s, c)
    BY <1>6, <2>3 DEF Extends
  <2>6. TailChunk(t) = c
    BY <2>3 DEF TailChunk, Last
  <2> QED BY <2>4, <2>5, <2>6
<1>7. ASSUME a.chunks = Append(s.chunks, s.chunks[n]) PROVE Goal
  <2>1. /\ a.chunks \in Seq(S) /\ Len(a.chunks) = n + 1
        /\ \A i \in 1 .. n : a.chunks[i] = s.chunks[i]
    <3>1. s.chunks \in Seq(S) /\ s.chunks[n] \in S /\ Len(s.chunks) = n
      BY <1>1
    <3> HIDE DEF S, n
    <3> QED BY <1>7, <3>1, AppendProperties
  <2>2. Front(a.chunks) \in Seq(S) /\ Len(Front(a.chunks)) = n
        /\ \A i \in 1 .. n : Front(a.chunks)[i] = s.chunks[i]
    <3>1. Front(a.chunks) = SubSeq(a.chunks, 1, n)
      BY <1>1, <2>1 DEF Front
    <3>2. \A i \in 1 .. n : a.chunks[i] \in S
      BY <1>1, <2>1
    <3>3. /\ SubSeq(a.chunks, 1, n) \in Seq(S)
          /\ Len(SubSeq(a.chunks, 1, n)) = IF 1 <= n THEN n - 1 + 1 ELSE 0
          /\ \A i \in 1 .. n - 1 + 1 : SubSeq(a.chunks, 1, n)[i] = a.chunks[1 + i - 1]
      <4> HIDE DEF S
      <4> QED BY <1>1, <3>2, SubSeqProperties
    <3> DEFINE f == SubSeq(a.chunks, 1, n)
    <3> HIDE DEF f
    <3>4. f \in Seq(S) /\ Len(f) = n /\ \A i \in 1 .. n : f[i] = a.chunks[i]
      BY <1>1, <3>3 DEF f
    <3> QED BY <2>1, <3>1, <3>4 DEF f
  <2>3. Front(a.chunks) = s.chunks
    BY <1>1, <2>2, SeqEqual
  <2>4. t.chunks = Append(s.chunks, c)
    BY <1>5, <2>3
  <2>5. /\ t.chunks \in Seq(S2) /\ Len(t.chunks) = n + 1 /\ t.chunks[n + 1] = c
        /\ \A i \in 1 .. n : t.chunks[i] = s.chunks[i]
    BY <1>1, <1>2, <2>4
  <2>6. t.chunks = [i \in 1 .. Len(t.chunks) |-> t.chunks[i]]
    <3>1. t.chunks # <<>>
      BY <1>1, <2>5, EmptySeq
    <3> QED BY <2>5, <3>1, SeqChunks
  <2>7. \A i \in 1 .. Len(t.chunks) : IsChunk(t.chunks[i])
    BY <1>1, <2>5 DEF WellFormed
  <2>8. t = [chunks |-> t.chunks, rd |-> t.rd, te |-> t.te, rpage |-> t.rpage, rlast |-> t.rlast]
    BY <1>5
  <2>9. WellFormed(t)
    BY <1>1, <2>5, <2>6, <2>7, <2>8 DEF WellFormed
  <2> QED BY <1>1, <2>5, <2>9 DEF Extends, TailChunk, Last
<1>8. Goal
  BY <1>3, <1>6, <1>7 DEF a
<1> QED BY <1>8 DEF a, t

\* A chunk put at the end of a buffer brings a page that nobody had.
LEMMA ChunkAppended ==
  ASSUME NEW m, NEW used, Books(m, used), NEW b \in Buffer,
         NEW c, OwnsItsPage(c), c.mem \notin used,
         NEW t, WellFormed(t), Extends(t, m[b], c)
  PROVE  Books([m EXCEPT ![b] = t], used \cup ({c.mem} \cap Page))
<1> DEFINE m2 == [m EXCEPT ![b] = t]
           used2 == used \cup ({c.mem} \cap Page)
<1>1. /\ m = [x \in Buffer |-> m[x]] /\ used \subseteq Page
      /\ \A x \in Buffer : WellFormed(m[x])
      /\ \A x \in Buffer : \A i \in 1 .. Len(m[x].chunks) : OwnsItsPage(m[x].chunks[i])
  BY DEF Books
<1>2. \A x \in Buffer : Len(m[x].chunks) \in Nat \ {0}
  BY <1>1 DEF WellFormed
<1>3. Claims(m, used) /\ Claimed(m, used) /\ Unshared(m)
  BY OwnedByIndex DEF Books
<1>4. m2 = [x \in Buffer |-> IF x = b THEN t ELSE m[x]]
  BY <1>1
<1>5. /\ m2 = [x \in Buffer |-> m2[x]]
      /\ \A x \in Buffer \ {b} : m2[x] = m[x]
      /\ m2[b] = t
  BY <1>4
<1> HIDE DEF m2
<1>6. \A x \in Buffer : WellFormed(m2[x])
  BY <1>1, <1>5
\* every chunk is the new one or one from before, at its old place
<1>7. ASSUME NEW x \in Buffer, NEW i \in 1 .. Len(m2[x].chunks)
      PROVE  \/ x = b /\ m2[x].chunks[i] = c /\ i = Len(m2[b].chunks)
             \/ i \in 1 .. Len(m[x].chunks) /\ m2[x].chunks[i] = m[x].chunks[i]
  <2>1. CASE x # b
    BY <1>5, <1>7, <2>1
  <2>2. CASE x = b
    <3>1. i \in 1 .. Len(t.chunks) /\ Len(m[b].chunks) \in Nat
      BY <1>2, <1>5, <1>7, <2>2
    <3>2. i \in 1 .. Len(m[b].chunks) \/ i = Len(t.chunks)
      BY <3>1 DEF Extends
    <3>3. CASE i \in 1 .. Len(m[b].chunks) /\ t.chunks[i] = m[b].chunks[i]
      BY <1>5, <2>2, <3>3
    <3>4. CASE i = Len(t.chunks) /\ t.chunks[i] = c
      BY <1>5, <2>2, <3>4
    <3>5. CASE /\ Len(t.chunks) = Len(m[b].chunks) + 1
               /\ t.chunks[Len(m[b].chunks) + 1] = c
               /\ \A g \in 1 .. Len(m[b].chunks) : t.chunks[g] = m[b].chunks[g]
      BY <3>2, <3>3, <3>4, <3>5
    <3>6. CASE Len(t.chunks) = 1 /\ t.chunks[1] = c
      BY <3>1, <3>4, <3>6
    <3> QED BY <3>5, <3>6 DEF Extends
  <2> QED BY <2>1, <2>2
<1>8. \A x \in Buffer : \A i \in 1 .. Len(m2[x].chunks) : OwnsItsPage(m2[x].chunks[i])
  BY <1>1, <1>7
<1>9. Claims(m2, used2)
  BY <1>3, <1>7 DEF Claims
<1>10. Claimed(m2, used2)
  <2> SUFFICES ASSUME NEW p \in used2
               PROVE  \E x \in Buffer : \E i \in 1 .. Len(m2[x].chunks) : m2[x].chunks[i].mem = p
    BY DEF Claimed
  <2>1. CASE p \in used
    <3>1. PICK x \in Buffer : \E i \in 1 .. Len(m[x].chunks) : m[x].chunks[i].mem = p
      BY <1>3, <2>1 DEF Claimed
    <3>2. PICK i \in 1 .. Len(m[x].chunks) : m[x].chunks[i].mem = p
      BY <3>1
    <3>3. i \in 1 .. Len(m2[x].chunks) /\ m2[x].chunks[i] = m[x].chunks[i]
      <4>1. CASE x # b
        BY <1>5, <4>1
      <4>2. CASE x = b /\ ~(Len(m[b].chunks) = 1 /\ m[b].chunks[1].at = Null)
        BY <1>2, <1>5, <4>2 DEF Extends
      <4>3. CASE x = b /\ Len(m[b].chunks) = 1 /\ m[b].chunks[1].at = Null
        <5>1. OwnsItsPage(m[b].chunks[1]) /\ i = 1
          BY <1>1, <4>3
        <5> QED BY <1>1, <2>1, <3>2, <4>3, <5>1 DEF OwnsItsPage
      <4> QED BY <4>1, <4>2, <4>3
    <3> QED BY <3>2, <3>3
  <2>2. CASE p = c.mem
    <3>1. Len(t.chunks) \in 1 .. Len(t.chunks) /\ t.chunks[Len(t.chunks)] = c
      BY <1>2 DEF Extends, WellFormed
    <3> QED BY <1>5, <2>2, <3>1
  <2> QED BY <2>1, <2>2
<1>11. Unshared(m2)
  <2> SUFFICES ASSUME NEW x \in Buffer, NEW y \in Buffer,
                      NEW i \in 1 .. Len(m2[x].chunks), NEW j \in 1 .. Len(m2[y].chunks),
                      m2[x].chunks[i].mem \in Page, m2[x].chunks[i].mem = m2[y].chunks[j].mem
               PROVE  x = y /\ i = j
    BY DEF Unshared
  <2>1. CASE m2[x].chunks[i] = c /\ x = b /\ i = Len(m2[b].chunks)
    <3>1. c.mem = m2[y].chunks[j].mem /\ c.mem \in Page
      BY <2>1
    <3>2. ASSUME j \in 1 .. Len(m[y].chunks), m2[y].chunks[j] = m[y].chunks[j] PROVE FALSE
      BY <1>3, <3>1, <3>2 DEF Claims
    <3> QED BY <1>7, <2>1, <3>2
  <2>2. CASE i \in 1 .. Len(m[x].chunks) /\ m2[x].chunks[i] = m[x].chunks[i]
    <3>1. m[x].chunks[i].mem \in used /\ m[x].chunks[i].mem = m2[y].chunks[j].mem
      BY <1>3, <2>2 DEF Claims
    <3>2. j \in 1 .. Len(m[y].chunks) /\ m2[y].chunks[j] = m[y].chunks[j]
      BY <1>7, <3>1
    <3>3. m[x].chunks[i].mem \in Page /\ m[x].chunks[i].mem = m[y].chunks[j].mem
      BY <2>2, <3>2
    <3>4. Unshared(m)
      BY <1>3
    <3> QED BY <2>2, <3>2, <3>3, <3>4, ZenonT(30) DEF Unshared
  <2> QED BY <1>7, <2>1, <2>2
<1>12. OwnedOnce(m2, used2)
  BY <1>6, <1>9, <1>10, <1>11, OwnedByIndex
<1> QED BY <1>1, <1>5, <1>6, <1>8, <1>12 DEF Books, m2
-----------------------------------------------------------------------------
(* The operators that append *)

\* the pool once b's tail has what it took of it
WithTail(m, b, used) == used \cup ({TailChunk(m[b]).mem} \cap Page)

\* A tail's page is among those handed out already.
LEMMA TailClaimed ==
  ASSUME NEW m, NEW used, Books(m, used), NEW b \in Buffer
  PROVE  WithTail(m, b, used) = used
<1>1. Claims(m, used)
  BY OwnedByIndex DEF Books
<1>2. Len(m[b].chunks) \in 1 .. Len(m[b].chunks)
  <2>1. Len(m[b].chunks) \in Nat \ {0}
    BY ChunksSeq DEF Books
  <2> QED BY <2>1
<1>3. TailChunk(m[b]).mem \in Page => TailChunk(m[b]).mem \in used
  BY <1>1, <1>2 DEF Claims, TailChunk, Last
<1> QED BY <1>3 DEF WithTail

\* The same chunks at the same places, whatever bytes they hold.
SamePlaces(s, t) ==
  /\ Len(t.chunks) = Len(s.chunks)
  /\ \A i \in 1 .. Len(s.chunks) : /\ t.chunks[i].at = s.chunks[i].at
                                   /\ t.chunks[i].mem = s.chunks[i].mem

\* One field set, and the others as they were.
LEMMA SetChunksField ==
  ASSUME NEW s, s = [chunks |-> s.chunks, rd |-> s.rd, te |-> s.te, rpage |-> s.rpage, rlast |-> s.rlast],
         NEW q
  PROVE  [s EXCEPT !.chunks = q]
           = [chunks |-> q, rd |-> s.rd, te |-> s.te, rpage |-> s.rpage, rlast |-> s.rlast]
OBVIOUS

\* A chunk with other bytes lies where it lay.
LEMMA SetData ==
  ASSUME NEW c, IsChunk(c), NEW data
  PROVE  LET d == [c EXCEPT !.data = data] IN IsChunk(d) /\ d.at = c.at /\ d.mem = c.mem
<1> DEFINE d == [c EXCEPT !.data = data]
<1>1. c = [at |-> c.at, first |-> c.first, data |-> c.data, mem |-> c.mem]
  BY DEF IsChunk
<1>2. d = [at |-> c.at, first |-> c.first, data |-> data, mem |-> c.mem]
  BY <1>1
<1> HIDE DEF d
<1>3. d.at = c.at /\ d.first = c.first /\ d.data = data /\ d.mem = c.mem
  BY <1>2
<1>4. IsChunk(d)
  BY <1>2, <1>3 DEF IsChunk
<1> QED BY <1>3, <1>4 DEF d

\* A buffer with as many other chunks.
LEMMA SetChunks ==
  ASSUME NEW s, WellFormed(s), NEW q, q = [i \in 1 .. Len(s.chunks) |-> q[i]],
         \A i \in 1 .. Len(s.chunks) : IsChunk(q[i])
  PROVE  /\ WellFormed([s EXCEPT !.chunks = q])
         /\ [s EXCEPT !.chunks = q].chunks = q
         /\ Len(q) = Len(s.chunks)
<1> DEFINE n == Len(s.chunks)
           S == {q[i] : i \in 1 .. n}
           t == [s EXCEPT !.chunks = q]
<1>1. n \in Nat \ {0}
  BY DEF WellFormed
<1>2. q \in [1 .. n -> S]
  OBVIOUS
<1>3. q \in Seq(S)
  BY <1>1, <1>2, SeqDef
<1>4. Len(q) = n
  BY <1>1, <1>2, <1>3, LenProperties
<1>5. s = [chunks |-> s.chunks, rd |-> s.rd, te |-> s.te, rpage |-> s.rpage, rlast |-> s.rlast]
  BY DEF WellFormed
<1>6. t = [chunks |-> q, rd |-> s.rd, te |-> s.te, rpage |-> s.rpage, rlast |-> s.rlast]
  BY <1>5, SetChunksField
<1> HIDE DEF t
<1>8. /\ t.chunks = q
      /\ t = [chunks |-> t.chunks, rd |-> t.rd, te |-> t.te, rpage |-> t.rpage, rlast |-> t.rlast]
  BY <1>6
<1>7. WellFormed(t)
  BY <1>1, <1>4, <1>8 DEF WellFormed
<1> QED BY <1>4, <1>7, <1>8 DEF t

\* Storing bytes moves no chunk and changes no owner.
LEMMA ClobberedPlace ==
  ASSUME NEW c, IsChunk(c), NEW p, NEW off, NEW bytes
  PROVE  LET d == Clobbered(c, p, off, bytes)
         IN IsChunk(d) /\ d.at = c.at /\ d.mem = c.mem
<1> DEFINE d == Clobbered(c, p, off, bytes)
<1> DEFINE Goal == IsChunk(d) /\ d.at = c.at /\ d.mem = c.mem
<1>1. CASE d = c
  BY <1>1
<1>2. CASE d # c
  <2>1. \E data : d = [c EXCEPT !.data = data]
    BY <1>2 DEF Clobbered
  <2> HIDE DEF d
  <2>2. PICK data : d = [c EXCEPT !.data = data]
    BY <2>1
  <2>3. Goal
    BY <2>2, SetData
  <2> QED BY <2>3 DEF d
<1> QED BY <1>1, <1>2

\* Bytes stored in the tail, and seen through whichever chunk lies in the same
\* cells, move no chunk and no page.
LEMMA StoredBooks ==
  ASSUME NEW m, NEW used, Books(m, used), NEW b \in Buffer, NEW bytes
  PROVE  /\ Books(Stored(m, b, bytes), used)
         /\ TailChunk(Stored(m, b, bytes)[b]).mem = TailChunk(m[b]).mem
<1> DEFINE t == TailChunk(m[b])
           seen(x, i) == IF x = b /\ i = Len(m[b].chunks)
                         THEN [t EXCEPT !.data = t.data \o bytes]
                         ELSE Clobbered(m[x].chunks[i], t.at, End(t), bytes)
           chunks(x) == [i \in 1 .. Len(m[x].chunks) |-> seen(x, i)]
           m2 == [x \in Buffer |-> [m[x] EXCEPT !.chunks = chunks(x)]]
<1>1. \A x \in Buffer : /\ WellFormed(m[x])
                        /\ DOMAIN m[x].chunks = 1 .. Len(m[x].chunks)
                        /\ Len(m[x].chunks) \in Nat \ {0}
  BY ChunksSeq DEF Books
<1>2. Stored(m, b, bytes) = m2
  BY <1>1 DEF Stored
<1>3. ASSUME NEW x \in Buffer, NEW i \in 1 .. Len(m[x].chunks)
      PROVE  /\ IsChunk(seen(x, i))
             /\ seen(x, i).at = m[x].chunks[i].at /\ seen(x, i).mem = m[x].chunks[i].mem
  <2>1. IsChunk(m[x].chunks[i])
    BY <1>1 DEF WellFormed
  <2>2. CASE x = b /\ i = Len(m[b].chunks)
    <3>1. t = m[x].chunks[i] /\ IsChunk(t)
      BY <2>1, <2>2 DEF TailChunk, Last
    <3> DEFINE d == [t EXCEPT !.data = t.data \o bytes]
    <3> HIDE DEF t
    <3>2. seen(x, i) = d
      BY <2>2
    <3>3. IsChunk(d) /\ d.at = t.at /\ d.mem = t.mem
      BY <3>1, SetData
    <3> HIDE DEF seen, d
    <3> QED BY <3>1, <3>2, <3>3
  <2>3. CASE ~(x = b /\ i = Len(m[b].chunks))
    <3>1. seen(x, i) = Clobbered(m[x].chunks[i], t.at, End(t), bytes)
      BY <2>3
    <3> HIDE DEF seen, t
    <3> QED BY <2>1, <3>1, ClobberedPlace
  <2> QED BY <2>2, <2>3
<1> HIDE DEF seen
<1>4. ASSUME NEW x \in Buffer
      PROVE  WellFormed(m2[x]) /\ m2[x].chunks = chunks(x) /\ SamePlaces(m[x], m2[x])
  <2>1. m2[x] = [m[x] EXCEPT !.chunks = chunks(x)]
    OBVIOUS
  <2>2. \A i \in 1 .. Len(m[x].chunks) : chunks(x)[i] = seen(x, i)
    OBVIOUS
  <2>3. \A i \in 1 .. Len(m[x].chunks) : IsChunk(chunks(x)[i])
    BY <1>3, <2>2
  <2>4. chunks(x) = [i \in 1 .. Len(m[x].chunks) |-> chunks(x)[i]]
    OBVIOUS
  <2> HIDE DEF chunks, m2
  <2>5. WellFormed(m2[x]) /\ m2[x].chunks = chunks(x) /\ Len(chunks(x)) = Len(m[x].chunks)
    <3> DEFINE q == chunks(x)
               s == m[x]
    <3>1. /\ WellFormed(s) /\ q = [i \in 1 .. Len(s.chunks) |-> q[i]]
          /\ \A i \in 1 .. Len(s.chunks) : IsChunk(q[i])
      BY <1>1, <2>3, <2>4
    <3>2. m2[x] = [s EXCEPT !.chunks = q]
      BY <2>1
    <3> HIDE DEF q, s
    <3>3. /\ WellFormed([s EXCEPT !.chunks = q]) /\ [s EXCEPT !.chunks = q].chunks = q
          /\ Len(q) = Len(s.chunks)
      BY <3>1, SetChunks
    <3> QED BY <3>2, <3>3 DEF q, s
  <2> QED BY <1>3, <2>2, <2>5 DEF SamePlaces
<1>5. m2 = [x \in Buffer |-> m2[x]]
  OBVIOUS
<1> HIDE DEF m2
<1>6. Books(m2, used)
  <2>1. \A x \in Buffer : WellFormed(m2[x]) /\ SamePlaces(m[x], m2[x])
    BY <1>4
  <2> QED BY <1>5, <2>1, SameOwners DEF SamePlaces
<1>7. TailChunk(m2[b]).mem = TailChunk(m[b]).mem
  <2>1. SamePlaces(m[b], m2[b])
    BY <1>4
  <2>2. Len(m[b].chunks) \in Nat \ {0}
    BY <1>1
  <2>3. Len(m[b].chunks) \in 1 .. Len(m[b].chunks)
    BY <2>2
  <2> QED BY <2>1, <2>3 DEF SamePlaces, TailChunk, Last
<1> QED BY <1>2, <1>6, <1>7

\* The fields other than the chunks do not matter to the shape of a buffer.
LEMMA SetOthers ==
  ASSUME NEW s, WellFormed(s), NEW v
  PROVE  /\ WellFormed([s EXCEPT !.te = v]) /\ [s EXCEPT !.te = v].chunks = s.chunks
         /\ WellFormed([s EXCEPT !.rd = v]) /\ [s EXCEPT !.rd = v].chunks = s.chunks
         /\ WellFormed([s EXCEPT !.rpage = v]) /\ [s EXCEPT !.rpage = v].chunks = s.chunks
         /\ WellFormed([s EXCEPT !.rlast = v]) /\ [s EXCEPT !.rlast = v].chunks = s.chunks
<1>1. s = [chunks |-> s.chunks, rd |-> s.rd, te |-> s.te, rpage |-> s.rpage, rlast |-> s.rlast]
  BY DEF WellFormed
<1>2. ASSUME NEW t, t.chunks = s.chunks,
             t = [chunks |-> t.chunks, rd |-> t.rd, te |-> t.te, rpage |-> t.rpage, rlast |-> t.rlast]
      PROVE  WellFormed(t)
  BY <1>2 DEF WellFormed
<1>3. WellFormed([s EXCEPT !.te = v]) /\ [s EXCEPT !.te = v].chunks = s.chunks
  <2> DEFINE t == [s EXCEPT !.te = v]
  <2>1. t = [chunks |-> s.chunks, rd |-> s.rd, te |-> v, rpage |-> s.rpage, rlast |-> s.rlast]
    BY <1>1
  <2> HIDE DEF t
  <2>2. /\ t.chunks = s.chunks
        /\ t = [chunks |-> t.chunks, rd |-> t.rd, te |-> t.te, rpage |-> t.rpage, rlast |-> t.rlast]
    BY <2>1
  <2>3. WellFormed(t)
    BY <1>2, <2>2
  <2> QED BY <2>2, <2>3 DEF t
<1>4. WellFormed([s EXCEPT !.rd = v]) /\ [s EXCEPT !.rd = v].chunks = s.chunks
  <2> DEFINE t == [s EXCEPT !.rd = v]
  <2>1. t = [chunks |-> s.chunks, rd |-> v, te |-> s.te, rpage |-> s.rpage, rlast |-> s.rlast]
    BY <1>1
  <2> HIDE DEF t
  <2>2. /\ t.chunks = s.chunks
        /\ t = [chunks |-> t.chunks, rd |-> t.rd, te |-> t.te, rpage |-> t.rpage, rlast |-> t.rlast]
    BY <2>1
  <2>3. WellFormed(t)
    BY <1>2, <2>2
  <2> QED BY <2>2, <2>3 DEF t
<1>5. WellFormed([s EXCEPT !.rpage = v]) /\ [s EXCEPT !.rpage = v].chunks = s.chunks
  <2> DEFINE t == [s EXCEPT !.rpage = v]
  <2>1. t = [chunks |-> s.chunks, rd |-> s.rd, te |-> s.te, rpage |-> v, rlast |-> s.rlast]
    BY <1>1
  <2> HIDE DEF t
  <2>2. /\ t.chunks = s.chunks
        /\ t = [chunks |-> t.chunks, rd |-> t.rd, te |-> t.te, rpage |-> t.rpage, rlast |-> t.rlast]
    BY <2>1
  <2>3. WellFormed(t)
    BY <1>2, <2>2
  <2> QED BY <2>2, <2>3 DEF t
<1>6. WellFormed([s EXCEPT !.rlast = v]) /\ [s EXCEPT !.rlast = v].chunks = s.chunks
  <2> DEFINE t == [s EXCEPT !.rlast = v]
  <2>1. t = [chunks |-> s.chunks, rd |-> s.rd, te |-> s.te, rpage |-> s.rpage, rlast |-> v]
    BY <1>1
  <2> HIDE DEF t
  <2>2. /\ t.chunks = s.chunks
        /\ t = [chunks |-> t.chunks, rd |-> t.rd, te |-> t.te, rpage |-> t.rpage, rlast |-> t.rlast]
    BY <2>1
  <2>3. WellFormed(t)
    BY <1>2, <2>2
  <2> QED BY <2>2, <2>3 DEF t
<1> QED BY <1>3, <1>4, <1>5, <1>6, Zenon

\* Memory for a new tail: the chunk is put behind the others and owns page p,
\* other memory, or nothing.
LEMMA MallocedShape ==
  ASSUME PlaceAssumption, NEW s, WellFormed(s), NEW n, NEW p \in Page
  PROVE  LET t == Malloced(ChunkAdded(s), n, p)
         IN \E c : /\ WellFormed(t) /\ Extends(t, s, c) /\ TailChunk(t) = c
                   /\ OwnsItsPage(c) /\ c.mem \in {Null, Heap, p}
<1> DEFINE a == ChunkAdded(s)
           t == Malloced(a, n, p)
           Goal == \E c : /\ WellFormed(t) /\ Extends(t, s, c) /\ TailChunk(t) = c
                          /\ OwnsItsPage(c) /\ c.mem \in {Null, Heap, p}
<1>1. ASSUME NEW at, NEW first, NEW mem
      PROVE  /\ IsChunk(Empty(at, first, mem))
             /\ Empty(at, first, mem).at = at /\ Empty(at, first, mem).mem = mem
  BY DEF IsChunk, Empty
<1>2. ASSUME NEW u, NEW v, NEW c, WellFormed(v), v.chunks = u.chunks,
             Extends(u, s, c), TailChunk(u) = c
      PROVE  Extends(v, s, c) /\ TailChunk(v) = c
  BY <1>2 DEF Extends, TailChunk
<1> HIDE DEF a
<1>3. ASSUME n > PageSize PROVE Goal
  <2> DEFINE c == Empty(Heap, 0, Heap)
  <2>1. t = NewTail(a, c, n)
    BY <1>3 DEF Malloced
  <2>2. IsChunk(c) /\ OwnsItsPage(c) /\ c.mem = Heap
    BY <1>1, PlaceAssumption DEF OwnsItsPage, PlaceAssumption
  <2> HIDE DEF c, t
  <2>3. WellFormed(t) /\ Extends(t, s, c) /\ TailChunk(t) = c
    BY <2>1, <2>2, NewTailShape DEF a
  <2> QED BY <2>2, <2>3
<1>4. ASSUME ~(n > PageSize), FragmentFits(a, n) PROVE Goal
  <2> DEFINE c == Empty(a.rpage, a.rlast, Null)
             u == NewTail(a, c, PageSize)
  <2>1. t = [u EXCEPT !.rlast = PageSize]
    BY <1>4 DEF Malloced
  <2>2. IsChunk(c) /\ OwnsItsPage(c) /\ c.mem = Null
    BY <1>1, <1>4 DEF OwnsItsPage, PlaceAssumption, FragmentFits
  <2> HIDE DEF c, t
  <2>3. WellFormed(u) /\ Extends(u, s, c) /\ TailChunk(u) = c
    BY <2>2, NewTailShape DEF a
  <2> HIDE DEF u
  <2>4. WellFormed(t) /\ t.chunks = u.chunks
    BY <2>1, <2>3, SetOthers
  <2>5. Extends(t, s, c) /\ TailChunk(t) = c
    BY <1>2, <2>3, <2>4
  <2> QED BY <2>2, <2>4, <2>5
<1>5. ASSUME ~(n > PageSize), ~FragmentFits(a, n) PROVE Goal
  <2> DEFINE c == Empty(p, 0, p)
             u == NewTail(a, c, PageSize)
             v == [u EXCEPT !.rpage = p]
  <2>1. t = [u EXCEPT !.rpage = p, !.rlast = PageSize]
    BY <1>5 DEF Malloced
  <2>0. t = [v EXCEPT !.rlast = PageSize]
    BY <2>1, Zenon
  <2>2. IsChunk(c) /\ OwnsItsPage(c) /\ c.mem = p
    BY <1>1 DEF OwnsItsPage, PlaceAssumption
  <2> HIDE DEF c, t
  <2>3. WellFormed(u) /\ Extends(u, s, c) /\ TailChunk(u) = c
    BY <2>2, NewTailShape DEF a
  <2> HIDE DEF u
  <2>4. WellFormed(v) /\ v.chunks = u.chunks
    BY <2>3, SetOthers
  <2> HIDE DEF v
  <2>5. WellFormed(t) /\ t.chunks = v.chunks
    BY <2>0, <2>4, SetOthers
  <2>6. Extends(t, s, c) /\ TailChunk(t) = c
    BY <1>2, <2>3, <2>4, <2>5
  <2> QED BY <2>2, <2>5, <2>6
<1> QED BY <1>3, <1>4, <1>5, Zenon DEF a

\* One buffer changed, and the others as they were.
LEMMA OneChanged ==
  ASSUME NEW m, m = [x \in Buffer |-> m[x]], NEW b \in Buffer, NEW t
  PROVE  LET m2 == [m EXCEPT ![b] = t]
         IN /\ m2 = [x \in Buffer |-> m2[x]] /\ m2[b] = t
            /\ \A x \in Buffer \ {b} : m2[x] = m[x]
<1> DEFINE m2 == [m EXCEPT ![b] = t]
<1>1. m2 = [x \in Buffer |-> IF x = b THEN t ELSE m[x]]
  OBVIOUS
<1> HIDE DEF m2
<1>2. /\ m2 = [x \in Buffer |-> m2[x]] /\ m2[b] = t
      /\ \A x \in Buffer \ {b} : m2[x] = m[x]
  BY <1>1
<1> QED BY <1>2 DEF m2

\* Room at the tail of b keeps the books, page p being free.
LEMMA RoomyBooks ==
  ASSUME PlaceAssumption, NEW m, NEW used, Books(m, used), NEW b \in Buffer,
         NEW n, NEW p \in Page \ used
  PROVE  Books(Roomy(m, b, n, p), WithTail(Roomy(m, b, n, p), b, used))
<1> DEFINE m2 == Roomy(m, b, n, p)
           s == m[b]
<1>1. m = [x \in Buffer |-> m[x]] /\ used \subseteq Page /\ \A x \in Buffer : WellFormed(m[x])
  BY DEF Books
<1>2. m2 = [m EXCEPT ![b] = Room(s, n, p)]
  BY DEF Roomy
<1>3. /\ m2 = [x \in Buffer |-> m2[x]] /\ m2[b] = Room(s, n, p)
      /\ \A x \in Buffer \ {b} : m2[x] = m[x]
  <2> HIDE DEF m2
  <2> QED BY <1>1, <1>2, OneChanged
<1> HIDE DEF m2
<1>4. ASSUME MayRealloc(TailChunk(s)) PROVE Books(m2, WithTail(m2, b, used))
  <2> DEFINE v == Doubled(Len(TailChunk(s).data), n)
             t == [s EXCEPT !.te = v]
  <2>1. m2[b] = t /\ WellFormed(s)
    BY <1>1, <1>3, <1>4 DEF Room
  <2> HIDE DEF v, s
  <2>0. WellFormed(t) /\ t.chunks = s.chunks
    BY <2>1, SetOthers
  <2> HIDE DEF t
  <2>2. WellFormed(m2[b]) /\ m2[b].chunks = s.chunks
    BY <2>0, <2>1
  <2>3. \A x \in Buffer : WellFormed(m2[x]) /\ m2[x].chunks = m[x].chunks
    BY <1>1, <1>3, <2>2 DEF s
  <2>4. Books(m2, used)
    BY <1>3, <2>3, SameOwners
  <2> QED BY <2>4, TailClaimed
<1>5. ASSUME ~MayRealloc(TailChunk(s)) PROVE Books(m2, WithTail(m2, b, used))
  <2> DEFINE t == Malloced(ChunkAdded(s), n, p)
  <2>1. Room(s, n, p) = t
    BY <1>5 DEF Room
  <2>2. PICK c : /\ WellFormed(t) /\ Extends(t, s, c) /\ TailChunk(t) = c
                 /\ OwnsItsPage(c) /\ c.mem \in {Null, Heap, p}
    <3> HIDE DEF s
    <3>1. WellFormed(s)
      BY <1>1 DEF s
    <3> QED BY <3>1, MallocedShape
  <2> HIDE DEF t
  <2>3. c.mem \notin used
    BY <1>1, <2>2 DEF PlaceAssumption
  <2>4. Books([m EXCEPT ![b] = t], used \cup ({c.mem} \cap Page))
    BY <2>2, <2>3, ChunkAppended
  <2>5. m2 = [m EXCEPT ![b] = t] /\ TailChunk(m2[b]) = c
    BY <1>2, <1>3, <2>1, <2>2
  <2> QED BY <2>4, <2>5 DEF WithTail
<1> QED BY <1>4, <1>5 DEF m2

\* Bytes stored after the tail got room: the tail has its page still.
LEMMA StoredInRoom ==
  ASSUME NEW m, NEW used, NEW b \in Buffer, Books(m, WithTail(m, b, used)), NEW bytes
  PROVE  LET m2 == Stored(m, b, bytes) IN Books(m2, WithTail(m2, b, used))
<1> DEFINE m2 == Stored(m, b, bytes)
<1>1. Books(m2, WithTail(m, b, used)) /\ TailChunk(m2[b]).mem = TailChunk(m[b]).mem
  BY StoredBooks
<1> QED BY <1>1 DEF WithTail

\* Appending keeps the books, the page the tail took being the tail's.
LEMMA AppendedBooks ==
  ASSUME PlaceAssumption, NEW m, NEW used, Books(m, used), NEW b \in Buffer,
         NEW bytes, NEW p \in Page \ used
  PROVE  LET m2 == Appended(m, b, bytes, p) IN Books(m2, WithTail(m2, b, used))
<1> DEFINE avail == Writable(m[b])
           n == Len(bytes)
           m1 == Stored(m, b, SubSeq(bytes, 1, avail))
           r == Roomy(m1, b, n - avail, p)
           m2 == Appended(m, b, bytes, p)
<1>1. CASE n <= avail
  <2>1. m2 = Stored(m, b, bytes)
    BY <1>1 DEF Appended
  <2> HIDE DEF m2
  <2>2. Books(m2, used)
    BY <2>1, StoredBooks
  <2>3. WithTail(m2, b, used) = used
    BY <2>2, TailClaimed
  <2> QED BY <2>2, <2>3 DEF m2
<1>2. CASE ~(n <= avail)
  <2>1. m2 = Stored(r, b, SubSeq(bytes, avail + 1, n))
    BY <1>2 DEF Appended
  <2>2. Books(m1, used)
    BY StoredBooks
  <2> HIDE DEF m2, m1
  <2>3. Books(r, WithTail(r, b, used))
    BY <2>2, RoomyBooks
  <2> HIDE DEF r
  <2>4. Books(m2, WithTail(m2, b, used))
    BY <2>1, <2>3, StoredInRoom
  <2> QED BY <2>4 DEF m2
<1> QED BY <1>1, <1>2

\* Room made for bytes, and the bytes stored in it, keep the books.
LEMMA EnsuredBooks ==
  ASSUME PlaceAssumption, NEW m, NEW used, Books(m, used), NEW b \in Buffer,
         NEW n, NEW bytes, NEW p \in Page \ used
  PROVE  LET m2 == Stored(Ensured(m, b, n, p), b, bytes) IN Books(m2, WithTail(m2, b, used))
<1> DEFINE e == Ensured(m, b, n, p)
<1>1. CASE e = m
  <2>1. WithTail(m, b, used) = used
    BY TailClaimed
  <2>2. Books(e, WithTail(e, b, used))
    BY <1>1, <2>1, Zenon
  <2> HIDE DEF e
  <2>3. LET m2 == Stored(e, b, bytes) IN Books(m2, WithTail(m2, b, used))
    BY <2>2, StoredInRoom
  <2> QED BY <2>3 DEF e
<1>2. CASE e = Roomy(m, b, n, p)
  <2> HIDE DEF e
  <2>1. Books(e, WithTail(e, b, used))
    BY <1>2, RoomyBooks
  <2>2. LET m2 == Stored(e, b, bytes) IN Books(m2, WithTail(m2, b, used))
    BY <2>1, StoredInRoom
  <2> QED BY <2>2 DEF e
<1> QED BY <1>1, <1>2 DEF Ensured

\* A string referred to takes no page.
LEMMA ReferredBooks ==
  ASSUME PlaceAssumption, NEW m, NEW used, Books(m, used), NEW b \in Buffer, NEW bytes
  PROVE  Books([m EXCEPT ![b] = Referred(m[b], bytes)], used)
<1> DEFINE c == [Empty(Mapped, 0, Null) EXCEPT !.data = bytes]
           t == NewTail(ChunkAdded(m[b]), c, Len(bytes))
<1>1. Referred(m[b], bytes) = t
  BY DEF Referred
<1>2. used \subseteq Page /\ WellFormed(m[b])
  BY DEF Books
<1>3. IsChunk(Empty(Mapped, 0, Null)) /\ Empty(Mapped, 0, Null).at = Mapped
      /\ Empty(Mapped, 0, Null).mem = Null
  BY DEF IsChunk, Empty
<1>4. IsChunk(c) /\ c.at = Mapped /\ c.mem = Null
  BY <1>3, SetData
<1> HIDE DEF c
<1>5. OwnsItsPage(c) /\ c.mem \notin used /\ {c.mem} \cap Page = {}
  BY <1>2, <1>4 DEF OwnsItsPage, PlaceAssumption
<1>6. WellFormed(t) /\ Extends(t, m[b], c)
  BY <1>2, <1>4, NewTailShape
<1> HIDE DEF t
<1>7. Books([m EXCEPT ![b] = t], used \cup ({c.mem} \cap Page))
  BY <1>5, <1>6, ChunkAppended
<1>8. used \cup ({c.mem} \cap Page) = used
  BY <1>5
<1> QED BY <1>1, <1>7, <1>8, Zenon
-----------------------------------------------------------------------------
(* Reading *)

\* A read drops no more chunks than there are.
LEMMA DropsForBound ==
  ASSUME NEW s, WellFormed(s), NEW n
  PROVE  DropsFor(s, n) \in 0 .. Len(s.chunks)
<1> DEFINE S == {k \in 0 .. Len(s.chunks) : \/ k = Len(s.chunks)
                                            \/ n = Upto(s, k)
                                            \/ n < Upto(s, k + 1)}
<1>1. Len(s.chunks) \in Nat
  BY DEF WellFormed
<1>2. S \subseteq Nat /\ S # {} /\ S \subseteq 0 .. Len(s.chunks)
  BY <1>1
<1>3. DropsFor(s, n) = Min(S)
  BY DEF DropsFor
<1> HIDE DEF S
<1> QED BY <1>2, <1>3, MinOfNaturals

\* Reading gives back the pages of the chunks read to their end.
LEMMA TakenBooks ==
  ASSUME PlaceAssumption, NEW m, NEW used, Books(m, used), NEW b \in Buffer, NEW n
  PROVE  Books([m EXCEPT ![b] = Consumed(m[b], n)], used \ FreedPages(m[b], DropsFor(m[b], n)))
<1> DEFINE k == DropsFor(m[b], n)
           t == Shifted(m[b], k)
           m1 == [m EXCEPT ![b] = t]
           u == Consumed(m[b], n)
           m2 == [m EXCEPT ![b] = u]
           used2 == used \ FreedPages(m[b], k)
<1>1. m = [x \in Buffer |-> m[x]] /\ \A x \in Buffer : WellFormed(m[x])
  BY DEF Books
<1>2. k \in 0 .. Len(m[b].chunks)
  BY <1>1, DropsForBound
<1>3. u = t \/ \E v : u = [t EXCEPT !.rd = v]
  BY DEF Consumed
<1> HIDE DEF k, u
<1>4. Books(m1, used2)
  BY <1>2, ChunksDropped
<1>5. WellFormed(t)
  BY <1>1, <1>2, ShiftedShape
<1> HIDE DEF t, used2
<1>6. WellFormed(u) /\ u.chunks = t.chunks
  <2>1. CASE u = t
    BY <1>5, <2>1
  <2>2. ASSUME NEW v, u = [t EXCEPT !.rd = v] PROVE WellFormed(u) /\ u.chunks = t.chunks
    <3> DEFINE d == [t EXCEPT !.rd = v]
    <3>1. WellFormed(d) /\ d.chunks = t.chunks
      BY <1>5, SetOthers
    <3>2. u = d
      BY <2>2
    <3> HIDE DEF d
    <3> QED BY <3>1, <3>2
  <2> QED BY <1>3, <2>1, <2>2
<1>7. /\ m1 = [x \in Buffer |-> m1[x]] /\ m1[b] = t
      /\ \A x \in Buffer \ {b} : m1[x] = m[x]
  BY <1>1, OneChanged
<1>8. /\ m2 = [x \in Buffer |-> m2[x]] /\ m2[b] = u
      /\ \A x \in Buffer \ {b} : m2[x] = m[x]
  BY <1>1, OneChanged
<1> HIDE DEF m1, m2
<1>9. \A x \in Buffer : WellFormed(m2[x]) /\ m2[x].chunks = m1[x].chunks
  BY <1>1, <1>6, <1>7, <1>8
<1>10. Books(m2, used2)
  BY <1>4, <1>8, <1>9, SameOwners
<1> QED BY <1>10 DEF m2, u, used2, k
-----------------------------------------------------------------------------
(* The actions *)

\* Giving up the first k chunks keeps the books.
LEMMA GivesBackBooks ==
  ASSUME PlaceAssumption, BufferInv, NEW b \in Buffer, NEW k \in 0 .. Len(buf[b].chunks)
  PROVE  Books(Flushed(b, k), inUse \ FreedPages(buf[b], k))
BY ChunksDropped DEF BufferInv, Flushed

\* A write goes on after the io has taken k chunks.
LEMMA GoesOnBooks ==
  ASSUME PlaceAssumption, BufferInv, NEW b \in Buffer, NEW k \in 0 .. Len(buf[b].chunks),
         NEW w, GoesOn(b, k, w)
  PROVE  BufferInv'
<1> DEFINE m == Flushed(b, k)
           used == inUse \ FreedPages(buf[b], k)
           bytes == NextBytes(b, w.n)
<1>1. Books(m, used)
  BY GivesBackBooks
<1>2. CASE GivesBack(b, k)
  BY <1>1, <1>2 DEF GivesBack, BufferInv
<1>3. ASSUME NEW p \in FreePages(b, k), PoolAfter(b, k, buf'),
             \/ buf' = Appended(m, b, bytes, p)
             \/ buf' = Stored(Ensured(m, b, w.require, p), b, bytes)
      PROVE  BufferInv'
  <2>1. p \in Page \ used
    BY DEF FreePages
  <2>2. inUse' = WithTail(buf', b, used)
    BY <1>3 DEF PoolAfter, WithTail
  <2> HIDE DEF m, used, bytes
  <2>3. Books(buf', WithTail(buf', b, used))
    <3>1. CASE buf' = Appended(m, b, bytes, p)
      BY <1>1, <2>1, <3>1, AppendedBooks
    <3>2. CASE buf' = Stored(Ensured(m, b, w.require, p), b, bytes)
      BY <1>1, <2>1, <3>2, EnsuredBooks
    <3> QED BY <1>3, <3>1, <3>2
  <2> QED BY <2>2, <2>3 DEF BufferInv
<1>4. \/ GivesBack(b, k)
      \/ \E p \in FreePages(b, k) :
           /\ buf' = IF w.op = "append" THEN Appended(m, b, bytes, p)
                     ELSE Stored(Ensured(m, b, w.require, p), b, bytes)
           /\ PoolAfter(b, k, buf')
  <2> HIDE DEF m, bytes
  <2> QED BY Zenon DEF GoesOn, m, bytes
<1> HIDE DEF m, bytes
<1>5. ASSUME NEW p \in FreePages(b, k),
             buf' = IF w.op = "append" THEN Appended(m, b, bytes, p)
                    ELSE Stored(Ensured(m, b, w.require, p), b, bytes),
             PoolAfter(b, k, buf')
      PROVE  BufferInv'
  <2>1. \/ buf' = Appended(m, b, bytes, p)
        \/ buf' = Stored(Ensured(m, b, w.require, p), b, bytes)
    BY <1>5
  <2> QED BY <1>3, <1>5, <2>1
<1> QED BY <1>2, <1>4, <1>5

\* Chunks can be counted in any state.
LEMMA SomeChunks ==
  ASSUME BufferInv, NEW b \in Buffer
  PROVE  /\ Len(buf[b].chunks) \in Nat \ {0}
         /\ {0, 1, Len(buf[b].chunks)} \subseteq 0 .. Len(buf[b].chunks)
<1>1. Len(buf[b].chunks) \in Nat \ {0}
  BY DEF BufferInv, Books, WellFormed
<1> QED BY <1>1

\* A write begins.
LEMMA BeginsBooks ==
  ASSUME PlaceAssumption, BufferInv, NEW b \in Buffer, NEW w, Begins(b, w)
  PROVE  BufferInv'
<1>1. CASE GoesOn(b, 0, w)
  BY <1>1, GoesOnBooks, SomeChunks
<1>2. CASE UNCHANGED <<buf, inUse, stamp, call>>
  BY <1>2 DEF BufferInv
<1> QED BY <1>1, <1>2 DEF Begins

\* The io returns to a write that waits for it.
LEMMA WriteReturnsBooks ==
  ASSUME PlaceAssumption, BufferInv, NEW b \in Buffer, WriteReturns(b)
  PROVE  BufferInv'
<1>1. CASE GoesOn(b, 1, busy[b])
  BY <1>1, GoesOnBooks, SomeChunks
<1>2. CASE GivesBack(b, 1)
  BY <1>2, GivesBackBooks, SomeChunks DEF GivesBack, BufferInv
<1> QED BY <1>1, <1>2 DEF WriteReturns

\* A call takes bytes from the front.
LEMMA TakesBooks ==
  ASSUME PlaceAssumption, BufferInv, NEW b \in Buffer, NEW op, NEW n, NEW in, NEW raised,
         Takes(op, b, n, in, raised)
  PROVE  BufferInv'
BY TakenBooks DEF Takes, BufferInv

\* Bytes come from the io.
LEMMA FeedBooks ==
  ASSUME PlaceAssumption, BufferInv, NEW b \in Buffer, NEW n, Feed(b, n)
  PROVE  BufferInv'
<1>1. FreedPages(buf[b], 0) = {}
  BY DEF FreedPages
<1>2. Books(buf, inUse)
  BY DEF BufferInv
<1>3. PICK p \in FreePages(b, 0) :
        buf' = Appended(buf, b, NextBytes(b, n), p) /\ PoolAfter(b, 0, buf')
  BY DEF Feed
<1>4. p \in Page \ inUse /\ inUse' = WithTail(buf', b, inUse)
  BY <1>1, <1>3 DEF FreePages, PoolAfter, WithTail
<1>5. Books(buf', WithTail(buf', b, inUse))
  BY <1>2, <1>3, <1>4, AppendedBooks
<1> QED BY <1>4, <1>5 DEF BufferInv

\* A long string is referred to, not copied.
LEMMA ReferBooks ==
  ASSUME PlaceAssumption, BufferInv, NEW b \in Buffer, NEW n, Refer(b, n)
  PROVE  BufferInv'
BY ReferredBooks DEF Refer, BufferInv

\* The garbage collector takes a buffer.
LEMMA CollectedBooks ==
  ASSUME PlaceAssumption, BufferInv, NEW b \in Buffer, Collected(b)
  PROVE  BufferInv'
<1> DEFINE k == Len(buf[b].chunks)
           used == inUse \ FreedPages(buf[b], k)
           t == Shifted(buf[b], k)
           m1 == [buf EXCEPT ![b] = t]
<1>1. buf = [x \in Buffer |-> buf[x]] /\ \A x \in Buffer : WellFormed(buf[x])
  BY DEF BufferInv, Books
<1>2. k \in 0 .. Len(buf[b].chunks)
  BY SomeChunks
<1>3. Books(m1, used)
  BY <1>2, ChunksDropped DEF BufferInv
<1>4. buf' = [buf EXCEPT ![b] = Fresh] /\ inUse' = used
  BY DEF Collected
<1>5. t.chunks = <<NullChunk>>
  BY <1>1, <1>2, ShiftedShape
<1>6. WellFormed(Fresh) /\ Fresh.chunks = <<NullChunk>>
  BY DEF WellFormed, Fresh, IsChunk, NullChunk
<1> HIDE DEF t, used
<1>7. m1[b] = t /\ \A x \in Buffer \ {b} : m1[x] = buf[x]
  BY <1>1, OneChanged
<1>8. /\ buf' = [x \in Buffer |-> buf'[x]] /\ buf'[b] = Fresh
      /\ \A x \in Buffer \ {b} : buf'[x] = buf[x]
  BY <1>1, <1>4, OneChanged
<1> HIDE DEF m1
<1>9. \A x \in Buffer : WellFormed(buf'[x]) /\ buf'[x].chunks = m1[x].chunks
  BY <1>1, <1>5, <1>6, <1>7, <1>8
<1>10. Books(buf', used)
  BY <1>3, <1>8, <1>9, SameOwners
<1> QED BY <1>4, <1>10 DEF BufferInv

\* Buffers begin with no page.
LEMMA InitBooks == PlaceAssumption /\ Init => BufferInv
<1> SUFFICES ASSUME PlaceAssumption, Init PROVE BufferInv
  OBVIOUS
<1>1. buf = [b \in Buffer |-> Fresh] /\ inUse = {}
  BY DEF Init
<1>2. \A b \in Buffer : buf[b] = Fresh
  BY <1>1
<1>3. /\ WellFormed(Fresh) /\ Fresh.chunks = <<NullChunk>>
  BY DEF WellFormed, Fresh, IsChunk, NullChunk
<1>4. NullChunk.mem \notin Page /\ OwnsItsPage(NullChunk)
  BY DEF NullChunk, OwnsItsPage, PlaceAssumption
<1>5. \A b \in Buffer : WellFormed(buf[b])
  BY <1>2, <1>3
<1>6. \A b \in Buffer : \A i \in 1 .. Len(buf[b].chunks) : buf[b].chunks[i] = NullChunk
  BY <1>2, <1>3
<1>7. Claims(buf, inUse) /\ Claimed(buf, inUse) /\ Unshared(buf)
  BY <1>1, <1>4, <1>6 DEF Claims, Claimed, Unshared
<1>8. OwnedOnce(buf, inUse)
  BY <1>5, <1>7, OwnedByIndex
<1>9. buf = [b \in Buffer |-> buf[b]]
  BY <1>1
<1>10. \A b \in Buffer : \A i \in 1 .. Len(buf[b].chunks) : OwnsItsPage(buf[b].chunks[i])
  BY <1>4, <1>6
<1> QED BY <1>1, <1>5, <1>8, <1>9, <1>10 DEF BufferInv, Books

\* Every step keeps the books.
LEMMA NextBooks == PlaceAssumption /\ BufferInv /\ [Next]_vars => BufferInv'
<1> SUFFICES ASSUME PlaceAssumption, BufferInv, [Next]_vars PROVE BufferInv'
  OBVIOUS
<1>1. CASE UNCHANGED vars
  BY <1>1 DEF vars, BufferInv
<1>2. ASSUME NEW b \in Buffer, NEW n, AppendString(b, n) PROVE BufferInv'
  <2>1. CASE \E w : Begins(b, w)
    BY <2>1, BeginsBooks
  <2>2. CASE Refer(b, n)
    BY <2>2, ReferBooks
  <2> QED BY <1>2, <2>1, <2>2 DEF AppendString
<1>3. ASSUME NEW b \in Buffer, NEW e, WriteEnsured(b, e[1], e[2]) PROVE BufferInv'
  BY <1>3, BeginsBooks DEF WriteEnsured
<1>4. ASSUME NEW b \in Buffer, NEW n, Read(b, n) PROVE BufferInv'
  <2>1. \E in, raised : Takes("read", b, n, in, raised)
    BY <1>4 DEF Read
  <2> QED BY <2>1, TakesBooks
<1>5. ASSUME NEW b \in Buffer, NEW n, ReadAll(b, n) PROVE BufferInv'
  <2>1. CASE Takes("read_all", b, n, <<>>, FALSE)
    BY <2>1, TakesBooks
  <2>2. CASE UNCHANGED <<buf, inUse>>
    BY <2>2 DEF BufferInv
  <2> QED BY <1>5, <2>1, <2>2 DEF ReadAll
<1>6. ASSUME NEW b \in Buffer, NEW n, Feed(b, n) PROVE BufferInv'
  BY <1>6, FeedBooks
<1>7. ASSUME NEW b \in Buffer, FeedEnds(b) \/ DirectReturns(b) \/ WriteRaises(b) PROVE BufferInv'
  <2>1. UNCHANGED <<buf, inUse>>
    BY <1>7 DEF FeedEnds, DirectReturns, WriteRaises
  <2> QED BY <2>1 DEF BufferInv
<1>8. ASSUME NEW b \in Buffer, ReadAllFed(b) PROVE BufferInv'
  BY <1>8, TakesBooks DEF ReadAllFed
<1>9. ASSUME NEW b \in Buffer, WriteReturns(b) PROVE BufferInv'
  BY <1>9, WriteReturnsBooks
<1>10. ASSUME NEW b \in Buffer, Flush(b) PROVE BufferInv'
  BY <1>10, BeginsBooks DEF Flush
<1>11. ASSUME NEW b \in Buffer, Clear(b) PROVE BufferInv'
  BY <1>11, GivesBackBooks, SomeChunks DEF Clear, GivesBack, BufferInv
<1>12. ASSUME NEW b \in Buffer, Collected(b) PROVE BufferInv'
  BY <1>12, CollectedBooks
<1> QED BY <1>1, <1>2, <1>3, <1>4, <1>5, <1>6, <1>7, <1>8, <1>9, <1>10, <1>11, <1>12 DEF Next
-----------------------------------------------------------------------------
(* What follows for every behaviour *)

\* In every reachable state the chunks of all buffers agree with the pool,
\* whatever is appended, flushed, read, fed, cleared or collected, and at
\* whichever chunk a flush stops (msgpack_buffer_t and msgpack_rmem_t).
THEOREM BooksKept == Spec => []BufferInv
<1>1. Init => BufferInv
  BY InitBooks, PlaceAssumption
<1>2. BufferInv /\ [Next]_vars => BufferInv'
  BY NextBooks, PlaceAssumption
<1> QED BY <1>1, <1>2, PTL DEF Spec

\* No page is lost and none is given back twice, in either build of the code.
THEOREM PagesReturned == Spec => []PagesOwnedOnce
<1>1. BufferInv => PagesOwnedOnce
  BY DEF BufferInv, Books, PagesOwnedOnce
<1> QED BY <1>1, BooksKept, PTL

\* Two chunks in one page are one chunk, when page ends are not reused.
LEMMA OwnPage ==
  ASSUME PlaceAssumption, ~ReuseFragment, BufferInv,
         NEW b \in Buffer, NEW x \in Buffer,
         NEW i \in 1 .. Len(buf[b].chunks), NEW j \in 1 .. Len(buf[x].chunks),
         buf[b].chunks[i].at \in Page
  PROVE  /\ buf[b].chunks[i].at \in inUse
         /\ buf[b].chunks[i].at = buf[x].chunks[j].at => b = x /\ i = j
<1>1. \A y \in Buffer : \A k \in 1 .. Len(buf[y].chunks) : OwnsItsPage(buf[y].chunks[k])
  BY DEF BufferInv, Books
<1>2. Claims(buf, inUse) /\ Unshared(buf)
  BY OwnedByIndex DEF BufferInv, Books
<1>3. buf[b].chunks[i].mem = buf[b].chunks[i].at
  BY <1>1 DEF OwnsItsPage
<1>4. buf[b].chunks[i].at \in inUse
  BY <1>2, <1>3 DEF Claims
<1>5. ASSUME buf[b].chunks[i].at = buf[x].chunks[j].at PROVE b = x /\ i = j
  <2>1. buf[x].chunks[j].mem = buf[x].chunks[j].at
    BY <1>1, <1>5 DEF OwnsItsPage
  <2>2. buf[b].chunks[i].mem \in Page /\ buf[b].chunks[i].mem = buf[x].chunks[j].mem
    BY <1>3, <1>5, <2>1
  <2> QED BY <1>2, <2>2, Zenon DEF Unshared
<1> QED BY <1>4, <1>5

\* In the build that does not reuse page ends, unread bytes never lie in a
\* page the pool may hand out again.
THEOREM UnreadStaysLive ==
  ASSUME ~ReuseFragment PROVE Spec => []UnreadInLivePages
<1>1. ASSUME BufferInv PROVE UnreadInLivePages
  <2>1. \A b \in Buffer : DOMAIN buf[b].chunks = 1 .. Len(buf[b].chunks)
    BY <1>1, ChunksSeq DEF BufferInv, Books
  <2> SUFFICES ASSUME NEW b \in Buffer, NEW i \in DOMAIN buf[b].chunks,
                      buf[b].chunks[i].at \in Page
               PROVE  buf[b].chunks[i].at \in inUse
    BY DEF UnreadInLivePages
  <2>2. i \in 1 .. Len(buf[b].chunks)
    BY <2>1
  <2> QED BY <1>1, <2>2, OwnPage, PlaceAssumption
<1>2. BufferInv => UnreadInLivePages
  BY <1>1
<1> QED BY <1>2, BooksKept, PTL

\* In that build no buffer writes where another chunk has bytes or another
\* tail has room.
THEOREM RoomIsExclusive ==
  ASSUME ~ReuseFragment PROVE Spec => []RoomExclusive
<1>1. ASSUME BufferInv,
             NEW b \in Buffer, NEW x \in Buffer, NEW i \in DOMAIN buf[x].chunks,
             x # b \/ i # Len(buf[x].chunks),
             NEW from, NEW to, NEW from2, NEW to2
      PROVE  Cells(TailChunk(buf[b]), from, to) \cap Cells(buf[x].chunks[i], from2, to2) = {}
  <2>1. \A y \in Buffer : /\ DOMAIN buf[y].chunks = 1 .. Len(buf[y].chunks)
                          /\ Len(buf[y].chunks) \in 1 .. Len(buf[y].chunks)
    <3> SUFFICES ASSUME NEW y \in Buffer
                 PROVE  /\ DOMAIN buf[y].chunks = 1 .. Len(buf[y].chunks)
                        /\ Len(buf[y].chunks) \in 1 .. Len(buf[y].chunks)
      OBVIOUS
    <3>1. DOMAIN buf[y].chunks = 1 .. Len(buf[y].chunks)
      BY <1>1, ChunksSeq DEF BufferInv, Books
    <3>2. Len(buf[y].chunks) \in Nat \ {0}
      BY <1>1, SomeChunks
    <3> QED BY <3>1, <3>2
  <2>2. TailChunk(buf[b]) = buf[b].chunks[Len(buf[b].chunks)]
    BY DEF TailChunk, Last
  <2>3. ~(TailChunk(buf[b]).at \in Page /\ TailChunk(buf[b]).at = buf[x].chunks[i].at)
    <3> SUFFICES ASSUME TailChunk(buf[b]).at \in Page,
                        TailChunk(buf[b]).at = buf[x].chunks[i].at
                 PROVE  FALSE
      OBVIOUS
    <3>1. Len(buf[b].chunks) \in 1 .. Len(buf[b].chunks) /\ i \in 1 .. Len(buf[x].chunks)
      BY <1>1, <2>1
    <3>2. b = x /\ Len(buf[b].chunks) = i
      BY <1>1, <2>2, <3>1, OwnPage, PlaceAssumption
    <3> QED BY <1>1, <3>2
  <2> QED BY <2>3 DEF Cells
<1>2. BufferInv => RoomExclusive
  BY <1>1, Zenon DEF RoomExclusive
<1> QED BY <1>2, BooksKept, PTL
-----------------------------------------------------------------------------
(* How the chunks of a buffer are laid out *)

\* what chunk i has left to read
Left(s, i) == IF i = 1 THEN End(s.chunks[1]) - s.rd ELSE Len(s.chunks[i].data)

\* Memory that is not a page starts with the chunk, and a page is not longer
\* than PageSize.
Placed(c) ==
  /\ c \in Chunk
  /\ c.at = Null => c = NullChunk
  /\ c.at \in {Heap, Mapped} => c.first = 0
  /\ c.at \in Page => End(c) <= PageSize

\* read_buffer is in the top chunk, tail_buffer_end behind the tail's bytes.
Laid(q, rd, te) ==
  /\ Len(q) \in Nat \ {0}
  /\ q = [i \in 1 .. Len(q) |-> q[i]]
  /\ \A i \in 1 .. Len(q) : Placed(q[i])
  /\ rd \in Nat /\ te \in Nat
  /\ q[1].first <= rd /\ rd <= End(q[1])
  /\ End(q[Len(q)]) <= te
  /\ q[Len(q)].at \in Page => te <= PageSize
  /\ q[Len(q)].at = Null => te = 0

\* There is a fragment only of a page.
Fragment(rpage, rlast) ==
  /\ rpage \in Page \cup {Null} /\ rlast \in 0 .. PageSize
  /\ rpage = Null => rlast = PageSize

Sound(s) ==
  /\ s = [chunks |-> s.chunks, rd |-> s.rd, te |-> s.te, rpage |-> s.rpage, rlast |-> s.rlast]
  /\ Laid(s.chunks, s.rd, s.te)
  /\ Fragment(s.rpage, s.rlast)

\* No chunk is empty that holds memory; or none but the tail, which is about
\* to be written.
Full(s) == \A i \in 1 .. Len(s.chunks) - 1 : Left(s, i) > 0
Tight(s) == s.chunks = <<NullChunk>> \/ \A i \in 1 .. Len(s.chunks) : Left(s, i) > 0
-----------------------------------------------------------------------------
(* What a sound buffer looks like *)

\* A chunk has the fields msgpack_buffer_chunk_t has.
LEMMA ChunkFields ==
  ASSUME NEW c \in Chunk
  PROVE  /\ IsChunk(c) /\ c.at \in Page \cup {Null, Heap, Mapped} /\ c.first \in Nat
         /\ c.data \in Seq(Bytes) /\ c.mem \in Page \cup {Null, Heap}
         /\ Len(c.data) \in Nat /\ End(c) \in Nat
<1>1. /\ IsChunk(c) /\ c.at \in Page \cup {Null, Heap, Mapped} /\ c.first \in Nat
      /\ c.data \in Seq(Bytes) /\ c.mem \in Page \cup {Null, Heap}
  BY DEF Chunk, IsChunk
<1>2. Len(c.data) \in Nat
  BY <1>1, LenProperties
<1> QED BY <1>1, <1>2 DEF End

\* The chunks of a sound buffer, and the two that read and append look at.
LEMMA SoundFields ==
  ASSUME NEW s, Sound(s)
  PROVE  /\ WellFormed(s)
         /\ Len(s.chunks) \in Nat \ {0}
         /\ s.chunks \in Seq(Chunk) /\ DOMAIN s.chunks = 1 .. Len(s.chunks)
         /\ 1 \in 1 .. Len(s.chunks) /\ Len(s.chunks) \in 1 .. Len(s.chunks)
         /\ TopChunk(s) = s.chunks[1] /\ TailChunk(s) = s.chunks[Len(s.chunks)]
         /\ \A i \in 1 .. Len(s.chunks) : Placed(s.chunks[i]) /\ s.chunks[i] \in Chunk /\ Left(s, i) \in Nat
         /\ s.rd \in Nat /\ s.te \in Nat
         /\ Writable(s) \in Nat
         /\ Writable(s) = s.te - End(s.chunks[Len(s.chunks)])
<1> DEFINE q == s.chunks
           n == Len(q)
<1>1. /\ n \in Nat \ {0} /\ q = [i \in 1 .. n |-> q[i]]
      /\ \A i \in 1 .. n : Placed(q[i])
      /\ s.rd \in Nat /\ s.te \in Nat
      /\ q[1].first <= s.rd /\ s.rd <= End(q[1]) /\ End(q[n]) <= s.te
      /\ s = [chunks |-> s.chunks, rd |-> s.rd, te |-> s.te, rpage |-> s.rpage, rlast |-> s.rlast]
  BY DEF Sound, Laid
<1>2. \A i \in 1 .. n : q[i] \in Chunk
  BY <1>1 DEF Placed
<1>3. 1 \in 1 .. n /\ n \in 1 .. n
  BY <1>1
<1>4. \A i \in 1 .. n : IsChunk(q[i]) /\ Len(q[i].data) \in Nat /\ End(q[i]) \in Nat
  BY <1>2, ChunkFields
<1>5. WellFormed(s)
  BY <1>1, <1>4 DEF WellFormed
<1>6. q \in Seq(Chunk) /\ DOMAIN q = 1 .. n
  <2> HIDE DEF q
  <2>1. q \in [1 .. n -> Chunk]
    BY <1>1, <1>2
  <2> HIDE DEF n
  <2> QED BY <1>1, <2>1, SeqDef
<1>7. TopChunk(s) = q[1] /\ TailChunk(s) = q[n]
  BY <1>1, <1>6 DEF TopChunk, TailChunk, Last
<1>8. \A i \in 1 .. n : Left(s, i) \in Nat
  BY <1>1, <1>3, <1>4 DEF Left
<1>9. Writable(s) \in Nat /\ Writable(s) = s.te - End(q[n])
  BY <1>1, <1>3, <1>4, <1>7 DEF Writable
<1> QED BY <1>1, <1>2, <1>3, <1>5, <1>6, <1>7, <1>8, <1>9

\* The chunk without memory.
LEMMA NullPlaced ==
  ASSUME PlaceAssumption
  PROVE  Placed(NullChunk) /\ End(NullChunk) = 0 /\ NullChunk.first = 0 /\ NullChunk.at = Null
         /\ NullChunk.data = <<>> /\ NullChunk.mem = Null
<1>1. /\ NullChunk.at = Null /\ NullChunk.first = 0 /\ NullChunk.data = <<>> /\ NullChunk.mem = Null
      /\ NullChunk \in Chunk
  BY DEF NullChunk, Chunk
<1>2. End(NullChunk) = 0
  BY <1>1 DEF End
<1> QED BY <1>1, <1>2 DEF Placed, PlaceAssumption

\* A buffer without memory.
LEMMA DrainedSound ==
  ASSUME PlaceAssumption, NEW rpage, NEW rlast, Fragment(rpage, rlast), NEW t,
         t = [chunks |-> <<NullChunk>>, rd |-> 0, te |-> 0, rpage |-> rpage, rlast |-> rlast]
  PROVE  Sound(t) /\ Tight(t) /\ t.chunks = <<NullChunk>>
<1>1. /\ t.chunks = <<NullChunk>> /\ t.rd = 0 /\ t.te = 0 /\ t.rpage = rpage /\ t.rlast = rlast
      /\ t = [chunks |-> t.chunks, rd |-> t.rd, te |-> t.te, rpage |-> t.rpage, rlast |-> t.rlast]
  OBVIOUS
<1>2. Len(t.chunks) = 1 /\ t.chunks[1] = NullChunk /\ t.chunks = [i \in 1 .. 1 |-> t.chunks[i]]
  BY <1>1
<1>3. Laid(t.chunks, t.rd, t.te)
  BY <1>1, <1>2, NullPlaced DEF Laid, PlaceAssumption
<1> QED BY <1>1, <1>3 DEF Sound, Tight
-----------------------------------------------------------------------------
(* Chunks go *)

\* The first k chunks go, and the others have as much left as they had.
LEMMA ShiftedSound ==
  ASSUME PlaceAssumption, NEW s, Sound(s), NEW k \in 0 .. Len(s.chunks)
  PROVE  LET t == Shifted(s, k) IN
         /\ Sound(t)
         /\ \/ k = Len(s.chunks) /\ t.chunks = <<NullChunk>>
            \/ /\ k < Len(s.chunks) /\ Len(t.chunks) = Len(s.chunks) - k
               /\ t.rd = IF k = 0 THEN s.rd ELSE s.chunks[k + 1].first
               /\ t.te = s.te
               /\ \A i \in 1 .. Len(t.chunks) : /\ t.chunks[i] = s.chunks[i + k]
                                                /\ Left(t, i) = Left(s, i + k)
<1> DEFINE t == Shifted(s, k)
           n == Len(s.chunks)
           Goal == /\ Sound(t)
                   /\ \/ k = n /\ t.chunks = <<NullChunk>>
                      \/ /\ k < n /\ Len(t.chunks) = n - k
                         /\ t.rd = IF k = 0 THEN s.rd ELSE s.chunks[k + 1].first
                         /\ t.te = s.te
                         /\ \A i \in 1 .. Len(t.chunks) : /\ t.chunks[i] = s.chunks[i + k]
                                                          /\ Left(t, i) = Left(s, i + k)
<1>1. /\ n \in Nat \ {0} /\ s.chunks \in Seq(Chunk) /\ WellFormed(s) /\ 1 \in 1 .. n /\ n \in 1 .. n
      /\ \A i \in 1 .. n : Placed(s.chunks[i]) /\ s.chunks[i] \in Chunk
      /\ s.rd \in Nat /\ s.te \in Nat
  BY SoundFields
<1>2. s = [chunks |-> s.chunks, rd |-> s.rd, te |-> s.te, rpage |-> s.rpage, rlast |-> s.rlast]
      /\ Fragment(s.rpage, s.rlast)
  BY DEF Sound
<1>3. ASSUME k = n PROVE Goal
  <2>1. t = [chunks |-> <<NullChunk>>, rd |-> 0, te |-> 0, rpage |-> s.rpage, rlast |-> s.rlast]
    BY <1>2, <1>3 DEF Shifted
  <2> HIDE DEF t
  <2>2. Sound(t) /\ t.chunks = <<NullChunk>>
    BY <1>2, <2>1, DrainedSound
  <2> QED BY <1>3, <2>2
<1>4. ASSUME k # n PROVE Goal
  <2> DEFINE q == SubSeq(s.chunks, k + 1, n)
             rd == IF k = 0 THEN s.rd ELSE s.chunks[k + 1].first
  <2>1. k \in Nat /\ k < n
    BY <1>1, <1>4
  <2>2. q \in Seq(Chunk) /\ Len(q) = n - k /\ \A i \in 1 .. n - k : q[i] = s.chunks[i + k]
    BY <1>1, CutOf
  <2>3. t = [s EXCEPT !.chunks = q, !.rd = rd]
    BY <1>4 DEF Shifted
  <2> HIDE DEF q, rd, t
  <2>4. [s EXCEPT !.chunks = q]
          = [chunks |-> q, rd |-> s.rd, te |-> s.te, rpage |-> s.rpage, rlast |-> s.rlast]
    BY <1>2
  <2>5. [[chunks |-> q, rd |-> s.rd, te |-> s.te, rpage |-> s.rpage, rlast |-> s.rlast] EXCEPT !.rd = rd]
          = [chunks |-> q, rd |-> rd, te |-> s.te, rpage |-> s.rpage, rlast |-> s.rlast]
    OBVIOUS
  <2>6. t = [chunks |-> q, rd |-> rd, te |-> s.te, rpage |-> s.rpage, rlast |-> s.rlast]
    BY <2>3, <2>4, <2>5, Zenon
  <2>7. /\ t.chunks = q /\ t.rd = rd /\ t.te = s.te /\ t.rpage = s.rpage /\ t.rlast = s.rlast
        /\ t = [chunks |-> t.chunks, rd |-> t.rd, te |-> t.te, rpage |-> t.rpage, rlast |-> t.rlast]
    BY <2>6
  <2>8. q = [i \in 1 .. Len(q) |-> q[i]] /\ Len(q) \in Nat \ {0}
    BY <1>1, <2>1, <2>2, LenProperties
  <2>9. \A i \in 1 .. Len(q) : q[i] = s.chunks[i + k] /\ i + k \in 1 .. n
    BY <1>1, <2>1, <2>2
  <2>10. q[1] = s.chunks[k + 1] /\ k + 1 \in 1 .. n /\ q[Len(q)] = s.chunks[n]
    <3>1. 1 \in 1 .. Len(q) /\ Len(q) \in 1 .. Len(q) /\ Len(q) + k = n /\ 1 + k = k + 1
      BY <1>1, <2>1, <2>2
    <3> QED BY <2>9, <3>1
  <2>11. /\ s.chunks[1].first <= s.rd /\ s.rd <= End(s.chunks[1]) /\ End(s.chunks[n]) <= s.te
         /\ s.chunks[n].at \in Page => s.te <= PageSize
         /\ s.chunks[n].at = Null => s.te = 0
    BY DEF Sound, Laid
  <2>12. \A i \in 1 .. n : s.chunks[i].first \in Nat /\ Len(s.chunks[i].data) \in Nat
    BY <1>1, ChunkFields
  <2>13. k = 0 => q[1] = s.chunks[1]
    <3>1. k = 0 => k + 1 = 1
      OBVIOUS
    <3> QED BY <2>10, <3>1
  <2>14. rd \in Nat /\ q[1].first <= rd /\ rd <= End(q[1])
    BY <1>1, <2>10, <2>11, <2>12, <2>13 DEF rd, End
  <2>15. Laid(q, rd, s.te)
    BY <1>1, <2>8, <2>9, <2>10, <2>11, <2>14 DEF Laid
  <2>16. Sound(t)
    BY <1>2, <2>7, <2>15 DEF Sound
  <2>17. ASSUME NEW i \in 1 .. Len(q) PROVE Left(t, i) = Left(s, i + k)
    <3>1. CASE k = 0
      <4>1. i + k = i /\ q[i] = s.chunks[i] /\ rd = s.rd
        BY <2>1, <2>8, <2>9, <3>1 DEF rd
      <4> QED BY <2>7, <2>13, <3>1, <4>1 DEF Left
    <3>2. CASE k # 0 /\ i = 1
      <4>1. i + k = k + 1 /\ i + k # 1
        BY <2>1, <3>2
      <4>2. rd = q[1].first /\ q[1].first \in Nat /\ Len(q[1].data) \in Nat
        BY <2>10, <2>12, <3>2 DEF rd
      <4>3. Left(t, i) = Len(q[1].data)
        BY <2>7, <3>2, <4>2 DEF Left, End
      <4>4. Left(s, i + k) = Len(s.chunks[k + 1].data)
        BY <4>1 DEF Left
      <4> QED BY <2>10, <4>3, <4>4
    <3>3. CASE k # 0 /\ i # 1
      <4>1. i + k # 1 /\ q[i] = s.chunks[i + k]
        BY <2>1, <2>8, <2>9, <3>3
      <4> QED BY <2>7, <3>3, <4>1 DEF Left
    <3> QED BY <3>1, <3>2, <3>3
  <2>18. t.rd = (IF k = 0 THEN s.rd ELSE s.chunks[k + 1].first)
    BY <2>7 DEF rd
  <2> QED BY <2>1, <2>2, <2>7, <2>9, <2>16, <2>17, <2>18
<1>5. Goal
  BY <1>3, <1>4
<1> QED BY <1>5

-----------------------------------------------------------------------------
(* What chunks have left, and reading it *)

\* What is left of each chunk is a sequence of bytes.
LEMMA PartsOf ==
  ASSUME NEW s, Sound(s)
  PROVE  /\ Parts(s) \in Seq(Seq(Bytes)) /\ Len(Parts(s)) = Len(s.chunks) /\ Parts(s) # <<>>
         /\ \A i \in 1 .. Len(s.chunks) : Parts(s)[i] \in Seq(Bytes) /\ Len(Parts(s)[i]) = Left(s, i)
         /\ Parts(s)[1] = SubSeq(s.chunks[1].data, s.rd - s.chunks[1].first + 1, Len(s.chunks[1].data))
         /\ \A i \in 1 .. Len(s.chunks) : i # 1 => Parts(s)[i] = s.chunks[i].data
<1> DEFINE n == Len(s.chunks)
           d == s.chunks[1].data
           j == s.rd - s.chunks[1].first
           first == SubSeq(d, j + 1, Len(d))
           p == Parts(s)
<1>1. /\ n \in Nat \ {0} /\ DOMAIN s.chunks = 1 .. n /\ TopChunk(s) = s.chunks[1]
      /\ 1 \in 1 .. n /\ s.rd \in Nat
      /\ \A i \in 1 .. n : s.chunks[i] \in Chunk
  BY SoundFields
<1>2. \A i \in 1 .. n : /\ s.chunks[i].data \in Seq(Bytes) /\ Len(s.chunks[i].data) \in Nat
                        /\ s.chunks[i].first \in Nat
  BY <1>1, ChunkFields
<1>3. s.chunks[1].first <= s.rd /\ s.rd <= End(s.chunks[1])
  BY DEF Sound, Laid
<1>4. j \in 0 .. Len(d)
  BY <1>1, <1>2, <1>3 DEF End
<1>5. first \in Seq(Bytes) /\ Len(first) = Len(d) - j
  <2>1. d \in Seq(Bytes)
    BY <1>1, <1>2
  <2> HIDE DEF d, j
  <2> QED BY <1>4, <2>1, CutOf
<1>6. Len(d) - j = Left(s, 1)
  <2>1. Len(d) \in Nat /\ s.chunks[1].first \in Nat
    BY <1>1, <1>2
  <2> QED BY <1>1, <2>1 DEF Left, End
<1>7. p = [i \in 1 .. n |-> IF i = 1 THEN first ELSE s.chunks[i].data]
  <2>1. s.rd - TopChunk(s).first + 1 = j + 1 /\ TopChunk(s).data = d
    BY <1>1
  <2> HIDE DEF j, d
  <2> QED BY <1>1, <2>1, Zenon DEF Parts, p, first
<1> HIDE DEF p, first, d, j
<1>8. p[1] = first /\ \A i \in 1 .. n : i # 1 => p[i] = s.chunks[i].data
  BY <1>1, <1>7
<1>9. \A i \in 1 .. n : p[i] \in Seq(Bytes)
  BY <1>2, <1>5, <1>8
<1>10. p \in [1 .. n -> Seq(Bytes)]
  BY <1>7, <1>9
<1>11. p \in Seq(Seq(Bytes)) /\ Len(p) = n
  <2>1. p \in Seq(Seq(Bytes))
    <3> DEFINE SS == Seq(Bytes)
    <3> HIDE DEF SS, n
    <3> QED BY <1>1, <1>10, SeqDef DEF SS
  <2> QED BY <1>1, <1>10, <2>1, LenProperties
<1>12. p # <<>>
  BY <1>1, <1>11, EmptySeq
<1>13. \A i \in 1 .. n : Len(p[i]) = Left(s, i)
  <2>1. ASSUME NEW i \in 1 .. n PROVE Len(p[i]) = Left(s, i)
    <3>1. CASE i = 1
      BY <1>5, <1>6, <1>8, <3>1
    <3>2. CASE i # 1
      BY <1>8, <3>2 DEF Left
    <3> QED BY <3>1, <3>2
  <2> QED BY <2>1
<1> QED BY <1>8, <1>9, <1>11, <1>12, <1>13 DEF first, d, j, p

\* What the first chunks have left adds up.
LEMMA UptoSteps ==
  ASSUME NEW s, Sound(s)
  PROVE  /\ Upto(s, 0) = 0
         /\ \A k \in 0 .. Len(s.chunks) : Upto(s, k) \in Nat
         /\ \A k \in 0 .. Len(s.chunks) - 1 : Upto(s, k + 1) = Upto(s, k) + Left(s, k + 1)
<1> DEFINE n == Len(s.chunks)
           p == Parts(s)
<1>1. /\ p \in Seq(Seq(Bytes)) /\ Len(p) = n /\ n \in Nat
      /\ \A i \in 1 .. n : p[i] \in Seq(Bytes) /\ Len(p[i]) = Left(s, i)
  BY PartsOf, SoundFields
<1>2. \A k : Upto(s, k) = Len(FlattenSeq(SubSeq(p, 1, k)))
  BY DEF Upto
<1> HIDE DEF p
<1>3. Upto(s, 0) = 0
  <2>1. SubSeq(p, 1, 0) = <<>>
    BY SubSeqEmpty
  <2>2. Upto(s, 0) = Len(<<>>)
    BY <1>2, <2>1, FlattenNone
  <2> QED BY <2>2, EmptyIsSeq
<1>4. ASSUME NEW k \in 0 .. n PROVE Upto(s, k) \in Nat
  <2>1. FlattenSeq(SubSeq(p, 1, k)) \in Seq(Bytes)
    BY <1>1, FlattenSplit
  <2> QED BY <1>2, <2>1, LenProperties
<1>5. ASSUME NEW k \in 0 .. n - 1 PROVE Upto(s, k + 1) = Upto(s, k) + Left(s, k + 1)
  <2> DEFINE x == FlattenSeq(SubSeq(p, 1, k))
             y == FlattenSeq(SubSeq(p, 1, k + 1))
             z == p[k + 1]
  <2>1. x \in Seq(Bytes) /\ z \in Seq(Bytes) /\ y = x \o z
    BY <1>1, FlattenOneMore
  <2>2. Upto(s, k) = Len(x) /\ Upto(s, k + 1) = Len(y)
    BY <1>2
  <2>3. Len(z) = Left(s, k + 1)
    <3>1. k + 1 \in 1 .. n
      BY <1>1
    <3> QED BY <1>1, <3>1
  <2> HIDE DEF x, y, z
  <2>4. Len(y) = Len(x) + Len(z)
    BY ONLY <2>1, ConcatProperties
  <2> QED BY <2>2, <2>3, <2>4
<1> QED BY <1>3, <1>4, <1>5

\* Reading n bytes drops the chunks that have no more than those.
LEMMA DropsForFacts ==
  ASSUME NEW s, Sound(s), NEW n \in Nat
  PROVE  LET k == DropsFor(s, n) IN
         /\ k \in 0 .. Len(s.chunks)
         /\ Upto(s, k) <= n
         /\ k = Len(s.chunks) \/ n = Upto(s, k) \/ n < Upto(s, k + 1)
<1> DEFINE S == {j \in 0 .. Len(s.chunks) : \/ j = Len(s.chunks)
                                            \/ n = Upto(s, j)
                                            \/ n < Upto(s, j + 1)}
           k == DropsFor(s, n)
<1>1. Len(s.chunks) \in Nat \ {0}
  BY SoundFields
<1>2. S \subseteq Nat /\ S # {}
  BY <1>1
<1>3. k = Min(S)
  BY DEF DropsFor
<1> HIDE DEF k
<1>4. k \in S /\ \A j \in S : k <= j
  <2> HIDE DEF S
  <2> QED BY <1>2, <1>3, MinOfNaturals
<1>5. Upto(s, k) <= n
  <2>1. CASE k = 0
    BY <2>1, UptoSteps
  <2>2. CASE k # 0
    <3>1. k - 1 \in 0 .. Len(s.chunks) - 1 /\ k - 1 \in 0 .. Len(s.chunks) /\ (k - 1) + 1 = k
          /\ ~(k <= k - 1) /\ k - 1 # Len(s.chunks)
      BY <1>1, <1>4, <2>2
    <3>2. k - 1 \notin S
      BY <1>4, <3>1
    <3>3. ~(n < Upto(s, k))
      BY <3>1, <3>2
    <3>4. Upto(s, k) \in Nat
      BY <1>4, UptoSteps
    <3> QED BY <3>3, <3>4
  <2> QED BY <2>1, <2>2
<1> QED BY <1>4, <1>5 DEF k

\* A read leaves the chunks behind what it took, and part of the first of them
\* only if that is not read to its end.
LEMMA ConsumedSound ==
  ASSUME PlaceAssumption, NEW s, Sound(s), NEW n \in Nat
  PROVE  LET t == Consumed(s, n)
             k == DropsFor(s, n)
         IN /\ Sound(t)
            /\ Tight(s) => Tight(t)
            /\ \/ k = Len(s.chunks) /\ t.chunks = <<NullChunk>>
               \/ /\ k < Len(s.chunks) /\ Len(t.chunks) = Len(s.chunks) - k
                  /\ n - Upto(s, k) \in 0 .. Left(s, k + 1)
                  /\ t.rd = (IF k = 0 THEN s.rd ELSE s.chunks[k + 1].first) + (n - Upto(s, k))
                  /\ \A i \in 1 .. Len(t.chunks) : t.chunks[i] = s.chunks[i + k]
<1> DEFINE c == Len(s.chunks)
           k == DropsFor(s, n)
           u == Shifted(s, k)
           t == Consumed(s, n)
           d == n - Upto(s, k)
           rd == IF k = 0 THEN s.rd ELSE s.chunks[k + 1].first
           Goal == /\ Sound(t)
                   /\ Tight(s) => Tight(t)
                   /\ \/ k = c /\ t.chunks = <<NullChunk>>
                      \/ /\ k < c /\ Len(t.chunks) = c - k
                         /\ d \in 0 .. Left(s, k + 1)
                         /\ t.rd = rd + d
                         /\ \A i \in 1 .. Len(t.chunks) : t.chunks[i] = s.chunks[i + k]
<1>1. /\ k \in 0 .. c /\ Upto(s, k) <= n
      /\ k = c \/ n = Upto(s, k) \/ n < Upto(s, k + 1)
  BY DropsForFacts
<1>2. c \in Nat \ {0} /\ \A i \in 1 .. c : Left(s, i) \in Nat
  BY SoundFields
<1>3. /\ Sound(u)
      /\ \/ k = c /\ u.chunks = <<NullChunk>>
         \/ /\ k < c /\ Len(u.chunks) = c - k
            /\ u.rd = rd
            /\ u.te = s.te
            /\ \A i \in 1 .. Len(u.chunks) : /\ u.chunks[i] = s.chunks[i + k]
                                             /\ Left(u, i) = Left(s, i + k)
  BY <1>1, ShiftedSound
<1>4. t = IF k = c THEN u ELSE [u EXCEPT !.rd = u.rd + n - Upto(s, k)]
  BY DEF Consumed
<1> HIDE DEF k, u, t, rd
<1>5. ASSUME k = c PROVE Goal
  <2>1. u.chunks = <<NullChunk>> /\ t = u
    BY <1>2, <1>3, <1>4, <1>5
  <2> QED BY <1>3, <1>5, <2>1 DEF Tight
<1>6. ASSUME k # c PROVE Goal
  <2>1. /\ k < c /\ Len(u.chunks) = c - k /\ u.rd = rd /\ u.te = s.te
        /\ \A i \in 1 .. Len(u.chunks) : u.chunks[i] = s.chunks[i + k] /\ Left(u, i) = Left(s, i + k)
    BY <1>2, <1>3, <1>6
  <2>2. k \in Nat /\ k + 1 \in 1 .. c /\ k \in 0 .. c /\ k \in 0 .. c - 1
    BY <1>1, <1>2, <2>1
  <2>3. /\ Upto(s, k) \in Nat /\ Upto(s, k + 1) = Upto(s, k) + Left(s, k + 1)
        /\ Left(s, k + 1) \in Nat
    BY <1>2, <2>2, UptoSteps
  <2>4. d \in Nat /\ (d = 0 \/ d < Left(s, k + 1)) /\ d \in 0 .. Left(s, k + 1)
    BY <1>1, <1>6, <2>3
  <2>5. u.rd \in Nat /\ 1 \in 1 .. Len(u.chunks)
    BY <1>3, SoundFields
  <2>6. t = [u EXCEPT !.rd = u.rd + d]
    <3>1. u.rd + n - Upto(s, k) = u.rd + d
      BY <2>3, <2>5
    <3> HIDE DEF d
    <3> QED BY <1>4, <1>6, <3>1, Zenon
  <2> HIDE DEF d
  <2>7. t = [chunks |-> u.chunks, rd |-> u.rd + d, te |-> u.te, rpage |-> u.rpage, rlast |-> u.rlast]
    <3>1. u = [chunks |-> u.chunks, rd |-> u.rd, te |-> u.te, rpage |-> u.rpage, rlast |-> u.rlast]
      BY <1>3 DEF Sound
    <3> QED BY <2>6, <3>1
  <2>8. /\ t.chunks = u.chunks /\ t.rd = u.rd + d /\ t.te = u.te /\ t.rpage = u.rpage
        /\ t.rlast = u.rlast
        /\ t = [chunks |-> t.chunks, rd |-> t.rd, te |-> t.te, rpage |-> t.rpage, rlast |-> t.rlast]
    BY <2>7
  <2>9. Left(u, 1) = Left(s, k + 1)
    <3>1. 1 + k = k + 1
      BY <2>2
    <3> QED BY <2>1, <2>5, <3>1
  <2>10. Left(u, 1) = End(u.chunks[1]) - u.rd /\ End(u.chunks[1]) \in Nat
    BY <1>3, <2>5, SoundFields, ChunkFields DEF Left
  <2>11. t.rd \in Nat /\ u.chunks[1].first <= t.rd /\ t.rd <= End(u.chunks[1])
    <3>1. u.chunks[1].first <= u.rd /\ u.chunks[1].first \in Nat
      BY <1>3, <2>5, SoundFields, ChunkFields DEF Sound, Laid
    <3> QED BY <2>3, <2>4, <2>5, <2>8, <2>9, <2>10, <3>1, SMTT(30)
  <2>12. Sound(t)
    <3>1. Laid(u.chunks, u.rd, u.te) /\ Fragment(u.rpage, u.rlast)
      BY <1>3 DEF Sound
    <3>2. Laid(t.chunks, t.rd, t.te)
      BY <2>8, <2>11, <3>1 DEF Laid
    <3> QED BY <2>8, <3>1, <3>2 DEF Sound
  <2>13. Left(t, 1) = Left(s, k + 1) - d
    BY <2>3, <2>4, <2>5, <2>8, <2>9, <2>10 DEF Left
  <2>14. ASSUME Tight(s) PROVE Tight(t)
    <3>1. CASE s.chunks = <<NullChunk>>
      <4>1. c = 1 /\ k = 0 /\ s.chunks[1] = NullChunk
        BY <2>1, <2>2, <3>1
      <4>2. Len(t.chunks) = 1 /\ t.chunks[1] = NullChunk
        <5>1. 1 + k = 1 /\ c - k = 1
          BY <4>1
        <5> QED BY <2>1, <2>5, <2>8, <4>1, <5>1
      <4>3. t.chunks \in Seq(Chunk)
        BY <2>12, SoundFields
      <4>4. t.chunks = <<NullChunk>>
        BY <4>2, <4>3
      <4> QED BY <4>4 DEF Tight
    <3>2. CASE \A i \in 1 .. c : Left(s, i) > 0
      <4>1. Left(t, 1) > 0
        <5>1. Left(s, k + 1) > 0
          BY <2>2, <3>2
        <5> QED BY <2>3, <2>4, <2>13, <5>1
      <4>2. ASSUME NEW i \in 1 .. Len(t.chunks), i # 1 PROVE Left(t, i) > 0
        <5>1. i + k \in 1 .. c /\ i + k # 1 /\ i \in 1 .. Len(u.chunks)
          BY <1>2, <2>1, <2>2, <2>8, <4>2
        <5>2. Left(t, i) = Left(u, i)
          BY <2>8, <4>2 DEF Left
        <5> QED BY <2>1, <3>2, <5>1, <5>2
      <4>3. \A i \in 1 .. Len(t.chunks) : Left(t, i) > 0
        BY <4>1, <4>2
      <4> QED BY <4>3 DEF Tight
    <3> QED BY <2>14, <3>1, <3>2 DEF Tight
  <2> QED BY <2>1, <2>4, <2>8, <2>12, <2>14
<1>7. Goal
  BY <1>5, <1>6
<1> QED BY <1>7 DEF t, k, d, rd

-----------------------------------------------------------------------------
(* Bytes are stored at the tail *)

\* A chunk keeps its place, however long its bytes become.
LEMMA DataSet ==
  ASSUME NEW c \in Chunk, NEW data \in Seq(Bytes)
  PROVE  LET d == [c EXCEPT !.data = data]
         IN /\ d \in Chunk /\ d.at = c.at /\ d.first = c.first /\ d.mem = c.mem /\ d.data = data
            /\ End(d) = c.first + Len(data)
<1> DEFINE d == [c EXCEPT !.data = data]
<1>1. c = [at |-> c.at, first |-> c.first, data |-> c.data, mem |-> c.mem]
  BY ChunkFields DEF IsChunk
<1>2. d = [at |-> c.at, first |-> c.first, data |-> data, mem |-> c.mem]
  BY <1>1
<1>3. /\ c.at \in Page \cup {Null, Heap, Mapped} /\ c.first \in Nat /\ c.mem \in Page \cup {Null, Heap}
  BY ChunkFields
<1> HIDE DEF d
<1>4. d \in Chunk
  BY <1>2, <1>3 DEF Chunk
<1>5. d.at = c.at /\ d.first = c.first /\ d.mem = c.mem /\ d.data = data
  BY <1>2
<1>6. End(d) = c.first + Len(data)
  BY <1>5 DEF End
<1> QED BY <1>4, <1>5, <1>6 DEF d

\* A chunk that shares cells with the tail has other bytes, as many.
LEMMA ClobberedPlaced ==
  ASSUME PlaceAssumption, NEW c, Placed(c), NEW p, NEW off, NEW bytes \in Seq(Bytes)
  PROVE  LET d == Clobbered(c, p, off, bytes)
         IN /\ Placed(d) /\ d.at = c.at /\ d.first = c.first /\ d.mem = c.mem
            /\ Len(d.data) = Len(c.data) /\ End(d) = End(c)
            /\ c.at \notin Page \/ c.at # p => d = c
<1> DEFINE d == Clobbered(c, p, off, bytes)
           data == [i \in DOMAIN c.data |->
                      LET k == c.first + i - off IN IF k \in DOMAIN bytes THEN bytes[k] ELSE c.data[i]]
           Goal == /\ Placed(d) /\ d.at = c.at /\ d.first = c.first /\ d.mem = c.mem
                   /\ Len(d.data) = Len(c.data) /\ End(d) = End(c)
                   /\ c.at \notin Page \/ c.at # p => d = c
<1>1. ASSUME c.at # p \/ p \notin Page PROVE Goal
  <2>1. d = c
    BY <1>1 DEF Clobbered
  <2> QED BY <2>1
<1>2. ASSUME ~(c.at # p \/ p \notin Page) PROVE Goal
  <2>1. d = [c EXCEPT !.data = data]
    BY <1>2 DEF Clobbered
  <2>2. c \in Chunk /\ c.at \in Page /\ End(c) <= PageSize
    BY <1>2 DEF Placed
  <2>3. c.data \in Seq(Bytes) /\ Len(c.data) \in Nat /\ c.data \in [1 .. Len(c.data) -> Bytes]
        /\ DOMAIN c.data = 1 .. Len(c.data)
    BY <2>2, ChunkFields, LenProperties
  <2>4. bytes \in [1 .. Len(bytes) -> Bytes] /\ DOMAIN bytes = 1 .. Len(bytes)
    BY LenProperties
  <2>5. \A i \in DOMAIN c.data : data[i] \in Bytes
    <3> SUFFICES ASSUME NEW i \in DOMAIN c.data PROVE data[i] \in Bytes
      OBVIOUS
    <3> DEFINE k == c.first + i - off
    <3>1. data[i] = IF k \in DOMAIN bytes THEN bytes[k] ELSE c.data[i]
      BY Zenon
    <3> HIDE DEF k, data
    <3>2. c.data[i] \in Bytes
      BY <2>3
    <3>3. k \in DOMAIN bytes => bytes[k] \in Bytes
      BY <2>4
    <3> QED BY <3>1, <3>2, <3>3
  <2>6. data \in [1 .. Len(c.data) -> Bytes]
    <3>1. data = [i \in 1 .. Len(c.data) |-> data[i]]
      BY <2>3, Zenon
    <3> HIDE DEF data
    <3> QED BY <2>3, <2>5, <3>1
  <2> HIDE DEF data, d
  <2>7. data \in Seq(Bytes) /\ Len(data) = Len(c.data)
    <3>1. data \in Seq(Bytes)
      <4> DEFINE l == Len(c.data)
                 B == Bytes
      <4>1. l \in Nat /\ data \in [1 .. l -> B]
        BY <2>3, <2>6
      <4> HIDE DEF l, B
      <4>2. data \in Seq(B)
        BY <4>1, SeqDef
      <4> QED BY <4>2 DEF B
    <3> QED BY <2>3, <2>6, <3>1, LenProperties
  <2>8. /\ d \in Chunk /\ d.at = c.at /\ d.first = c.first /\ d.mem = c.mem /\ d.data = data
        /\ End(d) = c.first + Len(data)
    BY <2>1, <2>2, <2>7, DataSet
  <2>9. End(d) = End(c)
    BY <2>7, <2>8 DEF End
  <2>10. Placed(d)
    BY <2>2, <2>8, <2>9 DEF Placed, PlaceAssumption
  <2> QED BY <1>2, <2>7, <2>8, <2>9, <2>10
<1>3. Goal
  BY <1>1, <1>2
<1> QED BY <1>3

\* A buffer with as many chunks at the same places, the tail's bytes ending in
\* its room.
LEMMA ChunksSet ==
  ASSUME NEW s, Sound(s), NEW q, q = [i \in 1 .. Len(s.chunks) |-> q[i]],
         \A i \in 1 .. Len(s.chunks) :
           /\ Placed(q[i]) /\ q[i].first = s.chunks[i].first /\ q[i].at = s.chunks[i].at
           /\ End(q[i]) >= End(s.chunks[i]),
         End(q[Len(s.chunks)]) <= s.te
  PROVE  LET t == [s EXCEPT !.chunks = q]
         IN /\ Sound(t) /\ t.chunks = q /\ Len(q) = Len(s.chunks) /\ t.rd = s.rd /\ t.te = s.te
            /\ t.rpage = s.rpage /\ t.rlast = s.rlast
<1> DEFINE t == [s EXCEPT !.chunks = q]
           n == Len(s.chunks)
<1>1. s = [chunks |-> s.chunks, rd |-> s.rd, te |-> s.te, rpage |-> s.rpage, rlast |-> s.rlast]
      /\ Fragment(s.rpage, s.rlast)
  BY DEF Sound
<1>2. t = [chunks |-> q, rd |-> s.rd, te |-> s.te, rpage |-> s.rpage, rlast |-> s.rlast]
  BY <1>1, SetChunksField
<1> HIDE DEF t
<1>3. /\ t.chunks = q /\ t.rd = s.rd /\ t.te = s.te /\ t.rpage = s.rpage /\ t.rlast = s.rlast
      /\ t = [chunks |-> t.chunks, rd |-> t.rd, te |-> t.te, rpage |-> t.rpage, rlast |-> t.rlast]
  BY <1>2
<1>4. /\ n \in Nat \ {0} /\ 1 \in 1 .. n /\ n \in 1 .. n /\ s.rd \in Nat /\ s.te \in Nat
      /\ \A i \in 1 .. n : End(s.chunks[i]) \in Nat
  BY SoundFields, ChunkFields
<1>5. \A i \in 1 .. n : q[i] \in Chunk
  BY DEF Placed
<1>6. Len(q) = n
  <2>1. q \in [1 .. n -> Chunk]
    BY <1>5
  <2> HIDE DEF n
  <2>2. q \in Seq(Chunk)
    BY <1>4, <2>1, SeqDef
  <2> QED BY <1>4, <2>1, <2>2, LenProperties
<1>7. s.chunks[1].first <= s.rd /\ s.rd <= End(s.chunks[1])
      /\ (s.chunks[n].at \in Page => s.te <= PageSize)
      /\ (s.chunks[n].at = Null => s.te = 0)
  BY DEF Sound, Laid
<1>8. q[1].first <= s.rd /\ s.rd <= End(q[1])
  <2>1. End(q[1]) \in Nat /\ q[1].first = s.chunks[1].first /\ End(q[1]) >= End(s.chunks[1])
    BY <1>4, <1>5, ChunkFields
  <2> QED BY <1>4, <1>7, <2>1
<1>9. Laid(q, s.rd, s.te)
  BY <1>4, <1>6, <1>7, <1>8 DEF Laid
<1>10. Sound(t)
  BY <1>1, <1>3, <1>9 DEF Sound
<1> QED BY <1>3, <1>6, <1>10 DEF t

\* all buffers sound
AllSound(m) == m = [x \in Buffer |-> m[x]] /\ \A x \in Buffer : Sound(m[x])

\* Bytes that fit are stored behind the tail's; every other chunk keeps its
\* place and its length.
LEMMA StoredSound ==
  ASSUME PlaceAssumption, NEW m, AllSound(m), NEW b \in Buffer, NEW bytes \in Seq(Bytes),
         Len(bytes) <= Writable(m[b])
  PROVE  LET t == TailChunk(m[b])
             n == Len(m[b].chunks)
             r == Stored(m, b, bytes)
         IN /\ AllSound(r)
            /\ r[b].chunks[n].data = t.data \o bytes /\ r[b].chunks[n].first = t.first
            /\ r[b].chunks[n].at = t.at
            /\ Left(r[b], n) = Left(m[b], n) + Len(bytes)
            /\ \A x \in Buffer : /\ Len(r[x].chunks) = Len(m[x].chunks) /\ r[x].rd = m[x].rd
                                 /\ r[x].te = m[x].te
            /\ \A x \in Buffer : \A i \in 1 .. Len(m[x].chunks) : x # b \/ i # n =>
                 /\ r[x].chunks[i] = Clobbered(m[x].chunks[i], t.at, End(t), bytes)
                 /\ Left(r[x], i) = Left(m[x], i)
<1> DEFINE t == TailChunk(m[b])
           n == Len(m[b].chunks)
           grown == [t EXCEPT !.data = t.data \o bytes]
           seen(x, i) == IF x = b /\ i = Len(m[b].chunks)
                         THEN [t EXCEPT !.data = t.data \o bytes]
                         ELSE Clobbered(m[x].chunks[i], t.at, End(t), bytes)
           q(x) == [i \in 1 .. Len(m[x].chunks) |-> seen(x, i)]
           r == [x \in Buffer |-> [m[x] EXCEPT !.chunks = q(x)]]
<1>1. m = [x \in Buffer |-> m[x]] /\ \A x \in Buffer : Sound(m[x])
  BY DEF AllSound
<1>2. \A x \in Buffer : DOMAIN m[x].chunks = 1 .. Len(m[x].chunks)
  BY <1>1, SoundFields
<1>3. Stored(m, b, bytes) = r
  BY <1>2 DEF Stored
<1>4. /\ n \in 1 .. n /\ 1 \in 1 .. n /\ t = m[b].chunks[n] /\ t \in Chunk /\ Placed(t)
      /\ Writable(m[b]) = m[b].te - End(t) /\ m[b].te \in Nat /\ n \in Nat \ {0}
  <2>1. Sound(m[b])
    BY <1>1
  <2> HIDE DEF n, t
  <2> QED BY <2>1, SoundFields DEF n, t
<1>5. /\ t.data \in Seq(Bytes) /\ Len(bytes) \in Nat /\ Len(t.data) \in Nat /\ t.first \in Nat
      /\ End(t) = t.first + Len(t.data)
  BY <1>4, ChunkFields, LenProperties DEF End
<1> DEFINE data == t.data \o bytes
<1>6. data \in Seq(Bytes) /\ Len(data) = Len(t.data) + Len(bytes)
  <2> DEFINE old == t.data
  <2>1. old \in Seq(Bytes) /\ bytes \in Seq(Bytes)
    BY <1>5
  <2> HIDE DEF old
  <2>2. old \o bytes \in Seq(Bytes) /\ Len(old \o bytes) = Len(old) + Len(bytes)
    BY ONLY <2>1, ConcatProperties
  <2> QED BY <2>2 DEF old
<1>7. /\ grown \in Chunk /\ grown.at = t.at /\ grown.first = t.first /\ grown.data = data
      /\ End(grown) = End(t) + Len(bytes)
  <2> HIDE DEF t, data
  <2>1. LET d == [t EXCEPT !.data = data]
        IN /\ d \in Chunk /\ d.at = t.at /\ d.first = t.first /\ d.mem = t.mem /\ d.data = data
           /\ End(d) = t.first + Len(data)
    BY <1>4, <1>6, DataSet
  <2>2. End(t) + Len(bytes) = t.first + Len(data)
    BY <1>5, <1>6
  <2> QED BY <2>1, <2>2, Zenon DEF data
<1>8. Placed(grown) /\ End(grown) <= m[b].te
  <2> HIDE DEF t, data, n, grown
  <2>1. End(grown) <= m[b].te
    <3> DEFINE w == Writable(m[b])
               e == End(t)
               l == Len(bytes)
    <3>1. /\ l <= w /\ w = m[b].te - e /\ End(grown) = e + l
          /\ m[b].te \in Nat /\ e \in Nat /\ l \in Nat
      <4>1. e \in Nat
        BY <1>4, ChunkFields
      <4> QED BY <1>4, <1>5, <1>7, <4>1
    <3> HIDE DEF w, e, l
    <3> QED BY <3>1
  <2>2. (t.at \in Page => m[b].te <= PageSize) /\ (t.at = Null => m[b].te = 0)
    BY <1>1, <1>4 DEF Sound, Laid, n
  <2>3. End(grown) \in Nat
    BY <1>7, ChunkFields
  <2>4. t.at = Null => grown = NullChunk
    <3> HAVE t.at = Null
    <3>1. End(grown) = 0 /\ t = NullChunk
      BY <1>4, <2>1, <2>2, <2>3 DEF Placed
    <3>2. Len(bytes) = 0 /\ Len(data) = 0
      BY <1>5, <1>6, <1>7, <3>1
    <3>3. data = <<>>
      BY <1>6, <3>2, EmptySeq
    <3>4. grown = [NullChunk EXCEPT !.data = <<>>]
      BY <3>1, <3>3, Zenon DEF grown, data
    <3> QED BY <3>4 DEF NullChunk
  <2>5. t.at \in Page => End(grown) <= PageSize
    BY <1>4, <2>1, <2>2, <2>3, SizeAssumption
  <2>6. t.at \in {Heap, Mapped} => t.first = 0
    BY <1>4 DEF Placed
  <2>7. /\ grown.at = Null => grown = NullChunk
        /\ grown.at \in {Heap, Mapped} => grown.first = 0
        /\ grown.at \in Page => End(grown) <= PageSize
    BY <1>7, <2>4, <2>5, <2>6
  <2>8. grown \in Chunk
    BY <1>7
  <2>9. Placed(grown)
    BY <2>7, <2>8 DEF Placed
  <2> QED BY <2>1, <2>9
<1>9. seen(b, n) = grown
  OBVIOUS
<1>10. ASSUME NEW x \in Buffer, NEW i \in 1 .. Len(m[x].chunks), x # b \/ i # n
       PROVE  /\ seen(x, i) = Clobbered(m[x].chunks[i], t.at, End(t), bytes)
              /\ Placed(seen(x, i)) /\ End(seen(x, i)) = End(m[x].chunks[i])
              /\ seen(x, i).at = m[x].chunks[i].at /\ seen(x, i).first = m[x].chunks[i].first
              /\ Len(seen(x, i).data) = Len(m[x].chunks[i].data)
  <2>1. seen(x, i) = Clobbered(m[x].chunks[i], t.at, End(t), bytes)
    BY <1>10
  <2>2. Placed(m[x].chunks[i])
    BY <1>1, SoundFields
  <2> HIDE DEF seen, t, n
  <2> QED BY <2>1, <2>2, ClobberedPlaced
<1> HIDE DEF seen, grown, t
<1>11. ASSUME NEW x \in Buffer
       PROVE  /\ Sound(r[x]) /\ r[x].chunks = q(x) /\ Len(r[x].chunks) = Len(m[x].chunks)
              /\ r[x].rd = m[x].rd /\ r[x].te = m[x].te
              /\ \A i \in 1 .. Len(m[x].chunks) : r[x].chunks[i] = seen(x, i)
  <2>1. r[x] = [m[x] EXCEPT !.chunks = q(x)]
    OBVIOUS
  <2>2. \A i \in 1 .. Len(m[x].chunks) : q(x)[i] = seen(x, i)
    OBVIOUS
  <2>3. q(x) = [i \in 1 .. Len(m[x].chunks) |-> q(x)[i]]
    OBVIOUS
  <2> HIDE DEF q, r
  <2>4. ASSUME NEW i \in 1 .. Len(m[x].chunks)
        PROVE  /\ Placed(q(x)[i]) /\ q(x)[i].first = m[x].chunks[i].first
               /\ q(x)[i].at = m[x].chunks[i].at
               /\ End(q(x)[i]) >= End(m[x].chunks[i])
    <3>0. End(m[x].chunks[i]) \in Nat
      BY <1>1, SoundFields, ChunkFields
    <3>1. CASE x = b /\ i = n
      <4>1. q(x)[i] = grown /\ m[x].chunks[i] = t
        BY <1>4, <1>9, <2>2, <3>1
      <4>2. End(grown) >= End(t)
        BY <1>5, <1>7
      <4> QED BY <1>7, <1>8, <4>1, <4>2
    <3>2. CASE x # b \/ i # n
      <4>1. q(x)[i] = seen(x, i)
        BY <2>2
      <4> QED BY <1>10, <3>0, <3>2, <4>1
    <3> QED BY <3>1, <3>2
  <2>5. End(q(x)[Len(m[x].chunks)]) <= m[x].te
    <3>1. /\ Len(m[x].chunks) \in 1 .. Len(m[x].chunks) /\ m[x].te \in Nat
          /\ End(m[x].chunks[Len(m[x].chunks)]) <= m[x].te
      BY <1>1, SoundFields DEF Sound, Laid
    <3>2. CASE x = b
      BY <1>4, <1>8, <1>9, <2>2, <3>2
    <3>3. CASE x # b
      BY <1>10, <2>2, <3>1, <3>3
    <3> QED BY <3>2, <3>3
  <2> DEFINE s == m[x]
             qq == q(x)
  <2>6. /\ Sound(s) /\ qq = [i \in 1 .. Len(s.chunks) |-> qq[i]]
        /\ \A i \in 1 .. Len(s.chunks) :
             /\ Placed(qq[i]) /\ qq[i].first = s.chunks[i].first /\ qq[i].at = s.chunks[i].at
             /\ End(qq[i]) >= End(s.chunks[i])
        /\ End(qq[Len(s.chunks)]) <= s.te
    BY <1>1, <2>3, <2>4, <2>5
  <2>7. r[x] = [s EXCEPT !.chunks = qq]
    BY <2>1
  <2> HIDE DEF s, qq
  <2>8. LET u == [s EXCEPT !.chunks = qq]
        IN /\ Sound(u) /\ u.chunks = qq /\ Len(qq) = Len(s.chunks) /\ u.rd = s.rd /\ u.te = s.te
           /\ u.rpage = s.rpage /\ u.rlast = s.rlast
    BY <2>6, ChunksSet, Zenon
  <2>9. /\ Sound(r[x]) /\ r[x].chunks = qq /\ Len(qq) = Len(s.chunks) /\ r[x].rd = s.rd
        /\ r[x].te = s.te
    BY <2>7, <2>8, Zenon
  <2> QED BY <2>2, <2>9 DEF s, qq
<1>12. AllSound(r)
  <2>1. r = [x \in Buffer |-> r[x]]
    OBVIOUS
  <2> HIDE DEF r
  <2> QED BY <1>11, <2>1 DEF AllSound
<1>13. r[b].chunks[n] = grown
  BY <1>4, <1>9, <1>11
<1> HIDE DEF r
<1>14. Left(r[b], n) = Left(m[b], n) + Len(bytes)
  <2>1. m[b].rd \in Nat /\ End(t) \in Nat
    BY <1>1, <1>4, SoundFields, ChunkFields
  <2>2. CASE n = 1
    <3>1. Left(r[b], n) = End(grown) - m[b].rd /\ Left(m[b], n) = End(t) - m[b].rd
      BY <1>4, <1>11, <1>13, <2>2 DEF Left
    <3> QED BY <1>5, <1>7, <2>1, <3>1
  <2>3. CASE n # 1
    <3>1. Left(r[b], n) = Len(grown.data) /\ Left(m[b], n) = Len(t.data)
      BY <1>4, <1>13, <2>3 DEF Left
    <3> QED BY <1>6, <1>7, <3>1
  <2> QED BY <2>2, <2>3
<1>15. ASSUME NEW x \in Buffer, NEW i \in 1 .. Len(m[x].chunks), x # b \/ i # n
       PROVE  /\ r[x].chunks[i] = Clobbered(m[x].chunks[i], t.at, End(t), bytes)
              /\ Left(r[x], i) = Left(m[x], i)
  <2>1. r[x].chunks[i] = seen(x, i) /\ r[x].rd = m[x].rd
    BY <1>11
  <2>2. /\ seen(x, i) = Clobbered(m[x].chunks[i], t.at, End(t), bytes)
        /\ End(seen(x, i)) = End(m[x].chunks[i]) /\ Len(seen(x, i).data) = Len(m[x].chunks[i].data)
    BY <1>10, <1>15
  <2> QED BY <2>1, <2>2 DEF Left
<1>16. /\ r[b].chunks[n].data = t.data \o bytes /\ r[b].chunks[n].first = t.first
       /\ r[b].chunks[n].at = t.at
  BY <1>7, <1>13, Zenon
<1>17. \A x \in Buffer : /\ Len(r[x].chunks) = Len(m[x].chunks) /\ r[x].rd = m[x].rd
                         /\ r[x].te = m[x].te
  BY <1>11
<1> QED BY <1>3, <1>12, <1>14, <1>15, <1>16, <1>17, Zenon DEF t

-----------------------------------------------------------------------------
(* The tail gets room *)

\* t is s with chunk c behind the others, or in place of the one without memory.
Grows(t, s, c) ==
  \/ /\ s.chunks # <<NullChunk>>
     /\ Len(t.chunks) = Len(s.chunks) + 1
     /\ t.chunks[Len(s.chunks) + 1] = c
     /\ \A i \in 1 .. Len(s.chunks) : t.chunks[i] = s.chunks[i]
     /\ t.rd = s.rd
  \/ s.chunks = <<NullChunk>> /\ t.chunks = <<c>> /\ t.rd = c.first

\* The tail copied behind the others leaves a fragment of a page, or none.
LEMMA AddedFragment ==
  ASSUME PlaceAssumption, SizeAssumption, NEW s, Sound(s)
  PROVE  LET a == ChunkAdded(s)
         IN /\ a = [chunks |-> a.chunks, rd |-> s.rd, te |-> s.te, rpage |-> s.rpage, rlast |-> a.rlast]
            /\ Fragment(s.rpage, a.rlast)
            /\ \/ s.chunks = <<NullChunk>> /\ a = s
               \/ s.chunks # <<NullChunk>> /\ a.chunks = Append(s.chunks, s.chunks[Len(s.chunks)])
<1> DEFINE a == ChunkAdded(s)
           n == Len(s.chunks)
           tail == s.chunks[n]
           unused == /\ ReuseFragment /\ n > 1 /\ s.rpage = tail.at /\ s.rlast = s.te
           r == IF unused THEN End(tail) ELSE s.rlast
           Goal == /\ a = [chunks |-> a.chunks, rd |-> s.rd, te |-> s.te, rpage |-> s.rpage, rlast |-> a.rlast]
                   /\ Fragment(s.rpage, a.rlast)
                   /\ \/ s.chunks = <<NullChunk>> /\ a = s
                      \/ s.chunks # <<NullChunk>> /\ a.chunks = Append(s.chunks, s.chunks[n])
<1>1. /\ TailChunk(s) = tail /\ Placed(tail) /\ tail \in Chunk /\ n \in Nat \ {0} /\ n \in 1 .. n
      /\ s.chunks \in Seq(Chunk)
  BY SoundFields
<1>2. s = [chunks |-> s.chunks, rd |-> s.rd, te |-> s.te, rpage |-> s.rpage, rlast |-> s.rlast]
      /\ Fragment(s.rpage, s.rlast)
  BY DEF Sound
<1>3. (tail.at = Null => s.te = 0) /\ End(tail) \in Nat /\ PageSize \in Nat \ {0}
  BY <1>1, ChunkFields DEF Sound, Laid, SizeAssumption
<1>4. ASSUME tail.at = Null /\ n = 1 PROVE Goal
  <2>1. a = s
    BY <1>1, <1>4 DEF ChunkAdded
  <2>2. s.chunks = <<NullChunk>>
    BY <1>1, <1>4 DEF Placed
  <2> QED BY <1>2, <2>1, <2>2
<1>5. ASSUME ~(tail.at = Null /\ n = 1) PROVE Goal
  <2> DEFINE q == Append(s.chunks, tail)
  <2>1. a = [s EXCEPT !.chunks = q, !.rlast = r]
    <3> HIDE DEF tail, n
    <3> QED BY <1>1, <1>5, Zenon DEF ChunkAdded, tail, n
  <2> HIDE DEF q, r, a
  <2>2. [s EXCEPT !.chunks = q]
          = [chunks |-> q, rd |-> s.rd, te |-> s.te, rpage |-> s.rpage, rlast |-> s.rlast]
    BY <1>2, SetChunksField
  <2>3. [[chunks |-> q, rd |-> s.rd, te |-> s.te, rpage |-> s.rpage, rlast |-> s.rlast] EXCEPT !.rlast = r]
          = [chunks |-> q, rd |-> s.rd, te |-> s.te, rpage |-> s.rpage, rlast |-> r]
    OBVIOUS
  <2>4. a = [chunks |-> q, rd |-> s.rd, te |-> s.te, rpage |-> s.rpage, rlast |-> r]
    BY <2>1, <2>2, <2>3, Zenon
  <2>5. a.chunks = q /\ a.rlast = r
        /\ a = [chunks |-> a.chunks, rd |-> s.rd, te |-> s.te, rpage |-> s.rpage, rlast |-> a.rlast]
    BY <2>4
  <2>6. Fragment(s.rpage, r)
    <3>1. CASE unused
      <4>1. r = End(tail) /\ s.rpage = tail.at /\ s.rlast = s.te
        BY <3>1 DEF r
      <4>2. s.rpage \in Page \cup {Null} /\ (s.rpage = Null => s.rlast = PageSize)
        BY <1>2 DEF Fragment
      <4>3. tail.at \in Page
        BY <1>3, <4>1, <4>2
      <4>4. End(tail) <= PageSize
        BY <1>1, <4>3 DEF Placed
      <4> QED BY <1>3, <4>1, <4>2, <4>3, <4>4 DEF Fragment, PlaceAssumption
    <3>2. CASE ~unused
      BY <1>2, <3>2 DEF r
    <3> QED BY <3>1, <3>2
  <2>7. s.chunks # <<NullChunk>>
    <3> SUFFICES ASSUME s.chunks = <<NullChunk>> PROVE FALSE
      OBVIOUS
    <3>1. Len(s.chunks) = 1 /\ s.chunks[1] = NullChunk
      OBVIOUS
    <3> QED BY <1>5, <3>1 DEF NullChunk
  <2> QED BY <2>5, <2>6, <2>7 DEF q
<1>6. Goal
  BY <1>4, <1>5
<1> QED BY <1>6

\* A new tail behind the others, its memory ending at te.
LEMMA NewTailSound ==
  ASSUME PlaceAssumption, SizeAssumption, NEW s, Sound(s),
         NEW c, Placed(c), c.at # Null, NEW te \in Nat,
         End(c) <= te, c.at \in Page => te <= PageSize
  PROVE  LET t == NewTail(ChunkAdded(s), c, te)
         IN /\ Sound(t) /\ Grows(t, s, c) /\ t.te = te
            /\ t.rpage = s.rpage /\ t.rlast = ChunkAdded(s).rlast
<1> DEFINE a == ChunkAdded(s)
           t == NewTail(a, c, te)
           n == Len(s.chunks)
           q == Append(Front(a.chunks), c)
           rd == IF Len(a.chunks) = 1 THEN c.first ELSE a.rd
<1>1. /\ a = [chunks |-> a.chunks, rd |-> s.rd, te |-> s.te, rpage |-> s.rpage, rlast |-> a.rlast]
      /\ Fragment(s.rpage, a.rlast)
      /\ \/ s.chunks = <<NullChunk>> /\ a = s
         \/ s.chunks # <<NullChunk>> /\ a.chunks = Append(s.chunks, s.chunks[n])
  BY AddedFragment
<1>2. /\ WellFormed(s) /\ n \in Nat \ {0} /\ s.chunks \in Seq(Chunk) /\ n \in 1 .. n /\ 1 \in 1 .. n
      /\ \A i \in 1 .. n : Placed(s.chunks[i])
      /\ s.rd \in Nat
  BY SoundFields
<1>3. c \in Chunk /\ IsChunk(c) /\ c.first \in Nat /\ Len(c.data) \in Nat /\ End(c) \in Nat
  BY ChunkFields DEF Placed
<1>4. WellFormed(t) /\ Extends(t, s, c)
  BY <1>2, <1>3, NewTailShape
<1> HIDE DEF a
<1>5. a.rd = s.rd /\ a.te = s.te /\ a.rpage = s.rpage
      /\ a = [chunks |-> a.chunks, rd |-> a.rd, te |-> a.te, rpage |-> a.rpage, rlast |-> a.rlast]
  <2>1. a.rd = s.rd /\ a.te = s.te /\ a.rpage = s.rpage
    BY <1>1
  <2> QED BY <1>1, <2>1
<1>6. t = [chunks |-> q, rd |-> rd, te |-> te, rpage |-> a.rpage, rlast |-> a.rlast]
  BY <1>5, NewTailFields
<1>7. Len(q) = Len(a.chunks)
  <2>1. IsSeq(s.chunks)
    BY <1>2 DEF IsSeq
  <2>2. IsSeq(a.chunks) /\ Len(a.chunks) \in Nat \ {0}
    <3>1. CASE a = s
      BY <1>2, <2>1, <3>1
    <3>2. CASE a.chunks = Append(s.chunks, s.chunks[n])
      <4>1. LET u == Append(s.chunks, s.chunks[n]) IN IsSeq(u) /\ Len(u) = Len(s.chunks) + 1
        BY <2>1, AppendOf
      <4> QED BY <1>2, <3>2, <4>1
    <3> QED BY <1>1, <3>1, <3>2
  <2> DEFINE w == a.chunks
             f == Front(w)
  <2>3. IsSeq(w) /\ w # <<>> /\ Len(w) \in Nat
    BY <2>2, EmptyIsSeq
  <2> HIDE DEF w
  <2>4. IsSeq(f) /\ Len(f) = Len(w) - 1
    BY <2>3, FrontOf
  <2> HIDE DEF f
  <2>5. Len(Append(f, c)) = Len(f) + 1
    BY <2>4, AppendOf
  <2>6. Len(Append(f, c)) = Len(w)
    BY <2>3, <2>4, <2>5
  <2> QED BY <2>6 DEF w, f
<1> HIDE DEF q, rd, t
<1>8. /\ t.chunks = q /\ t.rd = rd /\ t.te = te /\ t.rpage = s.rpage /\ t.rlast = a.rlast
      /\ t = [chunks |-> t.chunks, rd |-> t.rd, te |-> t.te, rpage |-> t.rpage, rlast |-> t.rlast]
  BY <1>5, <1>6
<1>9. Grows(t, s, c)
  <2>1. CASE s.chunks = <<NullChunk>> /\ a = s
    <3>1. Len(t.chunks) = 1
      BY <1>7, <1>8, <2>1
    <3>2. t.chunks[1] = c
      BY <1>2, <1>4, <3>1 DEF Extends
    <3>3. t.chunks \in Seq({t.chunks[i] : i \in 1 .. Len(t.chunks)})
      BY <1>4, ChunksSeq
    <3>4. t.chunks = <<c>>
      <4> DEFINE u == t.chunks
                 S == {u[i] : i \in 1 .. Len(u)}
      <4>1. u \in Seq(S) /\ Len(u) = 1 /\ u[1] = c
        BY <3>1, <3>2, <3>3
      <4> HIDE DEF u, S
      <4>2. u = <<c>>
        BY <4>1, OneElement
      <4> QED BY <4>2 DEF u
    <3>5. rd = c.first
      BY <1>7, <1>8, <3>1 DEF rd
    <3> QED BY <1>8, <2>1, <3>4, <3>5 DEF Grows
  <2>2. CASE s.chunks # <<NullChunk>> /\ a.chunks = Append(s.chunks, s.chunks[n])
    <3>1. Len(a.chunks) = n + 1
      BY <1>2, <2>2
    <3>2. Len(t.chunks) = n + 1 /\ Len(t.chunks) # 1
      <4>1. Len(t.chunks) = n + 1
        BY <1>7, <1>8, <3>1, Zenon
      <4> HIDE DEF n
      <4> QED BY <1>2, <4>1
    <3>3. rd = s.rd
      BY <1>5, <1>7, <1>8, <3>2 DEF rd
    <3> QED BY <1>4, <1>8, <2>2, <3>2, <3>3 DEF Grows, Extends
  <2> QED BY <1>1, <2>1, <2>2
<1>10. Laid(t.chunks, t.rd, t.te)
  <2>0. Len(t.chunks) \in Nat \ {0} /\ t.chunks = [i \in 1 .. Len(t.chunks) |-> t.chunks[i]]
    BY <1>4 DEF WellFormed
  <2>1. CASE s.chunks = <<NullChunk>> /\ t.chunks = <<c>> /\ t.rd = c.first
    <3>1. Len(t.chunks) = 1 /\ t.chunks[1] = c
      BY <2>1
    <3> QED BY <1>3, <1>8, <2>0, <2>1, <3>1 DEF Laid, End
  <2>2. CASE /\ Len(t.chunks) = n + 1 /\ t.chunks[n + 1] = c
             /\ \A i \in 1 .. n : t.chunks[i] = s.chunks[i]
             /\ t.rd = s.rd
    <3>1. t.chunks[1] = s.chunks[1] /\ t.chunks[Len(t.chunks)] = c
      BY <1>2, <2>2
    <3>2. s.chunks[1].first <= s.rd /\ s.rd <= End(s.chunks[1])
      BY DEF Sound, Laid
    <3>3. \A i \in 1 .. n + 1 : Placed(t.chunks[i])
      BY <1>2, <2>2
    <3> QED BY <1>2, <1>3, <1>8, <2>0, <2>2, <3>1, <3>2, <3>3 DEF Laid
  <2> QED BY <1>9, <2>1, <2>2 DEF Grows
<1>11. Sound(t)
  BY <1>1, <1>8, <1>10 DEF Sound
<1> QED BY <1>8, <1>9, <1>11 DEF t, a

\* What is left of the chunks before the new tail is what was left.
LEMMA GrownFull ==
  ASSUME NEW s, Sound(s), Tight(s), NEW t, Sound(t), NEW c, Grows(t, s, c)
  PROVE  /\ Full(t) /\ Left(t, Len(t.chunks)) = Len(c.data)
         /\ Writable(t) = t.te - End(c) /\ t.chunks[Len(t.chunks)] = c
<1> DEFINE n == Len(s.chunks)
<1>1. n \in Nat \ {0} /\ Len(t.chunks) \in Nat \ {0} /\ 1 \in 1 .. n
      /\ Writable(t) = t.te - End(t.chunks[Len(t.chunks)])
      /\ t.chunks[Len(t.chunks)] \in Chunk
  BY SoundFields
<1>2. CASE s.chunks = <<NullChunk>> /\ t.chunks = <<c>> /\ t.rd = c.first
  <2>1. Len(t.chunks) = 1 /\ t.chunks[1] = c
    BY <1>2
  <2>2. Full(t)
    BY <2>1 DEF Full
  <2>3. c.first \in Nat /\ Len(c.data) \in Nat
    BY <1>1, <2>1, ChunkFields
  <2>4. Left(t, 1) = Len(c.data)
    BY <1>2, <2>1, <2>3 DEF Left, End
  <2> QED BY <1>1, <2>1, <2>2, <2>4
<1>3. CASE /\ s.chunks # <<NullChunk>>
           /\ Len(t.chunks) = n + 1 /\ t.chunks[n + 1] = c
           /\ \A i \in 1 .. n : t.chunks[i] = s.chunks[i]
           /\ t.rd = s.rd
  <2>1. \A i \in 1 .. n : Left(s, i) > 0
    BY <1>3 DEF Tight
  <2>2. \A i \in 1 .. n : Left(t, i) = Left(s, i)
    BY <1>1, <1>3 DEF Left
  <2>3. Full(t)
    BY <1>1, <1>3, <2>1, <2>2 DEF Full
  <2>4. Left(t, n + 1) = Len(c.data)
    BY <1>1, <1>3 DEF Left
  <2> QED BY <1>1, <1>3, <2>3, <2>4
<1> QED BY <1>2, <1>3 DEF Grows

\* the sizes that _msgpack_buffer_chunk_realloc goes through
Doubling(f, filled, n) == f = [k \in 0 .. n |-> IF k = 0 THEN filled ELSE 2 * f[k - 1]]

\* There are such sizes.
LEMMA DoublingExists ==
  ASSUME NEW filled, NEW n \in Nat
  PROVE  \E f : Doubling(f, filled, n)
<1> DEFINE T == {m \in Nat : ~ \E f : Doubling(f, filled, m)}
<1> SUFFICES ASSUME T # {} PROVE FALSE
  OBVIOUS
<1> DEFINE m == Min(T)
<1>1. m \in T /\ \A y \in T : m <= y
  <2>1. T \subseteq Nat
    OBVIOUS
  <2> HIDE DEF T
  <2> QED BY <2>1, MinOfNaturals
<1> HIDE DEF m
<1>2. m \in Nat /\ ~ \E f : Doubling(f, filled, m)
  BY <1>1
<1>3. CASE m = 0
  <2> DEFINE f == [k \in 0 .. 0 |-> filled]
  <2>1. Doubling(f, filled, 0)
    BY DEF Doubling
  <2> QED BY <1>2, <1>3, <2>1
<1>4. CASE m # 0
  <2>1. m - 1 \in Nat /\ m - 1 \notin T
    BY <1>1, <1>2, <1>4
  <2>2. PICK f : Doubling(f, filled, m - 1)
    BY <2>1
  <2> DEFINE g == [k \in 0 .. m |-> IF k = 0 THEN filled ELSE 2 * f[k - 1]]
  <2>3. \A k \in 0 .. m - 1 : g[k] = f[k]
    <3> SUFFICES ASSUME NEW k \in 0 .. m - 1 PROVE g[k] = f[k]
      OBVIOUS
    <3>1. f[k] = IF k = 0 THEN filled ELSE 2 * f[k - 1]
      BY <2>2 DEF Doubling
    <3>2. k \in 0 .. m
      BY <1>2
    <3> QED BY <3>1, <3>2
  <2>4. \A k \in 0 .. m : g[k] = IF k = 0 THEN filled ELSE 2 * g[k - 1]
    <3> SUFFICES ASSUME NEW k \in 0 .. m PROVE g[k] = IF k = 0 THEN filled ELSE 2 * g[k - 1]
      OBVIOUS
    <3>1. k # 0 => k - 1 \in 0 .. m - 1
      BY <1>2
    <3>2. k # 0 => g[k - 1] = f[k - 1]
      BY <2>3, <3>1, Zenon
    <3> QED BY <3>2
  <2>5. g = [k \in 0 .. m |-> g[k]]
    OBVIOUS
  <2> HIDE DEF g
  <2>6. g = [k \in 0 .. m |-> IF k = 0 THEN filled ELSE 2 * g[k - 1]]
    BY <2>4, <2>5
  <2> QED BY <1>2, <2>6 DEF Doubling
<1> QED BY <1>3, <1>4

\* Doubling what is filled makes room for n bytes more in at most n steps.
LEMMA DoubledEnough ==
  ASSUME NEW filled \in Nat \ {0}, NEW n \in Nat \ {0}
  PROVE  Doubled(filled, n) \in Nat /\ Doubled(filled, n) >= filled + n
<1> DEFINE size == CHOOSE f : Doubling(f, filled, n)
           S == {k \in 1 .. n : size[k] >= filled + n}
<1>1. Doubling(size, filled, n)
  BY DoublingExists
<1>2. Doubled(filled, n) = size[Min(S)]
  BY DEF Doubled, Doubling
<1> HIDE DEF size
<1>3. \A k \in 0 .. n : size[k] = IF k = 0 THEN filled ELSE 2 * size[k - 1]
  BY <1>1 DEF Doubling
<1>4. \A k \in 0 .. n : size[k] \in Nat /\ size[k] >= filled + k
  <2> DEFINE T == {k \in 0 .. n : ~(size[k] \in Nat /\ size[k] >= filled + k)}
             j == Min(T)
  <2> SUFFICES ASSUME T # {} PROVE FALSE
    OBVIOUS
  <2>1. j \in T /\ \A y \in T : j <= y
    <3>1. T \subseteq Nat
      OBVIOUS
    <3> HIDE DEF T
    <3> QED BY <3>1, MinOfNaturals
  <2> HIDE DEF j
  <2>2. j \in 0 .. n /\ j \in Nat /\ ~(size[j] \in Nat /\ size[j] >= filled + j)
    BY <2>1
  <2>3. j # 0
    BY <1>3, <2>2
  <2>4. j - 1 \in 0 .. n /\ j - 1 \notin T
    BY <2>1, <2>2, <2>3
  <2>5. size[j - 1] \in Nat /\ size[j - 1] >= filled + (j - 1)
    BY <2>4
  <2>6. size[j] = 2 * size[j - 1]
    BY <1>3, <2>2, <2>3
  <2> DEFINE v == size[j - 1]
  <2>7. v \in Nat /\ v >= filled + (j - 1) /\ size[j] = 2 * v
    BY <2>5, <2>6
  <2> HIDE DEF v
  <2>8. 2 * v \in Nat /\ 2 * v >= filled + j
    BY <2>2, <2>3, <2>7
  <2> QED BY <2>2, <2>7, <2>8
<1>5. S \subseteq Nat /\ S # {}
  <2>1. n \in 1 .. n /\ n \in 0 .. n
    OBVIOUS
  <2> QED BY <1>4, <2>1
<1> DEFINE h == Min(S)
<1>6. h \in S
  <2> HIDE DEF S
  <2> QED BY <1>5, MinOfNaturals
<1> HIDE DEF h
<1>7. h \in 0 .. n /\ size[h] >= filled + n
  BY <1>6
<1> QED BY <1>2, <1>4, <1>7 DEF h

\* An empty chunk.
LEMMA EmptyChunk ==
  ASSUME PlaceAssumption, NEW at \in Page \cup {Heap}, NEW first \in Nat,
         NEW mem \in Page \cup {Null, Heap},
         at = Heap => first = 0, at \in Page => first <= PageSize
  PROVE  LET c == Empty(at, first, mem)
         IN Placed(c) /\ c.at # Null /\ c.at = at /\ c.data = <<>> /\ End(c) = first /\ Len(c.data) = 0
<1> DEFINE c == Empty(at, first, mem)
<1>1. c.at = at /\ c.first = first /\ c.data = <<>> /\ c.mem = mem /\ Len(c.data) = 0
  BY DEF Empty
<1>2. c \in Chunk
  BY DEF Empty, Chunk
<1>3. End(c) = first
  BY <1>1 DEF End
<1> HIDE DEF c
<1>4. Placed(c) /\ c.at # Null
  BY <1>1, <1>2, <1>3 DEF Placed, PlaceAssumption
<1> QED BY <1>1, <1>3, <1>4 DEF c

\* t is s with another fragment.
FragmentChanged(t, s, rpage, rlast) ==
  \/ t = [s EXCEPT !.rpage = rpage, !.rlast = rlast]
  \/ t = [s EXCEPT !.rlast = rlast] /\ s.rpage = rpage

\* The fragment is set, and perhaps its page.
LEMMA FragmentSet ==
  ASSUME NEW s, Sound(s), NEW rpage, NEW rlast, Fragment(rpage, rlast),
         NEW t, FragmentChanged(t, s, rpage, rlast)
  PROVE  Sound(t) /\ t.chunks = s.chunks /\ t.rd = s.rd /\ t.te = s.te
<1> DEFINE u == [chunks |-> s.chunks, rd |-> s.rd, te |-> s.te, rpage |-> rpage, rlast |-> rlast]
<1>1. s = [chunks |-> s.chunks, rd |-> s.rd, te |-> s.te, rpage |-> s.rpage, rlast |-> s.rlast]
      /\ Laid(s.chunks, s.rd, s.te)
  BY DEF Sound
<1>2. u.chunks = s.chunks /\ u.rd = s.rd /\ u.te = s.te /\ u.rpage = rpage /\ u.rlast = rlast
      /\ u = [chunks |-> u.chunks, rd |-> u.rd, te |-> u.te, rpage |-> u.rpage, rlast |-> u.rlast]
  OBVIOUS
<1>3. [s EXCEPT !.rpage = rpage]
        = [chunks |-> s.chunks, rd |-> s.rd, te |-> s.te, rpage |-> rpage, rlast |-> s.rlast]
  BY <1>1
<1>4. [[chunks |-> s.chunks, rd |-> s.rd, te |-> s.te, rpage |-> rpage, rlast |-> s.rlast] EXCEPT !.rlast = rlast]
        = u
  OBVIOUS
<1>5. s.rpage = rpage => [s EXCEPT !.rlast = rlast] = u
  BY <1>1
<1> HIDE DEF u
<1>6. [s EXCEPT !.rpage = rpage, !.rlast = rlast] = u
  BY <1>3, <1>4, Zenon
<1>7. Sound(u)
  BY <1>1, <1>2 DEF Sound
<1> QED BY <1>2, <1>5, <1>6, <1>7, Zenon DEF FragmentChanged

\* Memory for n bytes behind the others.
LEMMA MallocedSound ==
  ASSUME PlaceAssumption, SizeAssumption, NEW s, Sound(s), NEW n \in Nat \ {0}, NEW p \in Page
  PROVE  LET t == Malloced(ChunkAdded(s), n, p)
         IN Sound(t) /\ \E c : Grows(t, s, c) /\ c.data = <<>> /\ Len(c.data) = 0 /\ t.te - End(c) >= n
<1> DEFINE a == ChunkAdded(s)
           t == Malloced(a, n, p)
           Goal == Sound(t) /\ \E c : Grows(t, s, c) /\ c.data = <<>> /\ Len(c.data) = 0 /\ t.te - End(c) >= n
<1>1. a.rpage = s.rpage /\ Fragment(s.rpage, a.rlast)
  <2>1. a = [chunks |-> a.chunks, rd |-> s.rd, te |-> s.te, rpage |-> s.rpage, rlast |-> a.rlast]
        /\ Fragment(s.rpage, a.rlast)
    BY AddedFragment
  <2> HIDE DEF a
  <2>2. a.rpage = s.rpage
    BY <2>1
  <2> QED BY <2>1, <2>2
<1>2. PageSize \in Nat /\ PageSize >= 0
  BY DEF SizeAssumption
<1>3. ASSUME NEW u, NEW v, NEW c, Grows(u, s, c), v.chunks = u.chunks, v.rd = u.rd
      PROVE  Grows(v, s, c)
  BY <1>3 DEF Grows
<1> HIDE DEF a
<1>4. ASSUME n > PageSize PROVE Goal
  <2> DEFINE c == Empty(Heap, 0, Heap)
  <2>1. t = NewTail(a, c, n)
    BY <1>4 DEF Malloced
  <2>2. Placed(c) /\ c.at = Heap /\ c.at # Null /\ c.data = <<>> /\ End(c) = 0 /\ Len(c.data) = 0
    BY EmptyChunk DEF PlaceAssumption
  <2>3. c.at \notin Page
    BY <2>2 DEF PlaceAssumption
  <2> HIDE DEF c, t
  <2>4. Sound(t) /\ Grows(t, s, c) /\ t.te = n
    BY <2>1, <2>2, <2>3, NewTailSound DEF a
  <2> QED BY <2>2, <2>4
<1>5. ASSUME ~(n > PageSize), FragmentFits(a, n) PROVE Goal
  <2> DEFINE c == Empty(a.rpage, a.rlast, Null)
             u == NewTail(a, c, PageSize)
  <2>1. t = [u EXCEPT !.rlast = PageSize]
    BY <1>5 DEF Malloced
  <2>2. a.rlast \in Nat /\ a.rlast <= PageSize /\ PageSize - a.rlast >= n /\ s.rpage \in Page
    BY <1>1, <1>2, <1>5 DEF Fragment, FragmentFits
  <2>3. Placed(c) /\ c.at = a.rpage /\ c.at # Null /\ c.data = <<>> /\ End(c) = a.rlast /\ Len(c.data) = 0
    <3> DEFINE at == a.rpage
               first == a.rlast
    <3>1. at \in Page \cup {Heap} /\ first \in Nat /\ (at = Heap => first = 0) /\ first <= PageSize
      BY <1>1, <2>2 DEF PlaceAssumption
    <3> HIDE DEF at, first
    <3>2. LET d == Empty(at, first, Null)
          IN Placed(d) /\ d.at # Null /\ d.at = at /\ d.data = <<>> /\ End(d) = first /\ Len(d.data) = 0
      BY <3>1, EmptyChunk
    <3> QED BY <3>2, Zenon DEF at, first
  <2> HIDE DEF c, t
  <2>4. Sound(u) /\ Grows(u, s, c) /\ u.te = PageSize /\ u.rpage = s.rpage
    BY <1>2, <2>2, <2>3, NewTailSound DEF a
  <2> HIDE DEF u
  <2>5. Fragment(u.rpage, PageSize)
    BY <1>2, <2>2, <2>4 DEF Fragment
  <2>6. Sound(t) /\ t.chunks = u.chunks /\ t.rd = u.rd /\ t.te = u.te
    <3>1. FragmentChanged(t, u, u.rpage, PageSize)
      BY <2>1 DEF FragmentChanged
    <3> QED BY <2>4, <2>5, <3>1, FragmentSet
  <2>7. Grows(t, s, c)
    BY <1>3, <2>4, <2>6
  <2> QED BY <1>2, <2>2, <2>3, <2>4, <2>6, <2>7
<1>6. ASSUME ~(n > PageSize), ~FragmentFits(a, n) PROVE Goal
  <2> DEFINE c == Empty(p, 0, p)
             u == NewTail(a, c, PageSize)
  <2>1. t = [u EXCEPT !.rpage = p, !.rlast = PageSize]
    BY <1>6 DEF Malloced
  <2>2. Placed(c) /\ c.at = p /\ c.at # Null /\ c.data = <<>> /\ End(c) = 0 /\ Len(c.data) = 0
    BY <1>2, EmptyChunk DEF PlaceAssumption
  <2> HIDE DEF c, t
  <2>3. Sound(u) /\ Grows(u, s, c) /\ u.te = PageSize
    BY <1>2, <2>2, NewTailSound DEF a
  <2> HIDE DEF u
  <2>4. Fragment(p, PageSize)
    BY <1>2 DEF Fragment, PlaceAssumption
  <2>5. Sound(t) /\ t.chunks = u.chunks /\ t.rd = u.rd /\ t.te = u.te
    <3>1. FragmentChanged(t, u, p, PageSize)
      BY <2>1 DEF FragmentChanged
    <3> QED BY <2>3, <2>4, <3>1, FragmentSet
  <2>6. Grows(t, s, c)
    BY <1>3, <2>3, <2>5
  <2> QED BY <1>2, <1>6, <2>2, <2>3, <2>5, <2>6
<1>7. Goal
  BY <1>4, <1>5, <1>6
<1> QED BY <1>7 DEF a

\* Room for n bytes, at the tail or in a new one; what is left of the other
\* chunks stays.
LEMMA RoomSound ==
  ASSUME PlaceAssumption, SizeAssumption, NEW s, Sound(s), Tight(s), NEW n \in Nat \ {0}, NEW p \in Page
  PROVE  LET t == Room(s, n, p)
         IN /\ Sound(t) /\ Full(t) /\ Writable(t) >= n
            /\ \/ t.chunks = s.chunks /\ t.rd = s.rd
               \/ \E c : Grows(t, s, c) /\ c.data = <<>>
<1> DEFINE t == Room(s, n, p)
           tail == s.chunks[Len(s.chunks)]
           Goal == /\ Sound(t) /\ Full(t) /\ Writable(t) >= n
                   /\ \/ t.chunks = s.chunks /\ t.rd = s.rd
                      \/ \E c : Grows(t, s, c) /\ c.data = <<>>
<1>1. /\ TailChunk(s) = tail /\ Placed(tail) /\ tail \in Chunk /\ Len(s.chunks) \in Nat \ {0}
      /\ Len(s.chunks) \in 1 .. Len(s.chunks)
  BY SoundFields
<1>2. Len(tail.data) \in Nat /\ tail.first \in Nat /\ End(tail) = tail.first + Len(tail.data)
      /\ tail.at \in Page \cup {Null, Heap, Mapped}
  BY <1>1, ChunkFields DEF End
<1>3. PageSize \in Nat \ {0}
  BY DEF SizeAssumption
<1>4. ASSUME MayRealloc(TailChunk(s)) PROVE Goal
  <2> DEFINE te == Doubled(Len(tail.data), n)
  <2>1. tail.at # Mapped /\ Len(tail.data) > PageSize
    BY <1>1, <1>4 DEF MayRealloc
  <2>2. tail.at # Null
    <3> SUFFICES ASSUME tail.at = Null PROVE FALSE
      OBVIOUS
    <3>1. Len(tail.data) = 0
      BY <1>1, EmptyIsSeq DEF Placed, NullChunk
    <3> QED BY <1>3, <2>1, <3>1
  <2>3. tail.at \notin Page
    BY <1>1, <1>2, <1>3, <2>1 DEF Placed
  <2>4. tail.first = 0 /\ End(tail) = Len(tail.data)
    BY <1>1, <1>2, <2>1, <2>2, <2>3 DEF Placed
  <2>5. te \in Nat /\ te >= Len(tail.data) + n
    <3> DEFINE l == Len(tail.data)
    <3>1. l \in Nat \ {0}
      BY <1>2, <1>3, <2>1
    <3> HIDE DEF l
    <3>2. Doubled(l, n) \in Nat /\ Doubled(l, n) >= l + n
      BY <3>1, DoubledEnough
    <3> QED BY <3>2 DEF l
  <2>6. t = [s EXCEPT !.te = te]
    BY <1>1, <1>4 DEF Room
  <2> HIDE DEF te, t
  <2>7. t = [chunks |-> s.chunks, rd |-> s.rd, te |-> te, rpage |-> s.rpage, rlast |-> s.rlast]
    BY <2>6 DEF Sound
  <2>8. /\ t.chunks = s.chunks /\ t.rd = s.rd /\ t.te = te /\ t.rpage = s.rpage /\ t.rlast = s.rlast
        /\ t = [chunks |-> t.chunks, rd |-> t.rd, te |-> t.te, rpage |-> t.rpage, rlast |-> t.rlast]
    BY <2>7
  <2>9. Laid(s.chunks, s.rd, te)
    BY <1>2, <2>2, <2>3, <2>4, <2>5 DEF Sound, Laid
  <2>10. Sound(t)
    BY <2>8, <2>9 DEF Sound
  <2>11. Writable(t) = te - End(tail)
    BY <2>8, <2>10, SoundFields
  <2>12. Full(t)
    <3>1. s.chunks # <<NullChunk>>
      <4> SUFFICES ASSUME s.chunks = <<NullChunk>> PROVE FALSE
        OBVIOUS
      <4>1. tail = NullChunk
        OBVIOUS
      <4> QED BY <2>2, <4>1 DEF NullChunk
    <3>2. \A i \in 1 .. Len(s.chunks) : Left(s, i) > 0
      BY <3>1 DEF Tight
    <3>3. \A i \in 1 .. Len(s.chunks) : Left(t, i) = Left(s, i)
      BY <2>8 DEF Left
    <3> QED BY <1>1, <2>8, <3>2, <3>3 DEF Full
  <2> QED BY <1>2, <2>4, <2>5, <2>8, <2>10, <2>11, <2>12
<1>5. ASSUME ~MayRealloc(TailChunk(s)) PROVE Goal
  <2>1. t = Malloced(ChunkAdded(s), n, p)
    BY <1>5 DEF Room
  <2> HIDE DEF t
  <2>2. Sound(t) /\ \E c : Grows(t, s, c) /\ c.data = <<>> /\ Len(c.data) = 0 /\ t.te - End(c) >= n
    BY <2>1, MallocedSound
  <2>3. PICK c : Grows(t, s, c) /\ c.data = <<>> /\ Len(c.data) = 0 /\ t.te - End(c) >= n
    BY <2>2
  <2>4. Full(t) /\ Writable(t) = t.te - End(c)
    BY <2>2, <2>3, GrownFull
  <2> QED BY <2>2, <2>3, <2>4
<1>6. Goal
  BY <1>4, <1>5
<1> QED BY <1>6
-----------------------------------------------------------------------------
(* Appending *)

AllTight(m) == \A x \in Buffer : Tight(m[x])

\* What has no memory gets none.
StaysNull(m, r, b) ==
  \A x \in Buffer \ {b} : m[x].chunks = <<NullChunk>> => r[x].chunks = <<NullChunk>>

\* A buffer whose chunks are full lacks nothing but its tail.
LEMMA TightFull ==
  ASSUME NEW s, Sound(s), Tight(s)
  PROVE  Full(s)
<1>1. Len(s.chunks) \in Nat
  BY SoundFields
<1>2. CASE s.chunks = <<NullChunk>>
  <2>1. Len(s.chunks) = 1
    BY <1>2
  <2> QED BY <2>1 DEF Full
<1>3. CASE \A i \in 1 .. Len(s.chunks) : Left(s, i) > 0
  BY <1>1, <1>3 DEF Full
<1> QED BY <1>2, <1>3 DEF Tight

\* The only chunk that lies nowhere.
LEMMA OnlyNull ==
  ASSUME NEW s, Sound(s), Len(s.chunks) = 1, s.chunks[1].at = Null
  PROVE  s.chunks = <<NullChunk>>
<1>1. s.chunks \in Seq(Chunk) /\ Placed(s.chunks[1])
  BY SoundFields
<1>2. s.chunks[1] = NullChunk
  BY <1>1 DEF Placed
<1> QED BY <1>1, <1>2, OneElement

\* After bytes are stored no chunk is empty: the tail had bytes, or has them now.
LEMMA StoredTight ==
  ASSUME PlaceAssumption, NEW m, AllSound(m), NEW b \in Buffer, NEW bytes \in Seq(Bytes),
         Len(bytes) <= Writable(m[b]),
         \A x \in Buffer \ {b} : Tight(m[x]),
         Tight(m[b]) \/ (Full(m[b]) /\ Len(bytes) > 0)
  PROVE  AllTight(Stored(m, b, bytes)) /\ StaysNull(m, Stored(m, b, bytes), b)
<1> DEFINE r == Stored(m, b, bytes)
           n == Len(m[b].chunks)
           t == TailChunk(m[b])
<1>1. /\ AllSound(r)
      /\ r[b].chunks[n].at = t.at
      /\ Left(r[b], n) = Left(m[b], n) + Len(bytes)
      /\ \A x \in Buffer : Len(r[x].chunks) = Len(m[x].chunks)
      /\ \A x \in Buffer : \A i \in 1 .. Len(m[x].chunks) : x # b \/ i # n =>
           /\ r[x].chunks[i] = Clobbered(m[x].chunks[i], t.at, End(t), bytes)
           /\ Left(r[x], i) = Left(m[x], i)
  BY StoredSound
<1>2. \A x \in Buffer : Sound(r[x]) /\ Sound(m[x])
  BY <1>1 DEF AllSound
<1>3. n \in Nat \ {0} /\ n \in 1 .. n /\ t = m[b].chunks[n] /\ Left(m[b], n) \in Nat
      /\ Len(bytes) \in Nat
  BY <1>2, SoundFields, LenProperties
<1> HIDE DEF r, t
<1>4. ASSUME NEW x \in Buffer \ {b}
      PROVE  Tight(r[x]) /\ (m[x].chunks = <<NullChunk>> => r[x].chunks = <<NullChunk>>)
  <2>1. CASE m[x].chunks = <<NullChunk>>
    <3>1. Len(m[x].chunks) = 1 /\ m[x].chunks[1] = NullChunk
      BY <2>1
    <3>2. Len(r[x].chunks) = 1 /\ r[x].chunks[1] = Clobbered(NullChunk, t.at, End(t), bytes)
      BY <1>1, <3>1
    <3>3. r[x].chunks[1].at = Null
      BY <3>2, NullPlaced, ClobberedPlaced
    <3> QED BY <1>2, <3>2, <3>3, OnlyNull DEF Tight
  <2>2. CASE m[x].chunks # <<NullChunk>> /\ \A i \in 1 .. Len(m[x].chunks) : Left(m[x], i) > 0
    BY <1>1, <2>2 DEF Tight
  <2>3. Tight(m[x])
    OBVIOUS
  <2> QED BY <2>1, <2>2, <2>3 DEF Tight
<1>5. Tight(r[b])
  <2>1. CASE m[b].chunks = <<NullChunk>> /\ Len(bytes) = 0
    <3>1. n = 1 /\ t = NullChunk
      BY <1>3, <2>1
    <3>2. Len(r[b].chunks) = 1 /\ r[b].chunks[1].at = Null
      BY <1>1, <3>1, NullPlaced
    <3> QED BY <1>2, <3>2, OnlyNull DEF Tight
  <2>2. CASE m[b].chunks # <<NullChunk>> /\ Tight(m[b])
    <3>1. \A i \in 1 .. n : Left(m[b], i) > 0
      BY <2>2 DEF Tight
    <3>2. \A i \in 1 .. n : Left(r[b], i) > 0
      <4>1. Left(r[b], n) > 0
        BY <1>1, <1>3, <3>1
      <4>2. \A i \in 1 .. n : i # n => Left(r[b], i) > 0
        BY <1>1, <3>1
      <4> QED BY <4>1, <4>2
    <3> QED BY <1>1, <3>2 DEF Tight
  <2>3. CASE Full(m[b]) /\ Len(bytes) > 0
    <3>1. \A i \in 1 .. n : i # n => Left(m[b], i) > 0
      BY <1>3, <2>3 DEF Full
    <3>2. \A i \in 1 .. n : Left(r[b], i) > 0
      <4>1. Left(r[b], n) > 0
        BY <1>1, <1>3, <2>3
      <4>2. \A i \in 1 .. n : i # n => Left(r[b], i) > 0
        BY <1>1, <3>1
      <4> QED BY <4>1, <4>2
    <3> QED BY <1>1, <3>2 DEF Tight
  <2>4. Tight(m[b]) => Full(m[b])
    BY <1>2, TightFull
  <2> QED BY <1>3, <2>1, <2>2, <2>3, <2>4
<1>6. AllTight(r) /\ StaysNull(m, r, b)
  BY <1>4, <1>5 DEF AllTight, StaysNull
<1> QED BY <1>6 DEF r

\* One buffer changed.
LEMMA OneSound ==
  ASSUME NEW m, AllSound(m), NEW b \in Buffer, NEW t, Sound(t)
  PROVE  LET r == [m EXCEPT ![b] = t]
         IN /\ AllSound(r) /\ r[b] = t
            /\ \A x \in Buffer \ {b} : r[x] = m[x]
<1> DEFINE r == [m EXCEPT ![b] = t]
<1>1. m = [x \in Buffer |-> m[x]] /\ \A x \in Buffer : Sound(m[x])
  BY DEF AllSound
<1>2. /\ r = [x \in Buffer |-> r[x]] /\ r[b] = t
      /\ \A x \in Buffer \ {b} : r[x] = m[x]
  BY <1>1, OneChanged
<1> HIDE DEF r
<1>3. AllSound(r)
  BY <1>1, <1>2 DEF AllSound
<1> QED BY <1>2, <1>3 DEF r

\* Room in one buffer.
LEMMA RoomySound ==
  ASSUME PlaceAssumption, SizeAssumption, NEW m, AllSound(m), AllTight(m), NEW b \in Buffer,
         NEW n \in Nat \ {0}, NEW p \in Page
  PROVE  LET r == Roomy(m, b, n, p)
         IN /\ AllSound(r) /\ Full(r[b]) /\ Writable(r[b]) >= n
            /\ r[b] = Room(m[b], n, p)
            /\ \A x \in Buffer \ {b} : r[x] = m[x] /\ Tight(r[x])
<1> DEFINE t == Room(m[b], n, p)
           s == m[b]
           r == Roomy(m, b, n, p)
<1>1. Sound(t) /\ Full(t) /\ Writable(t) >= n
  <2>1. Sound(s) /\ Tight(s)
    BY DEF AllSound, AllTight
  <2> HIDE DEF s
  <2>2. LET u == Room(s, n, p) IN Sound(u) /\ Full(u) /\ Writable(u) >= n
    BY <2>1, RoomSound
  <2> QED BY <2>2 DEF s
<1>2. r = [m EXCEPT ![b] = t]
  BY DEF Roomy
<1> DEFINE v == [m EXCEPT ![b] = t]
<1> HIDE DEF t
<1>3. AllSound(v) /\ v[b] = t /\ \A x \in Buffer \ {b} : v[x] = m[x]
  BY <1>1, OneSound
<1> HIDE DEF r, v
<1>4. r = v
  BY <1>2 DEF v
<1>5. AllSound(r) /\ r[b] = t /\ \A x \in Buffer \ {b} : r[x] = m[x]
  BY <1>3, <1>4, Zenon
<1>6. \A x \in Buffer \ {b} : Tight(r[x])
  BY <1>5 DEF AllTight
<1> QED BY <1>1, <1>5, <1>6 DEF t, r

\* Appended bytes leave every buffer sound and no chunk empty.
LEMMA AppendedSound ==
  ASSUME PlaceAssumption, SizeAssumption, NEW m, AllSound(m), AllTight(m), NEW b \in Buffer,
         NEW bytes \in Seq(Bytes), NEW p \in Page
  PROVE  LET r == Appended(m, b, bytes, p) IN AllSound(r) /\ AllTight(r) /\ StaysNull(m, r, b)
<1> DEFINE avail == Writable(m[b])
           n == Len(bytes)
           first == SubSeq(bytes, 1, avail)
           rest == SubSeq(bytes, avail + 1, n)
           m1 == Stored(m, b, first)
           m2 == Roomy(m1, b, n - avail, p)
           r == Appended(m, b, bytes, p)
           Goal == AllSound(r) /\ AllTight(r) /\ StaysNull(m, r, b)
<1>1. n \in Nat /\ avail \in Nat
  BY SoundFields, LenProperties DEF AllSound
<1>2. ASSUME n <= avail PROVE Goal
  <2>1. r = Stored(m, b, bytes)
    BY <1>2 DEF Appended
  <2>2. AllSound(Stored(m, b, bytes))
    BY <1>2, StoredSound
  <2>3. AllTight(Stored(m, b, bytes)) /\ StaysNull(m, Stored(m, b, bytes), b)
    BY <1>2, StoredTight DEF AllTight
  <2> QED BY <2>1, <2>2, <2>3
<1>3. ASSUME ~(n <= avail) PROVE Goal
  <2>1. r = Stored(m2, b, rest)
    BY <1>3 DEF Appended
  <2>2. /\ first \in Seq(Bytes) /\ Len(first) = avail
        /\ rest \in Seq(Bytes) /\ Len(rest) = n - avail /\ n - avail \in Nat \ {0}
    BY <1>1, <1>3, CutOf
  <2> HIDE DEF first, rest, n, r
  <2>3. AllSound(m1) /\ AllTight(m1) /\ StaysNull(m, m1, b)
    <3>1. Len(first) <= Writable(m[b])
      BY <1>1, <2>2
    <3>2. AllSound(m1)
      BY <2>2, <3>1, StoredSound
    <3>3. AllTight(m1) /\ StaysNull(m, m1, b)
      BY <2>2, <3>1, StoredTight DEF AllTight
    <3> QED BY <3>2, <3>3
  <2> HIDE DEF m1
  <2> DEFINE k == n - avail
  <2>4. /\ AllSound(m2) /\ Full(m2[b]) /\ Writable(m2[b]) >= k
        /\ \A x \in Buffer \ {b} : m2[x] = m1[x] /\ Tight(m2[x])
    <3>1. k \in Nat \ {0} /\ m2 = Roomy(m1, b, k, p)
      BY <2>2
    <3> HIDE DEF k, m2
    <3> QED BY <2>3, <3>1, RoomySound
  <2> HIDE DEF m2
  <2>5. Len(rest) <= Writable(m2[b]) /\ Len(rest) > 0
    <3>1. Writable(m2[b]) \in Nat
      BY <2>4, SoundFields DEF AllSound
    <3> QED BY <2>2, <2>4, <3>1
  <2>6. AllSound(Stored(m2, b, rest))
    BY <2>2, <2>4, <2>5, StoredSound
  <2>7. AllTight(Stored(m2, b, rest)) /\ StaysNull(m2, Stored(m2, b, rest), b)
    BY <2>2, <2>4, <2>5, StoredTight
  <2>8. StaysNull(m, Stored(m2, b, rest), b)
    BY <2>3, <2>4, <2>7 DEF StaysNull
  <2> QED BY <2>1, <2>6, <2>7, <2>8
<1>4. Goal
  BY <1>2, <1>3
<1> QED BY <1>4

\* So do bytes stored where room was made for them.
LEMMA EnsuredSound ==
  ASSUME PlaceAssumption, SizeAssumption, NEW m, AllSound(m), AllTight(m), NEW b \in Buffer,
         NEW n \in Nat, NEW bytes \in Seq(Bytes), Len(bytes) > 0, Len(bytes) <= n, NEW p \in Page
  PROVE  LET e == Ensured(m, b, n, p)
             r == Stored(e, b, bytes)
         IN /\ AllSound(r) /\ AllTight(r) /\ StaysNull(m, r, b)
            /\ AllSound(e) /\ Len(bytes) <= Writable(e[b])
            /\ e = m \/ (n > 0 /\ e = Roomy(m, b, n, p))
<1> DEFINE e == Ensured(m, b, n, p)
           r == Stored(e, b, bytes)
           Ready == /\ AllSound(e) /\ Full(e[b]) /\ Writable(e[b]) >= n
                    /\ \A x \in Buffer \ {b} : e[x] = m[x] /\ Tight(e[x])
                    /\ e = m \/ (n > 0 /\ e = Roomy(m, b, n, p))
<1>1. Ready
  <2>0. Len(bytes) \in Nat /\ n \in Nat \ {0}
    BY LenProperties
  <2>1. ASSUME Writable(m[b]) >= n PROVE Ready
    <3>1. e = m
      BY <2>1 DEF Ensured
    <3>2. Full(m[b])
      BY TightFull DEF AllSound, AllTight
    <3> QED BY <2>1, <3>1, <3>2 DEF AllTight
  <2>2. ASSUME ~(Writable(m[b]) >= n) PROVE Ready
    <3>1. e = Roomy(m, b, n, p)
      BY <2>2 DEF Ensured
    <3> HIDE DEF e
    <3> QED BY <2>0, <3>1, RoomySound
  <2> QED BY <2>1, <2>2
<1> HIDE DEF e
<1>2. Len(bytes) <= Writable(e[b])
  <2>1. Writable(e[b]) \in Nat /\ Len(bytes) \in Nat
    BY <1>1, SoundFields, LenProperties DEF AllSound
  <2> QED BY <1>1, <2>1
<1>3. AllSound(r)
  BY <1>1, <1>2, StoredSound
<1>4. AllTight(r) /\ StaysNull(e, r, b)
  BY <1>1, <1>2, StoredTight
<1>5. StaysNull(m, r, b)
  BY <1>1, <1>4 DEF StaysNull
<1> QED BY <1>1, <1>2, <1>3, <1>4, <1>5 DEF e

\* So does a string that is referred to.
LEMMA ReferredSound ==
  ASSUME PlaceAssumption, SizeAssumption, NEW s, Sound(s), Tight(s),
         NEW bytes \in Seq(Bytes), Len(bytes) > 0
  PROVE  LET t == Referred(s, bytes)
         IN Sound(t) /\ Tight(t) /\ \E c : Grows(t, s, c) /\ c.data = bytes /\ c.first = 0
<1> DEFINE e == Empty(Mapped, 0, Null)
           c == [e EXCEPT !.data = bytes]
           t == Referred(s, bytes)
<1>1. t = NewTail(ChunkAdded(s), c, Len(bytes))
  BY DEF Referred
<1>2. e \in Chunk /\ e.at = Mapped /\ e.first = 0
  BY DEF Empty, Chunk
<1> HIDE DEF e
<1>3. c \in Chunk /\ c.at = Mapped /\ c.first = 0 /\ c.data = bytes /\ End(c) = 0 + Len(bytes)
  BY <1>2, DataSet
<1> HIDE DEF c, t
<1>4. Len(bytes) \in Nat /\ End(c) = Len(bytes) /\ Len(c.data) > 0
  BY <1>3, LenProperties
<1>5. Placed(c) /\ c.at # Null /\ c.at \notin Page
  BY <1>3 DEF Placed, PlaceAssumption
<1>6. Sound(t) /\ Grows(t, s, c)
  BY <1>1, <1>4, <1>5, NewTailSound
<1>7. Full(t) /\ Left(t, Len(t.chunks)) = Len(c.data)
  BY <1>6, GrownFull
<1>8. Tight(t)
  <2>1. Len(t.chunks) \in Nat \ {0}
    BY <1>6, SoundFields
  <2>2. \A i \in 1 .. Len(t.chunks) : Left(t, i) > 0
    BY <1>4, <1>7, <2>1 DEF Full
  <2> QED BY <2>2 DEF Tight
<1> QED BY <1>3, <1>6, <1>8 DEF t
-----------------------------------------------------------------------------
(* The inductive invariant *)

\* What a call may ask for before its io lets it go on.
Asked(b, w) ==
  /\ w \in [op : Sending \cup {"none", "direct", "read_all"}, n : Nat, require : Nat]
  /\ w.op \in {"append", "ensure", "bypass", "direct"} => w.n > 0
  /\ w.op = "ensure" => w.n <= w.require
  /\ w.op \in {"bypass", "direct", "read_all"} => b \in IoBuffer

\* Only the buffers of an io wait, except in a flush, and a long string goes to
\* the io when nothing else is left to go.
Waits(b) ==
  /\ Asked(b, busy[b])
  /\ busy[b].op \in {"append", "ensure"} => b \in IoBuffer
  /\ busy[b].op = "direct" => buf[b].chunks = <<NullChunk>>

ChunkInv ==
  /\ AllSound(buf) /\ AllTight(buf)
  /\ inUse \subseteq Page
  /\ stamp \in [Buffer -> 0 .. Stamps - 1]
  /\ busy = [b \in Buffer |-> busy[b]]
  /\ \A b \in Buffer : Waits(b)

\* The bytes of a call.
LEMMA NextBytesType ==
  ASSUME SizeAssumption, stamp \in [Buffer -> 0 .. Stamps - 1], NEW b \in Buffer, NEW n \in Nat
  PROVE  NextBytes(b, n) \in Seq(Bytes) /\ Len(NextBytes(b, n)) = n
<1> DEFINE f == NextBytes(b, n)
<1>1. f = [i \in 1 .. n |-> <<b, (stamp[b] + i - 1) % Stamps>>]
  BY DEF NextBytes
<1>2. Stamps \in Nat \ {0} /\ stamp[b] \in Nat
  BY DEF SizeAssumption
<1>3. \A i \in 1 .. n : <<b, (stamp[b] + i - 1) % Stamps>> \in Bytes
  <2> SUFFICES ASSUME NEW i \in 1 .. n PROVE <<b, (stamp[b] + i - 1) % Stamps>> \in Bytes
    OBVIOUS
  <2>1. (stamp[b] + i - 1) % Stamps \in 0 .. Stamps - 1
    BY <1>2
  <2> QED BY <2>1 DEF Bytes
<1> HIDE DEF f
<1>4. f \in [1 .. n -> Bytes]
  <2> DEFINE g(i) == <<b, (stamp[b] + i - 1) % Stamps>>
  <2>1. f = [i \in 1 .. n |-> g(i)] /\ \A i \in 1 .. n : g(i) \in Bytes
    BY <1>1, <1>3
  <2> HIDE DEF g
  <2> QED BY <2>1
<1>5. f \in Seq(Bytes)
  BY <1>4, SeqDef
<1>6. Len(f) = n
  BY <1>4, <1>5, LenProperties
<1> QED BY <1>5, <1>6 DEF f

\* The number of the next byte.
LEMMA EntersType ==
  ASSUME SizeAssumption, stamp \in [Buffer -> 0 .. Stamps - 1], NEW b \in Buffer, NEW n \in Nat,
         Enters(b, n)
  PROVE  stamp' \in [Buffer -> 0 .. Stamps - 1]
<1>1. Stamps \in Nat \ {0} /\ stamp[b] \in Nat
  BY DEF SizeAssumption
<1>2. (stamp[b] + n) % Stamps \in 0 .. Stamps - 1
  BY <1>1
<1> QED BY <1>2 DEF Enters

\* One buffer takes a step, and waits as it may.
LEMMA StepKeeps ==
  ASSUME ChunkInv, NEW b \in Buffer, NEW w,
         AllSound(buf'), AllTight(buf'), StaysNull(buf, buf', b), inUse' \subseteq Page,
         stamp' \in [Buffer -> 0 .. Stamps - 1],
         busy' = [busy EXCEPT ![b] = w], Asked(b, w),
         w.op \in {"append", "ensure"} => b \in IoBuffer,
         w.op = "direct" => buf'[b].chunks = <<NullChunk>>
  PROVE  ChunkInv'
<1>1. busy = [x \in Buffer |-> busy[x]] /\ \A x \in Buffer : Waits(x)
  BY DEF ChunkInv
<1>2. /\ busy' = [x \in Buffer |-> busy'[x]] /\ busy'[b] = w
      /\ \A x \in Buffer \ {b} : busy'[x] = busy[x]
  BY <1>1
<1>3. Waits(b)'
  BY <1>2 DEF Waits, Asked
<1>4. ASSUME NEW x \in Buffer \ {b} PROVE Waits(x)'
  <2>1. Asked(x, busy'[x]) /\ (busy'[x].op \in {"append", "ensure"} => x \in IoBuffer)
    BY <1>1, <1>2 DEF Waits
  <2>2. busy'[x].op = "direct" => buf'[x].chunks = <<NullChunk>>
    BY <1>1, <1>2 DEF Waits, StaysNull
  <2> QED BY <2>1, <2>2 DEF Waits, Asked
<1>5. \A x \in Buffer : Waits(x)'
  BY <1>3, <1>4
<1> QED BY <1>2, <1>5 DEF ChunkInv, AllSound, AllTight

\* A buffer that waits for nothing, or goes on waiting, may do so.
LEMMA FreeAsked ==
  ASSUME NEW b \in Buffer
  PROVE  Asked(b, Free) /\ Free.op = "none"
BY DEF Free, Doing, Asked, Sending

\* The first k chunks of one buffer go.
LEMMA FlushedSound ==
  ASSUME PlaceAssumption, AllSound(buf), AllTight(buf), NEW b \in Buffer,
         NEW k \in 0 .. Len(buf[b].chunks)
  PROVE  LET m == Flushed(b, k)
         IN /\ AllSound(m) /\ AllTight(m) /\ StaysNull(buf, m, b)
            /\ m[b] = Shifted(buf[b], k)
            /\ \A x \in Buffer \ {b} : m[x] = buf[x]
            /\ k = Len(buf[b].chunks) => m[b].chunks = <<NullChunk>>
            /\ buf[b].chunks = <<NullChunk>> => m[b].chunks = <<NullChunk>>
<1> DEFINE s == buf[b]
           n == Len(s.chunks)
           t == Shifted(s, k)
           m == Flushed(b, k)
<1>1. Sound(s) /\ Tight(s) /\ n \in Nat \ {0}
  BY SoundFields DEF AllSound, AllTight
<1>2. /\ Sound(t)
      /\ \/ k = n /\ t.chunks = <<NullChunk>>
         \/ /\ k < n /\ Len(t.chunks) = n - k
            /\ \A i \in 1 .. Len(t.chunks) : /\ t.chunks[i] = s.chunks[i + k]
                                             /\ Left(t, i) = Left(s, i + k)
  <2>1. k \in 0 .. Len(s.chunks)
    OBVIOUS
  <2> HIDE DEF s
  <2> QED BY <1>1, <2>1, ShiftedSound
<1> HIDE DEF t
<1>3. ASSUME s.chunks = <<NullChunk>> PROVE t.chunks = <<NullChunk>>
  <2>1. n = 1 /\ s.chunks[1] = NullChunk
    BY <1>3
  <2>2. CASE k = n
    BY <1>2, <2>1, <2>2
  <2>3. CASE k # n
    <3>1. k = 0 /\ Len(t.chunks) = 1 /\ t.chunks[1] = s.chunks[1]
      <4>1. k \in 0 .. n /\ n = 1
        BY <2>1
      <4>2. k = 0
        BY <2>3, <4>1
      <4>3. /\ k < n /\ Len(t.chunks) = n - k
            /\ \A i \in 1 .. Len(t.chunks) : t.chunks[i] = s.chunks[i + k]
        BY <1>2, <2>3
      <4> HIDE DEF s, n
      <4>4. Len(t.chunks) = 1
        BY <4>1, <4>2, <4>3
      <4>5. t.chunks[1] = s.chunks[1 + k] /\ 1 + k = 1
        BY <4>2, <4>3, <4>4
      <4> QED BY <4>2, <4>4, <4>5
    <3>2. t.chunks[1].at = Null
      BY <2>1, <3>1 DEF NullChunk
    <3> QED BY <1>2, <3>1, <3>2, OnlyNull
  <2> QED BY <2>2, <2>3
<1>4. Tight(t)
  <2>1. CASE s.chunks = <<NullChunk>>
    BY <1>3, <2>1 DEF Tight
  <2>2. CASE t.chunks = <<NullChunk>>
    BY <2>2 DEF Tight
  <2>3. CASE s.chunks # <<NullChunk>> /\ t.chunks # <<NullChunk>>
    <3>1. \A i \in 1 .. n : Left(s, i) > 0
      BY <1>1, <2>3 DEF Tight
    <3>2. /\ Len(t.chunks) = n - k
          /\ \A i \in 1 .. Len(t.chunks) : Left(t, i) = Left(s, i + k)
      BY <1>2, <2>3, Zenon
    <3>3. \A i \in 1 .. Len(t.chunks) : i + k \in 1 .. n
      <4> DEFINE l == Len(t.chunks)
      <4>1. l = n - k /\ n \in Nat /\ k \in 0 .. n
        BY <1>1, <3>2
      <4> HIDE DEF l, n
      <4>2. \A i \in 1 .. l : i + k \in 1 .. n
        BY ONLY <4>1
      <4> QED BY <4>2 DEF l
    <3>4. \A i \in 1 .. Len(t.chunks) : Left(t, i) > 0
      <4> HIDE DEF n
      <4> QED BY <3>1, <3>2, <3>3
    <3> QED BY <3>4 DEF Tight
  <2> QED BY <2>1, <2>2, <2>3
<1> DEFINE r == [buf EXCEPT ![b] = t]
<1>5. m = r
  BY DEF Flushed, t
<1>6. AllSound(r) /\ r[b] = t /\ \A x \in Buffer \ {b} : r[x] = buf[x]
  BY <1>2, OneSound
<1> HIDE DEF m, r
<1>7. AllSound(m) /\ m[b] = t /\ \A x \in Buffer \ {b} : m[x] = buf[x]
  BY <1>5, <1>6, Zenon
<1>8. AllTight(m) /\ StaysNull(buf, m, b)
  BY <1>4, <1>7 DEF AllTight, StaysNull
<1>9. k = n => m[b].chunks = <<NullChunk>>
  BY <1>1, <1>2, <1>7
<1> QED BY <1>3, <1>7, <1>8, <1>9 DEF t, m

\* A call goes on after the io has taken k chunks.
LEMMA GoesOnType ==
  ASSUME PlaceAssumption, SizeAssumption, ChunkInv, NEW b \in Buffer,
         NEW k \in 0 .. Len(buf[b].chunks), NEW w, Asked(b, w),
         w.op = "bypass" => k = Len(buf[b].chunks) \/ buf[b].chunks = <<NullChunk>>,
         GoesOn(b, k, w)
  PROVE  ChunkInv'
<1> DEFINE m == Flushed(b, k)
           bytes == NextBytes(b, w.n)
<1>1. /\ AllSound(buf) /\ AllTight(buf) /\ inUse \subseteq Page
      /\ stamp \in [Buffer -> 0 .. Stamps - 1]
  BY DEF ChunkInv
<1>2. /\ AllSound(m) /\ AllTight(m) /\ StaysNull(buf, m, b)
      /\ k = Len(buf[b].chunks) => m[b].chunks = <<NullChunk>>
      /\ buf[b].chunks = <<NullChunk>> => m[b].chunks = <<NullChunk>>
  BY <1>1, FlushedSound
<1>3. ASSUME w.op = "flush", GivesBack(b, k), Becomes(b, Free), UNCHANGED stamp PROVE ChunkInv'
  <2>1. buf' = m /\ inUse' \subseteq Page /\ stamp' = stamp
    BY <1>1, <1>3 DEF GivesBack
  <2>2. busy' = [busy EXCEPT ![b] = Free]
    BY <1>3 DEF Becomes
  <2> HIDE DEF m
  <2>3. Asked(b, Free) /\ ~(Free.op \in {"append", "ensure"}) /\ Free.op # "direct"
    BY FreeAsked
  <2> QED BY <1>1, <1>2, <2>1, <2>2, <2>3, StepKeeps
<1>4. ASSUME w.op = "bypass", GivesBack(b, k), Becomes(b, Doing("direct", w.n, 0)), UNCHANGED stamp
      PROVE ChunkInv'
  <2> DEFINE d == Doing("direct", w.n, 0)
  <2>1. buf' = m /\ inUse' \subseteq Page /\ stamp' = stamp
    BY <1>1, <1>4 DEF GivesBack
  <2>2. busy' = [busy EXCEPT ![b] = d]
    BY <1>4 DEF Becomes
  <2>3. Asked(b, d) /\ d.op = "direct"
    BY <1>4 DEF Asked, Doing
  <2> HIDE DEF m, d
  <2>4. buf'[b].chunks = <<NullChunk>>
    BY <1>2, <1>4, <2>1
  <2>5. ~(d.op \in {"append", "ensure"})
    BY <2>3
  <2> QED BY <1>1, <1>2, <2>1, <2>2, <2>3, <2>4, <2>5, StepKeeps
<1>5. ASSUME w.op \in {"append", "ensure"}, NEW p \in FreePages(b, k),
             buf' = IF w.op = "append" THEN Appended(m, b, bytes, p)
                    ELSE Stored(Ensured(m, b, w.require, p), b, bytes),
             PoolAfter(b, k, buf'), Enters(b, w.n), Becomes(b, Free)
      PROVE  ChunkInv'
  <2>1. p \in Page
    BY DEF FreePages
  <2>2. w.n \in Nat /\ w.n > 0 /\ w.require \in Nat /\ (w.op = "ensure" => w.n <= w.require)
    BY <1>5 DEF Asked
  <2>3. bytes \in Seq(Bytes) /\ Len(bytes) = w.n
    BY <1>1, <2>2, NextBytesType
  <2>4. inUse' \subseteq Page
    BY <1>1, <1>5 DEF PoolAfter
  <2>5. stamp' \in [Buffer -> 0 .. Stamps - 1]
    BY <1>1, <1>5, <2>2, EntersType
  <2>6. busy' = [busy EXCEPT ![b] = Free]
    BY <1>5 DEF Becomes
  <2> HIDE DEF m, bytes
  <2>7. AllSound(buf') /\ AllTight(buf') /\ StaysNull(m, buf', b)
    <3>1. CASE w.op = "append"
      <4>1. buf' = Appended(m, b, bytes, p)
        BY <1>5, <3>1
      <4> QED BY <1>2, <2>1, <2>3, <4>1, AppendedSound
    <3>2. CASE w.op = "ensure"
      <4> DEFINE h == w.require
      <4>1. buf' = Stored(Ensured(m, b, h, p), b, bytes)
        BY <1>5, <3>2
      <4>2. h \in Nat /\ Len(bytes) > 0 /\ Len(bytes) <= h
        BY <2>2, <2>3, <3>2
      <4> HIDE DEF h
      <4> QED BY <1>2, <2>1, <2>3, <4>1, <4>2, EnsuredSound
    <3> QED BY <1>5, <3>1, <3>2
  <2>8. StaysNull(buf, buf', b)
    BY <1>2, <2>7 DEF StaysNull
  <2>9. Asked(b, Free) /\ ~(Free.op \in {"append", "ensure"}) /\ Free.op # "direct"
    BY FreeAsked
  <2> QED BY <2>4, <2>5, <2>6, <2>7, <2>8, <2>9, StepKeeps
<1>6. \/ w.op = "flush" /\ GivesBack(b, k) /\ Becomes(b, Free) /\ UNCHANGED stamp
      \/ w.op = "bypass" /\ GivesBack(b, k) /\ Becomes(b, Doing("direct", w.n, 0)) /\ UNCHANGED stamp
      \/ /\ w.op \in {"append", "ensure"} /\ Enters(b, w.n) /\ Becomes(b, Free)
         /\ \E p \in FreePages(b, k) :
              /\ buf' = IF w.op = "append" THEN Appended(m, b, bytes, p)
                        ELSE Stored(Ensured(m, b, w.require, p), b, bytes)
              /\ PoolAfter(b, k, buf')
  <2> HIDE DEF m, bytes
  <2> QED BY Zenon DEF GoesOn, m, bytes
<1> HIDE DEF m, bytes
<1> QED BY <1>3, <1>4, <1>5, <1>6, Zenon

\* When the top chunk has nothing left, the buffer has no chunk.
LEMMA TopEmpty ==
  ASSUME NEW s, Sound(s), Tight(s)
  PROVE  TopReadable(s) \in Nat /\ (TopReadable(s) = 0 => s.chunks = <<NullChunk>>)
<1>1. Len(s.chunks) \in Nat \ {0} /\ TopChunk(s) = s.chunks[1] /\ Left(s, 1) \in Nat
  BY SoundFields
<1>2. TopReadable(s) = Left(s, 1)
  BY <1>1 DEF TopReadable, Left
<1> QED BY <1>1, <1>2 DEF Tight

\* A call that begins.
LEMMA BeginsType ==
  ASSUME PlaceAssumption, SizeAssumption, ChunkInv, NEW b \in Buffer, NEW w, Asked(b, w),
         w.op # "direct", Begins(b, w)
  PROVE  ChunkInv'
<1>1. Sound(buf[b]) /\ Tight(buf[b])
  BY DEF ChunkInv, AllSound, AllTight
<1>2. 0 \in 0 .. Len(buf[b].chunks)
  BY <1>1, SoundFields
<1>3. ASSUME ~FlushesFirst(b, w), GoesOn(b, 0, w) PROVE ChunkInv'
  <2>1. ASSUME w.op = "bypass" PROVE buf[b].chunks = <<NullChunk>>
    <3>1. ~(TopReadable(buf[b]) > 0)
      BY <1>3, <2>1 DEF FlushesFirst
    <3>2. TopReadable(buf[b]) \in Nat /\ (TopReadable(buf[b]) = 0 => buf[b].chunks = <<NullChunk>>)
      BY <1>1, TopEmpty
    <3> QED BY <3>1, <3>2
  <2> QED BY <1>2, <1>3, <2>1, GoesOnType
<1>4. ASSUME FlushesFirst(b, w), Becomes(b, w), UNCHANGED <<buf, inUse, stamp, call>> PROVE ChunkInv'
  <2>1. w.op \in {"append", "ensure"} => b \in IoBuffer
    BY <1>4 DEF FlushesFirst
  <2>2. busy' = [busy EXCEPT ![b] = w]
    BY <1>4 DEF Becomes
  <2>3. /\ AllSound(buf') /\ AllTight(buf') /\ StaysNull(buf, buf', b) /\ inUse' \subseteq Page
        /\ stamp' \in [Buffer -> 0 .. Stamps - 1]
    BY <1>4 DEF ChunkInv, StaysNull
  <2> QED BY <2>1, <2>2, <2>3, StepKeeps
<1> QED BY <1>3, <1>4 DEF Begins

\* The io has taken a chunk.
LEMMA WriteReturnsType ==
  ASSUME PlaceAssumption, SizeAssumption, ChunkInv, NEW b \in Buffer, WriteReturns(b)
  PROVE  ChunkInv'
<1> DEFINE w == busy[b]
<1>1. /\ Sound(buf[b]) /\ w.op \in Sending /\ Waits(b)
      /\ AllSound(buf) /\ AllTight(buf) /\ inUse \subseteq Page
      /\ stamp \in [Buffer -> 0 .. Stamps - 1] /\ busy = [x \in Buffer |-> busy[x]]
  BY DEF ChunkInv, AllSound, WriteReturns
<1>2. 1 \in 0 .. Len(buf[b].chunks)
  BY <1>1, SoundFields
<1>3. /\ Asked(b, w) /\ (w.op \in {"append", "ensure"} => b \in IoBuffer) /\ w.op # "direct"
  BY <1>1 DEF Waits, Sending
<1>4. CASE Len(buf[b].chunks) = 1 /\ GoesOn(b, 1, w)
  <2> HIDE DEF w
  <2> QED BY <1>2, <1>3, <1>4, GoesOnType
<1>5. CASE Len(buf[b].chunks) > 1 /\ GivesBack(b, 1) /\ UNCHANGED <<stamp, busy>>
  <2> DEFINE m == Flushed(b, 1)
  <2>1. buf' = m /\ inUse' \subseteq Page /\ stamp' = stamp
    BY <1>1, <1>5 DEF GivesBack
  <2>2. busy' = [busy EXCEPT ![b] = w]
    BY <1>1, <1>5
  <2>3. AllSound(m) /\ AllTight(m) /\ StaysNull(buf, m, b)
    BY <1>1, <1>2, FlushedSound
  <2> HIDE DEF m, w
  <2> QED BY <1>1, <1>3, <2>1, <2>2, <2>3, StepKeeps
<1>6. \/ Len(buf[b].chunks) = 1 /\ GoesOn(b, 1, w)
      \/ Len(buf[b].chunks) > 1 /\ GivesBack(b, 1) /\ UNCHANGED <<stamp, busy>>
  BY DEF WriteReturns
<1> QED BY <1>4, <1>5, <1>6

\* The long string has gone out, or the io raised.
LEMMA ReturnsType ==
  ASSUME SizeAssumption, ChunkInv, NEW b \in Buffer, DirectReturns(b) \/ WriteRaises(b) \/ FeedEnds(b)
  PROVE  ChunkInv'
<1>1. buf' = buf /\ inUse' = inUse /\ Becomes(b, Free)
  BY DEF DirectReturns, WriteRaises, FeedEnds
<1>2. stamp' \in [Buffer -> 0 .. Stamps - 1]
  <2>1. stamp \in [Buffer -> 0 .. Stamps - 1] /\ busy[b].n \in Nat
    BY DEF ChunkInv, Waits, Asked
  <2>2. Enters(b, busy[b].n) \/ stamp' = stamp
    BY DEF DirectReturns, WriteRaises, FeedEnds
  <2> QED BY <2>1, <2>2, EntersType
<1>3. AllSound(buf') /\ AllTight(buf') /\ StaysNull(buf, buf', b) /\ inUse' \subseteq Page
  BY <1>1 DEF ChunkInv, StaysNull
<1>4. busy' = [busy EXCEPT ![b] = Free]
  BY <1>1 DEF Becomes
<1>5. Asked(b, Free) /\ ~(Free.op \in {"append", "ensure"}) /\ Free.op # "direct"
  BY FreeAsked
<1> QED BY <1>2, <1>3, <1>4, <1>5, StepKeeps

\* One buffer takes the place of another.
Replaced(m, b, t) == [m EXCEPT ![b] = t]

\* The others stay as they are.
LEMMA OneReplaced ==
  ASSUME NEW m, AllSound(m), NEW b \in Buffer, NEW t, Sound(t)
  PROVE  LET r == Replaced(m, b, t)
         IN AllSound(r) /\ r[b] = t /\ \A x \in Buffer \ {b} : r[x] = m[x]
BY OneSound DEF Replaced

\* One buffer changes, and no call begins to wait.
LEMMA OneKeeps ==
  ASSUME ChunkInv, NEW b \in Buffer, NEW t, Sound(t), Tight(t), busy[b].op # "direct",
         buf' = Replaced(buf, b, t), inUse' \subseteq Page,
         stamp' \in [Buffer -> 0 .. Stamps - 1],
         busy' = busy \/ Becomes(b, Free)
  PROVE  ChunkInv'
<1>1. /\ AllSound(buf) /\ AllTight(buf) /\ Waits(b) /\ busy = [x \in Buffer |-> busy[x]]
  BY DEF ChunkInv
<1>2. AllSound(buf') /\ buf'[b] = t /\ \A x \in Buffer \ {b} : buf'[x] = buf[x]
  <2> DEFINE r == Replaced(buf, b, t)
  <2>1. AllSound(r) /\ r[b] = t /\ \A x \in Buffer \ {b} : r[x] = buf[x]
    BY <1>1, OneReplaced
  <2> HIDE DEF r
  <2>2. buf' = r
    BY DEF r
  <2> QED BY <2>1, <2>2, Zenon
<1>3. AllTight(buf') /\ StaysNull(buf, buf', b)
  BY <1>1, <1>2 DEF AllTight, StaysNull
<1>4. CASE busy' = busy
  <2>1. busy' = [busy EXCEPT ![b] = busy[b]]
    BY <1>1, <1>4
  <2>2. Asked(b, busy[b]) /\ (busy[b].op \in {"append", "ensure"} => b \in IoBuffer)
    BY <1>1 DEF Waits
  <2> QED BY <1>2, <1>3, <2>1, <2>2, StepKeeps
<1>5. CASE Becomes(b, Free)
  <2>1. busy' = [busy EXCEPT ![b] = Free]
    BY <1>5 DEF Becomes
  <2>2. Asked(b, Free) /\ ~(Free.op \in {"append", "ensure"}) /\ Free.op # "direct"
    BY FreeAsked
  <2> QED BY <1>2, <1>3, <2>1, <2>2, StepKeeps
<1> QED BY <1>4, <1>5

\* A string is referred to.
LEMMA ReferType ==
  ASSUME PlaceAssumption, SizeAssumption, ChunkInv, NEW b \in Buffer, NEW n \in Nat \ {0}, Refer(b, n)
  PROVE  ChunkInv'
<1> DEFINE bytes == NextBytes(b, n)
           t == Referred(buf[b], bytes)
<1>1. /\ Sound(buf[b]) /\ Tight(buf[b]) /\ inUse \subseteq Page /\ stamp \in [Buffer -> 0 .. Stamps - 1]
      /\ busy[b] = Free
  BY DEF ChunkInv, AllSound, AllTight, Refer, Idle
<1>2. /\ buf' = Replaced(buf, b, t) /\ inUse' = inUse /\ busy' = busy /\ Enters(b, n)
  BY DEF Refer, Replaced
<1>3. bytes \in Seq(Bytes) /\ Len(bytes) > 0
  BY <1>1, NextBytesType
<1> HIDE DEF bytes
<1>4. Sound(t) /\ Tight(t)
  BY <1>1, <1>3, ReferredSound
<1>5. stamp' \in [Buffer -> 0 .. Stamps - 1]
  BY <1>1, <1>2, EntersType
<1>6. busy[b].op # "direct"
  BY <1>1, FreeAsked
<1> HIDE DEF t
<1> QED BY <1>1, <1>2, <1>4, <1>5, <1>6, OneKeeps

\* Bytes are taken.
LEMMA TakesType ==
  ASSUME PlaceAssumption, ChunkInv, NEW b \in Buffer, NEW op, NEW n \in Nat, NEW in, NEW raised,
         Takes(op, b, n, in, raised), busy[b].op # "direct", busy' = busy \/ Becomes(b, Free),
         stamp' \in [Buffer -> 0 .. Stamps - 1]
  PROVE  ChunkInv'
<1> DEFINE t == Consumed(buf[b], n)
<1>1. Sound(buf[b]) /\ Tight(buf[b]) /\ inUse \subseteq Page
  BY DEF ChunkInv, AllSound, AllTight
<1>2. buf' = Replaced(buf, b, t) /\ inUse' \subseteq Page
  BY <1>1 DEF Takes, Replaced
<1>3. Sound(t) /\ Tight(t)
  BY <1>1, ConsumedSound
<1> HIDE DEF t
<1> QED BY <1>1, <1>2, <1>3, OneKeeps

\* Bytes come from the io.
LEMMA FeedType ==
  ASSUME PlaceAssumption, SizeAssumption, ChunkInv, NEW b \in Buffer, NEW n \in Nat, Feed(b, n)
  PROVE  ChunkInv'
<1> DEFINE bytes == NextBytes(b, n)
<1>1. /\ AllSound(buf) /\ AllTight(buf) /\ inUse \subseteq Page /\ stamp \in [Buffer -> 0 .. Stamps - 1]
      /\ busy = [x \in Buffer |-> busy[x]] /\ Waits(b)
  BY DEF ChunkInv
<1>2. bytes \in Seq(Bytes)
  BY <1>1, NextBytesType
<1> HIDE DEF bytes
<1>3. PICK p \in FreePages(b, 0) : buf' = Appended(buf, b, bytes, p) /\ PoolAfter(b, 0, buf')
  BY DEF Feed, bytes
<1>4. p \in Page /\ inUse' \subseteq Page
  BY <1>1, <1>3 DEF FreePages, PoolAfter
<1>5. AllSound(buf') /\ AllTight(buf') /\ StaysNull(buf, buf', b)
  BY <1>1, <1>2, <1>3, <1>4, AppendedSound
<1>6. stamp' \in [Buffer -> 0 .. Stamps - 1]
  <2>1. Enters(b, n)
    BY DEF Feed
  <2> QED BY <1>1, <2>1, EntersType
<1>7. busy' = [busy EXCEPT ![b] = busy[b]] /\ busy[b].op = "read_all"
  BY <1>1 DEF Feed
<1>8. Asked(b, busy[b])
  BY <1>1 DEF Waits
<1> QED BY <1>4, <1>5, <1>6, <1>7, <1>8, StepKeeps

\* A buffer is emptied.
LEMMA ClearType ==
  ASSUME PlaceAssumption, ChunkInv, NEW b \in Buffer, Clear(b)
  PROVE  ChunkInv'
<1> DEFINE k == Len(buf[b].chunks)
           m == Flushed(b, k)
<1>1. /\ AllSound(buf) /\ AllTight(buf) /\ Sound(buf[b]) /\ inUse \subseteq Page
      /\ stamp \in [Buffer -> 0 .. Stamps - 1] /\ busy = [x \in Buffer |-> busy[x]]
  BY DEF ChunkInv, AllSound
<1>2. k \in 0 .. Len(buf[b].chunks)
  BY <1>1, SoundFields
<1>3. AllSound(m) /\ AllTight(m) /\ StaysNull(buf, m, b)
  BY <1>1, <1>2, FlushedSound
<1>4. buf' = m /\ inUse' \subseteq Page /\ stamp' = stamp /\ busy' = busy /\ busy[b] = Free
  BY <1>1 DEF Clear, GivesBack, Idle
<1> HIDE DEF m
<1>5. busy' = [busy EXCEPT ![b] = Free]
  BY <1>1, <1>4
<1>6. Asked(b, Free) /\ ~(Free.op \in {"append", "ensure"}) /\ Free.op # "direct"
  BY FreeAsked
<1> QED BY <1>1, <1>3, <1>4, <1>5, <1>6, StepKeeps

\* A new buffer.
LEMMA FreshSound ==
  ASSUME PlaceAssumption, SizeAssumption
  PROVE  Sound(Fresh) /\ Tight(Fresh) /\ Fresh.chunks = <<NullChunk>>
<1>1. Fragment(Null, PageSize)
  BY DEF Fragment, SizeAssumption
<1> QED BY <1>1, DrainedSound DEF Fresh

\* A buffer is collected, and another takes its place.
LEMMA CollectedType ==
  ASSUME PlaceAssumption, SizeAssumption, ChunkInv, NEW b \in Buffer, Collected(b)
  PROVE  ChunkInv'
<1>1. /\ buf' = Replaced(buf, b, Fresh) /\ inUse' \subseteq Page
      /\ stamp' \in [Buffer -> 0 .. Stamps - 1] /\ busy' = busy /\ busy[b] = Free
  BY DEF Collected, ChunkInv, Idle, Replaced
<1>2. busy[b].op # "direct"
  BY <1>1, FreeAsked
<1>3. Sound(Fresh) /\ Tight(Fresh)
  BY FreshSound
<1> QED BY <1>1, <1>2, <1>3, OneKeeps

\* The buffers before the first call.
LEMMA InitType ==
  ASSUME PlaceAssumption, SizeAssumption, Init
  PROVE  ChunkInv
<1>1. Sound(Fresh) /\ Tight(Fresh)
  BY FreshSound
<1>2. AllSound(buf) /\ AllTight(buf)
  BY <1>1 DEF Init, AllSound, AllTight
<1>3. \A b \in Buffer : Waits(b)
  <2> SUFFICES ASSUME NEW b \in Buffer PROVE Waits(b)
    OBVIOUS
  <2>1. busy[b] = Free /\ Asked(b, Free) /\ ~(Free.op \in {"append", "ensure"}) /\ Free.op # "direct"
    BY FreeAsked DEF Init
  <2> QED BY <2>1 DEF Waits
<1>4. stamp \in [Buffer -> 0 .. Stamps - 1]
  BY DEF Init, SizeAssumption
<1> QED BY <1>2, <1>3, <1>4 DEF ChunkInv, Init
-----------------------------------------------------------------------------
(* Every step *)

\* What the calls of Buffer#write and of the packer ask for.
LEMMA CallAsked ==
  ASSUME NEW b \in Buffer, NEW n \in Nat \ {0}, NEW require \in Nat, n <= require
  PROVE  /\ Asked(b, Doing("append", n, n)) /\ Doing("append", n, n).op # "direct"
         /\ b \in IoBuffer => Asked(b, Doing("bypass", n, 0)) /\ Doing("bypass", n, 0).op # "direct"
         /\ Asked(b, Doing("ensure", n, require)) /\ Doing("ensure", n, require).op # "direct"
         /\ Asked(b, Doing("flush", 0, 0)) /\ Doing("flush", 0, 0).op # "direct"
BY DEF Asked, Doing, Sending

\* Every step keeps the chunks laid out.
LEMMA NextType ==
  ASSUME PlaceAssumption, SizeAssumption, LengthAssumption, ChunkInv, [Next]_vars
  PROVE  ChunkInv'
<1>1. CASE UNCHANGED vars
  BY <1>1 DEF vars, ChunkInv, Waits
<1>2. ASSUME NEW b \in Buffer, NEW n \in WriteLengths, AppendString(b, n) PROVE ChunkInv'
  <2>1. n \in Nat \ {0} /\ n <= n
    BY DEF LengthAssumption
  <2>2. CASE Begins(b, Doing("append", n, n))
    BY <2>1, <2>2, CallAsked, BeginsType
  <2>3. CASE b \in IoBuffer /\ Begins(b, Doing("bypass", n, 0))
    BY <2>1, <2>3, CallAsked, BeginsType
  <2>4. CASE Refer(b, n)
    BY <2>1, <2>4, ReferType
  <2> QED BY <1>2, <2>2, <2>3, <2>4 DEF AppendString
<1>3. ASSUME NEW b \in Buffer, NEW e \in EnsureLengths, WriteEnsured(b, e[1], e[2]) PROVE ChunkInv'
  <2>1. e[1] \in Nat /\ e[2] \in Nat \ {0} /\ e[2] <= e[1]
    BY DEF LengthAssumption
  <2>2. Begins(b, Doing("ensure", e[2], e[1]))
    BY <1>3 DEF WriteEnsured
  <2> QED BY <2>1, <2>2, CallAsked, BeginsType
<1>4. ASSUME NEW b \in Buffer, NEW n \in ReadLengths, Read(b, n) PROVE ChunkInv'
  <2> DEFINE missing == IF b \in IoBuffer THEN n - Available(b, n) ELSE 0
  <2>1. n \in Nat
    BY DEF LengthAssumption
  <2>2. PICK more \in 0 .. missing, raised \in BOOLEAN :
          Takes("read", b, n, NextBytes(b, more), raised) /\ Enters(b, more)
    BY <1>4, Zenon DEF Read, missing
  <2>3. more \in Nat
    <3> HIDE DEF missing
    <3> QED BY <2>2
  <2>4. stamp' \in [Buffer -> 0 .. Stamps - 1]
    BY <2>2, <2>3, EntersType DEF ChunkInv
  <2>5. busy' = busy /\ busy[b].op # "direct"
    BY <1>4, FreeAsked DEF Read, Idle
  <2> QED BY <2>1, <2>2, <2>4, <2>5, TakesType
<1>5. ASSUME NEW b \in Buffer, NEW n \in ReadLengths, ReadAll(b, n) PROVE ChunkInv'
  <2>1. n \in Nat /\ busy[b] = Free /\ busy[b].op # "direct"
    BY <1>5, FreeAsked DEF LengthAssumption, ReadAll, Idle
  <2>2. CASE Takes("read_all", b, n, <<>>, FALSE) /\ UNCHANGED <<stamp, busy>>
    <3>1. stamp' \in [Buffer -> 0 .. Stamps - 1]
      BY <2>2 DEF ChunkInv
    <3> QED BY <2>1, <2>2, <3>1, TakesType
  <2>3. CASE UNCHANGED <<buf, inUse, stamp, busy>>
    BY <2>3 DEF ChunkInv, Waits
  <2>4. CASE b \in IoBuffer /\ Becomes(b, Doing("read_all", n, 0)) /\ UNCHANGED <<buf, inUse, stamp, call>>
    <3> DEFINE w == Doing("read_all", n, 0)
    <3>1. Asked(b, w) /\ ~(w.op \in {"append", "ensure"}) /\ w.op # "direct"
      BY <2>1, <2>4 DEF Asked, Doing
    <3>2. busy' = [busy EXCEPT ![b] = w]
      BY <2>4 DEF Becomes
    <3>3. /\ AllSound(buf') /\ AllTight(buf') /\ StaysNull(buf, buf', b) /\ inUse' \subseteq Page
          /\ stamp' \in [Buffer -> 0 .. Stamps - 1]
      BY <2>4 DEF ChunkInv, StaysNull
    <3> HIDE DEF w
    <3> QED BY <3>1, <3>2, <3>3, StepKeeps
  <2> QED BY <1>5, <2>2, <2>3, <2>4 DEF ReadAll
<1>6. ASSUME NEW b \in Buffer, NEW n \in FeedLengths, Feed(b, n) PROVE ChunkInv'
  <2>1. n \in Nat
    BY DEF LengthAssumption
  <2> QED BY <1>6, <2>1, FeedType
<1>7. ASSUME NEW b \in Buffer, FeedEnds(b) \/ DirectReturns(b) \/ WriteRaises(b) PROVE ChunkInv'
  BY <1>7, ReturnsType
<1>8. ASSUME NEW b \in Buffer, ReadAllFed(b) PROVE ChunkInv'
  <2>1. busy[b].op = "read_all" /\ busy[b].n \in Nat /\ stamp' \in [Buffer -> 0 .. Stamps - 1]
    BY <1>8 DEF ReadAllFed, ChunkInv, Waits, Asked
  <2> QED BY <1>8, <2>1, TakesType DEF ReadAllFed
<1>9. ASSUME NEW b \in Buffer, WriteReturns(b) PROVE ChunkInv'
  BY <1>9, WriteReturnsType
<1>10. ASSUME NEW b \in Buffer, Flush(b) PROVE ChunkInv'
  BY <1>10, CallAsked, BeginsType DEF Flush
<1>11. ASSUME NEW b \in Buffer, Clear(b) PROVE ChunkInv'
  BY <1>11, ClearType
<1>12. ASSUME NEW b \in Buffer, Collected(b) PROVE ChunkInv'
  BY <1>12, CollectedType
<1> QED BY <1>1, <1>2, <1>3, <1>4, <1>5, <1>6, <1>7, <1>8, <1>9, <1>10, <1>11, <1>12 DEF Next
-----------------------------------------------------------------------------
(* What follows for every behaviour *)

\* In every reachable state read_buffer and tail_buffer_end lie where the
\* chunks are, no chunk but a drained buffer's is empty, and a call that waits
\* for its io asks for what it can get (msgpack_buffer_t, in both builds).
THEOREM ChunksKept == Spec => []ChunkInv
<1>1. Init => ChunkInv
  BY InitType, PlaceAssumption, SizeAssumption
<1>2. ChunkInv /\ [Next]_vars => ChunkInv'
  BY NextType, PlaceAssumption, SizeAssumption, LengthAssumption
<1> QED BY <1>1, <1>2, PTL DEF Spec

\* The fields of a buffer, and where they point, whatever is called.
THEOREM BufferTypes == Spec => []TypeOK
<1>1. ASSUME ChunkInv PROVE TypeOK
  <2> DEFINE S == [chunks : Seq(Chunk), rd : Nat, te : Nat, rpage : Page \cup {Null}, rlast : 0 .. PageSize]
             W == [op : Sending \cup {"none", "direct", "read_all"}, n : Nat, require : Nat]
  <2>1. ASSUME NEW b \in Buffer
        PROVE  /\ buf[b] \in S /\ buf[b].chunks # <<>>
               /\ TopChunk(buf[b]).first <= buf[b].rd
               /\ buf[b].rd <= End(TopChunk(buf[b]))
               /\ End(TailChunk(buf[b])) <= buf[b].te
    <3> DEFINE s == buf[b]
    <3>1. Sound(s)
      BY <1>1 DEF ChunkInv, AllSound
    <3> HIDE DEF s
    <3>2. /\ s.chunks \in Seq(Chunk) /\ s.rd \in Nat /\ s.te \in Nat /\ Len(s.chunks) \in Nat \ {0}
          /\ TopChunk(s) = s.chunks[1] /\ TailChunk(s) = s.chunks[Len(s.chunks)]
      BY <3>1, SoundFields
    <3>3. /\ s.rpage \in Page \cup {Null} /\ s.rlast \in 0 .. PageSize
          /\ s = [chunks |-> s.chunks, rd |-> s.rd, te |-> s.te, rpage |-> s.rpage, rlast |-> s.rlast]
      BY <3>1 DEF Sound, Fragment
    <3>4. s \in S
      BY <3>2, <3>3
    <3>5. /\ s.chunks[1].first <= s.rd /\ s.rd <= End(s.chunks[1])
          /\ End(s.chunks[Len(s.chunks)]) <= s.te
      BY <3>1 DEF Sound, Laid
    <3>6. s.chunks # <<>>
      BY <3>2
    <3> HIDE DEF S
    <3>7. /\ s \in S /\ s.chunks # <<>> /\ TopChunk(s).first <= s.rd
          /\ s.rd <= End(TopChunk(s)) /\ End(TailChunk(s)) <= s.te
      BY <3>2, <3>4, <3>5, <3>6
    <3> QED BY <3>7, Zenon DEF s
  <2>2. buf \in [Buffer -> S]
    <3>1. buf = [b \in Buffer |-> buf[b]]
      BY <1>1 DEF ChunkInv, AllSound
    <3> HIDE DEF S
    <3> QED BY <2>1, <3>1
  <2>3. busy \in [Buffer -> W]
    <3>1. busy = [b \in Buffer |-> busy[b]] /\ \A b \in Buffer : busy[b] \in W
      BY <1>1 DEF ChunkInv, Waits, Asked
    <3> HIDE DEF W
    <3> QED BY <3>1
  <2>4. inUse \subseteq Page /\ stamp \in [Buffer -> 0 .. Stamps - 1]
    BY <1>1 DEF ChunkInv
  <2> QED BY <2>1, <2>2, <2>3, <2>4, Zenon DEF TypeOK
<1>2. ChunkInv => TypeOK
  BY <1>1
<1> QED BY <1>2, ChunksKept, PTL

\* When the top chunk has no byte left the buffer is empty and holds no
\* memory, which is what empty?, flush and read rely on.
THEOREM EmptyTop == Spec => []EmptyTopMeansEmpty
<1>1. ChunkInv => EmptyTopMeansEmpty
  BY TopEmpty DEF ChunkInv, AllSound, AllTight, EmptyTopMeansEmpty
<1> QED BY <1>1, ChunksKept, PTL
-----------------------------------------------------------------------------
(* The chunked buffers are the queues of bytes of ByteQueue, in the build   *)
(* that does not reuse page ends: every step of every buffer, in whatever   *)
(* call and at whichever chunk of a flush, is a step of the queue or leaves *)
(* the queues as they are.                                                  *)

\* m becomes r: b takes `in` at its end and gives `out` from its front, and the
\* others keep what they have.
Passes(m, r, b, in, out) ==
  /\ Content(m[b]) \o in = out \o Content(r[b])
  /\ \A x \in Buffer \ {b} : Content(r[x]) = Content(m[x])
-----------------------------------------------------------------------------
(* What a buffer holds *)

\* The bytes nobody has read are bytes, and there are none without chunks.
LEMMA ContentType ==
  ASSUME NEW s, Sound(s)
  PROVE  /\ Content(s) \in Seq(Bytes) /\ Len(Content(s)) \in Nat
         /\ AllReadable(s) = Upto(s, Len(s.chunks))
         /\ FlattenSeq(SubSeq(Parts(s), 1, Len(s.chunks))) = Content(s)
<1> DEFINE P == Parts(s)
           S == Bytes
<1>1. P \in Seq(Seq(S)) /\ Len(P) = Len(s.chunks)
  BY PartsOf
<1> HIDE DEF P, S
<1>2. FlattenSeq(P) \in Seq(S)
  BY <1>1, FlattenType
<1>3. SubSeq(P, 1, Len(P)) = P
  BY <1>1, SubSeqFull
<1>4. Len(FlattenSeq(P)) \in Nat
  BY <1>2, LenProperties
<1>5. SubSeq(P, 1, Len(s.chunks)) = P
  BY <1>1, <1>3
<1> QED BY <1>2, <1>4, <1>5 DEF P, S, Content, AllReadable, Upto

\* A buffer without chunks holds nothing.
LEMMA NothingLeft ==
  ASSUME PlaceAssumption, NEW s, Sound(s), s.chunks = <<NullChunk>>
  PROVE  Content(s) = <<>> /\ AllReadable(s) = 0
<1>1. Len(s.chunks) = 1 /\ s.chunks[1] = NullChunk /\ NullChunk.data = <<>> /\ NullChunk.first = 0
  BY NullPlaced
<1>2. Left(s, 1) = 0
  BY <1>1, SoundFields, NullPlaced DEF Left, Sound, Laid
<1>3. Upto(s, 0) = 0 /\ Upto(s, 0 + 1) = Upto(s, 0) + Left(s, 0 + 1)
  <2>1. 0 \in 0 .. Len(s.chunks) - 1
    BY <1>1
  <2> QED BY <2>1, UptoSteps
<1>4. Upto(s, 1) = 0
  BY <1>2, <1>3
<1>5. AllReadable(s) = 0 /\ Len(Content(s)) = 0 /\ Content(s) \in Seq(Bytes)
  BY <1>1, <1>4, ContentType DEF AllReadable
<1> QED BY <1>5, EmptySeq

\* The bytes in front go: k chunks and d bytes of the next.
LEMMA ContentCut ==
  ASSUME NEW s, Sound(s), NEW t, Sound(t), NEW k \in 0 .. Len(s.chunks) - 1,
         NEW d \in 0 .. Left(s, k + 1),
         Len(t.chunks) = Len(s.chunks) - k,
         t.rd = (IF k = 0 THEN s.rd ELSE s.chunks[k + 1].first) + d,
         \A i \in 1 .. Len(t.chunks) : t.chunks[i] = s.chunks[i + k]
  PROVE  Remains(Bytes, Content(s), Upto(s, k) + d, Content(t))
<1> DEFINE n == Len(s.chunks)
           q == Parts(s)
           r == Parts(t)
           S == Bytes
           c == s.chunks[k + 1]
           a == IF k = 0 THEN s.rd - c.first ELSE 0
<1>1. /\ n \in Nat \ {0} /\ k + 1 \in 1 .. n /\ k \in Nat
      /\ s.rd \in Nat /\ 1 \in 1 .. n
  BY SoundFields
<1>2. c \in Chunk /\ c.first \in Nat /\ c.data \in Seq(S) /\ Len(c.data) \in Nat
  BY <1>1, SoundFields, ChunkFields
<1>3. /\ q \in Seq(Seq(S)) /\ Len(q) = n
      /\ \A i \in 1 .. n : q[i] \in Seq(S) /\ Len(q[i]) = Left(s, i)
      /\ q[1] = SubSeq(s.chunks[1].data, s.rd - s.chunks[1].first + 1, Len(s.chunks[1].data))
      /\ \A i \in 1 .. n : i # 1 => q[i] = s.chunks[i].data
  BY PartsOf
<1>4. /\ r \in Seq(Seq(S)) /\ Len(r) = Len(t.chunks)
      /\ r[1] = SubSeq(t.chunks[1].data, t.rd - t.chunks[1].first + 1, Len(t.chunks[1].data))
      /\ \A i \in 1 .. Len(t.chunks) : i # 1 => r[i] = t.chunks[i].data
  BY PartsOf
<1>5. t.chunks[1] = c
  <2>1. 1 \in 1 .. Len(t.chunks) /\ 1 + k = k + 1
    BY <1>1
  <2> QED BY <2>1
<1> HIDE DEF q, r, S
<1>6. a \in 0 .. Len(c.data) /\ q[k + 1] = SubSeq(c.data, a + 1, Len(c.data)) /\ Len(q[k + 1]) = Left(s, k + 1)
  <2>1. CASE k = 0
    <3>1. /\ c = s.chunks[1] /\ k + 1 = 1 /\ a = s.rd - c.first
          /\ c.first <= s.rd /\ s.rd <= End(c)
      BY <2>1 DEF Sound, Laid
    <3>2. a \in 0 .. Len(c.data)
      BY <1>1, <1>2, <3>1 DEF End
    <3> QED BY <1>1, <1>3, <3>1, <3>2
  <2>2. CASE k # 0
    <3>1. k + 1 # 1 /\ a = 0
      BY <1>1, <2>2
    <3>2. SubSeq(c.data, 1, Len(c.data)) = c.data
      BY <1>2, SubSeqFull
    <3> QED BY <1>1, <1>2, <1>3, <3>1, <3>2
  <2> QED BY <2>1, <2>2
<1>7. d \in 0 .. Len(c.data) - a
  <2> DEFINE e == c.data
             l == Left(s, k + 1)
  <2>1. e \in Seq(S) /\ a \in 0 .. Len(e) /\ q[k + 1] = SubSeq(e, a + 1, Len(e)) /\ l = Len(q[k + 1])
    BY <1>2, <1>6
  <2>2. d \in 0 .. l
    OBVIOUS
  <2> HIDE DEF a, c, e, l
  <2>3. Len(SubSeq(e, a + 1, Len(e))) = Len(e) - a
    BY ONLY <2>1, CutOf
  <2>4. d \in 0 .. Len(e) - a
    BY ONLY <2>1, <2>2, <2>3
  <2> QED BY <2>4 DEF e
<1>8. r[1] = SubSeq(q[k + 1], d + 1, Len(q[k + 1]))
  <2>1. t.rd - c.first + 1 = a + d + 1
    BY <1>1, <1>2, <1>7
  <2>2. SubSeq(q[k + 1], d + 1, Len(q[k + 1])) = SubSeq(c.data, a + d + 1, Len(c.data))
    <3> HIDE DEF a, c
    <3> QED BY <1>2, <1>6, <1>7, CutTwice
  <2> QED BY <1>4, <1>5, <2>1, <2>2
<1>9. \A i \in 2 .. Len(r) : r[i] = q[i + k]
  <2> SUFFICES ASSUME NEW i \in 2 .. Len(r) PROVE r[i] = q[i + k]
    OBVIOUS
  <2>1. i \in 1 .. Len(t.chunks) /\ i # 1 /\ i + k \in 1 .. n /\ i + k # 1
    BY <1>1, <1>4
  <2> QED BY <1>3, <1>4, <2>1
<1>10. Remains(S, FlattenSeq(q), Len(FlattenSeq(SubSeq(q, 1, k))) + d, FlattenSeq(r))
  <2>1. k \in 0 .. Len(q) - 1 /\ d \in 0 .. Len(q[k + 1]) /\ Len(r) = Len(q) - k
    BY <1>3, <1>4, <1>6
  <2>2. IsCut(r, q, k, d)
    BY <1>8, <1>9, <2>1 DEF IsCut
  <2>3. q \in Seq(Seq(S)) /\ r \in Seq(Seq(S))
    BY <1>3, <1>4
  <2> QED BY ONLY <2>2, <2>3, FlattenCut
<1> QED BY <1>10 DEF q, r, S, Content, Upto

\* What flush_to_io hands out chunk by chunk comes off the front.
LEMMA ContentShifted ==
  ASSUME PlaceAssumption, NEW s, Sound(s), NEW k \in 0 .. Len(s.chunks)
  PROVE  LET out == FlattenSeq(SubSeq(Parts(s), 1, k)) IN
         /\ out \in Seq(Bytes)
         /\ Content(s) = out \o Content(Shifted(s, k))
         /\ k = 0 => out = <<>>
<1> DEFINE t == Shifted(s, k)
           out == FlattenSeq(SubSeq(Parts(s), 1, k))
           n == Len(s.chunks)
<1>1. /\ Sound(t)
      /\ \/ k = n /\ t.chunks = <<NullChunk>>
         \/ /\ k < n /\ Len(t.chunks) = n - k
            /\ t.rd = IF k = 0 THEN s.rd ELSE s.chunks[k + 1].first
            /\ \A i \in 1 .. Len(t.chunks) : t.chunks[i] = s.chunks[i + k]
  BY ShiftedSound
<1>2. n \in Nat \ {0} /\ s.rd \in Nat
  BY SoundFields
<1>3. out \in Seq(Bytes)
  <2>1. Parts(s) \in Seq(Seq(Bytes)) /\ Len(Parts(s)) = n
    BY PartsOf
  <2>2. k \in 0 .. Len(Parts(s))
    BY <2>1
  <2> QED BY <2>1, <2>2, FlattenSplit
<1>4. k = 0 => out = <<>>
  <2>1. SubSeq(Parts(s), 1, 0) = <<>>
    BY SubSeqEmpty
  <2> QED BY <2>1, FlattenNone
<1>5. Content(s) \in Seq(Bytes) /\ Content(t) \in Seq(Bytes)
  BY <1>1, ContentType
<1> HIDE DEF t
<1>6. CASE k = n
  <2>1. Content(t) = <<>>
    BY <1>1, <1>2, <1>6, NothingLeft
  <2>2. out = Content(s)
    BY <1>6, ContentType
  <2>3. Content(s) \o <<>> = Content(s)
    BY <1>5, ConcatEmptySeq
  <2> QED BY <1>3, <1>4, <2>1, <2>2, <2>3, Zenon DEF t
<1>7. CASE k < n
  <2>1. k \in 0 .. n - 1 /\ k + 1 \in 1 .. n
    BY <1>2, <1>7
  <2>2. Left(s, k + 1) \in Nat /\ s.chunks[k + 1].first \in Nat
    BY <2>1, SoundFields, ChunkFields
  <2>3. 0 \in 0 .. Left(s, k + 1)
    BY <2>2
  <2>4. /\ Len(t.chunks) = n - k
        /\ t.rd = (IF k = 0 THEN s.rd ELSE s.chunks[k + 1].first) + 0
        /\ \A i \in 1 .. Len(t.chunks) : t.chunks[i] = s.chunks[i + k]
    BY <1>1, <1>2, <1>7, <2>2
  <2>5. Remains(Bytes, Content(s), Upto(s, k) + 0, Content(t))
    BY <1>1, <2>1, <2>3, <2>4, ContentCut
  <2>6. Upto(s, k) + 0 = Len(out)
    BY UptoSteps DEF Upto
  <2> DEFINE w == FlattenSeq(SubSeq(Parts(s), k + 1, Len(Parts(s))))
  <2>7. w \in Seq(Bytes) /\ Content(s) = out \o w
    <3>1. Parts(s) \in Seq(Seq(Bytes)) /\ Len(Parts(s)) = n
      BY PartsOf
    <3>2. k \in 0 .. Len(Parts(s))
      BY <3>1
    <3> QED BY <3>1, <3>2, FlattenSplit DEF Content
  <2> HIDE DEF out, w
  <2>8. SubSeq(Content(s), 1, Len(out)) = out
    <3>1. SubSeq(out \o w, 1, Len(out)) = out
      BY <1>3, <2>7, ConcatCut
    <3> QED BY <2>7, <3>1
  <2>9. Content(s) = SubSeq(Content(s), 1, Len(out)) \o Content(t)
    <3> DEFINE c == Content(s)
               u == Content(t)
               l == Upto(s, k) + 0
    <3>1. c \in Seq(Bytes) /\ u \in Seq(Bytes) /\ Remains(Bytes, c, l, u) /\ l = Len(out)
      BY <1>5, <2>5, <2>6
    <3> HIDE DEF c, u, l
    <3>2. CutOff(Bytes, c, l, u)
      BY ONLY <3>1, RemainsCut, Zenon
    <3>3. c = SubSeq(c, 1, Len(out)) \o u
      BY ONLY <3>1, <3>2 DEF CutOff
    <3> QED BY <3>3 DEF c, u
  <2>10. Content(s) = out \o Content(t)
    BY ONLY <2>8, <2>9
  <2> QED BY <1>3, <1>4, <2>10, Zenon DEF t, out
<1> QED BY <1>2, <1>6, <1>7

\* What read takes comes off the front.
LEMMA ContentConsumed ==
  ASSUME PlaceAssumption, NEW s, Sound(s), NEW n \in Nat
  PROVE  Remains(Bytes, Content(s), Min({n, AllReadable(s)}), Content(Consumed(s, n)))
<1> DEFINE t == Consumed(s, n)
           k == DropsFor(s, n)
           d == n - Upto(s, k)
           all == AllReadable(s)
<1>1. /\ Sound(t)
      /\ \/ k = Len(s.chunks) /\ t.chunks = <<NullChunk>>
         \/ /\ k < Len(s.chunks) /\ Len(t.chunks) = Len(s.chunks) - k
            /\ d \in 0 .. Left(s, k + 1)
            /\ t.rd = (IF k = 0 THEN s.rd ELSE s.chunks[k + 1].first) + d
            /\ \A i \in 1 .. Len(t.chunks) : t.chunks[i] = s.chunks[i + k]
  BY ConsumedSound
<1>2. Len(s.chunks) \in Nat \ {0} /\ k \in 0 .. Len(s.chunks) /\ Upto(s, k) <= n
  BY SoundFields, DropsForFacts
<1>3. Upto(s, k) \in Nat
  BY <1>2, UptoSteps
<1>4. /\ Content(s) \in Seq(Bytes) /\ Content(t) \in Seq(Bytes) /\ all \in Nat
      /\ all = Len(Content(s)) /\ all = Upto(s, Len(s.chunks))
  BY <1>1, ContentType DEF AllReadable
<1>5. Min({n, all}) = IF n <= all THEN n ELSE all
  <2> HIDE DEF all
  <2> QED BY <1>4, MinOfTwo
<1> HIDE DEF t, k, all
<1>6. CASE k = Len(s.chunks) /\ t.chunks = <<NullChunk>>
  <2>1. all <= n
    BY <1>2, <1>4, <1>6
  <2>2. Min({n, all}) = all
    BY <1>4, <1>5, <2>1
  <2>3. Content(t) = <<>>
    BY <1>1, <1>6, NothingLeft
  <2>4. Content(s) \o <<>> = Content(s)
    BY <1>4, ConcatEmptySeq
  <2>5. Remains(Bytes, Content(s), all, Content(t))
    BY <1>4, <2>3, <2>4 DEF Remains
  <2> QED BY <2>2, <2>5, Zenon DEF t, all
<1>7. CASE /\ k < Len(s.chunks) /\ Len(t.chunks) = Len(s.chunks) - k
           /\ d \in 0 .. Left(s, k + 1)
           /\ t.rd = (IF k = 0 THEN s.rd ELSE s.chunks[k + 1].first) + d
           /\ \A i \in 1 .. Len(t.chunks) : t.chunks[i] = s.chunks[i + k]
  <2>1. k \in 0 .. Len(s.chunks) - 1
    BY <1>2, <1>7
  <2>2. Upto(s, k) + d = n
    BY <1>3, <1>7
  <2> HIDE DEF d
  <2>3. Remains(Bytes, Content(s), Upto(s, k) + d, Content(t))
    BY <1>1, <1>7, <2>1, ContentCut
  <2>4. Remains(Bytes, Content(s), n, Content(t))
    BY <2>2, <2>3
  <2>5. n <= all
    <3>1. CutOff(Bytes, Content(s), n, Content(t))
      BY ONLY <1>4, <2>4, RemainsCut, Zenon
    <3> DEFINE l == Len(Content(t))
               c == Content(s)
    <3>2. Len(c) = n + l /\ l \in Nat
      BY <3>1 DEF CutOff
    <3>3. all = Len(c)
      BY <1>4
    <3> HIDE DEF l, c
    <3> QED BY ONLY <3>2, <3>3, n \in Nat
  <2>6. Min({n, all}) = n
    BY <1>5, <2>5
  <2> QED BY <2>4, <2>6, Zenon DEF t, all
<1> QED BY <1>1, <1>6, <1>7

\* The same chunks read from the same place hold the same.
LEMMA ContentSame ==
  ASSUME NEW s, Sound(s), NEW t, Sound(t), t.rd = s.rd, Len(t.chunks) = Len(s.chunks),
         \A i \in 1 .. Len(s.chunks) : t.chunks[i] = s.chunks[i]
  PROVE  Content(t) = Content(s)
<1>1. s.chunks \in Seq(Chunk) /\ t.chunks \in Seq(Chunk)
  BY SoundFields
<1>2. t.chunks = s.chunks
  BY <1>1, SeqEqual
<1>3. Parts(t) = Parts(s)
  BY <1>2 DEF Parts, TopChunk
<1> QED BY <1>3 DEF Content

\* t is s with bytes behind those of the tail.
TailGrows(t, s, bytes) ==
  LET n == Len(s.chunks) IN
  /\ t.rd = s.rd /\ Len(t.chunks) = n
  /\ \A i \in 1 .. n - 1 : t.chunks[i] = s.chunks[i]
  /\ t.chunks[n].first = s.chunks[n].first
  /\ t.chunks[n].data = s.chunks[n].data \o bytes

\* The bytes put behind the tail's come last.
LEMMA ContentGrown ==
  ASSUME NEW s, Sound(s), NEW t, Sound(t), NEW bytes \in Seq(Bytes), TailGrows(t, s, bytes)
  PROVE  Content(t) = Content(s) \o bytes
<1> DEFINE n == Len(s.chunks)
           q == Parts(s)
           r == Parts(t)
           S == Bytes
           c == s.chunks[n]
           d == t.chunks[n]
<1>1. /\ n \in Nat \ {0} /\ s.rd \in Nat /\ 1 \in 1 .. n /\ n \in 1 .. n
  BY SoundFields
<1>2. /\ t.rd = s.rd /\ Len(t.chunks) = n
      /\ \A i \in 1 .. n - 1 : t.chunks[i] = s.chunks[i]
      /\ d.first = c.first /\ d.data = c.data \o bytes
  BY DEF TailGrows
<1>3. c.first \in Nat /\ c.data \in Seq(S) /\ Len(c.data) \in Nat
  BY <1>1, SoundFields, ChunkFields
<1>4. /\ q \in Seq(Seq(S)) /\ Len(q) = n /\ q # <<>>
      /\ q[1] = SubSeq(s.chunks[1].data, s.rd - s.chunks[1].first + 1, Len(s.chunks[1].data))
      /\ \A i \in 1 .. n : i # 1 => q[i] = s.chunks[i].data
  BY PartsOf
<1>5. /\ r \in Seq(Seq(S)) /\ Len(r) = n
      /\ r[1] = SubSeq(t.chunks[1].data, t.rd - t.chunks[1].first + 1, Len(t.chunks[1].data))
      /\ \A i \in 1 .. n : i # 1 => r[i] = t.chunks[i].data
  BY <1>2, PartsOf
<1> HIDE DEF q, r, S
<1>6. r[n] = q[n] \o bytes
  <2>1. CASE n = 1
    <3> DEFINE a == s.rd - c.first
               x == c.data
               y == d.data
    <3>1. a \in 0 .. Len(x)
      <4>1. c.first <= s.rd /\ s.rd <= End(c)
        BY <2>1 DEF Sound, Laid
      <4> QED BY <1>1, <1>3, <4>1 DEF End
    <3>2. q[1] = SubSeq(x, a + 1, Len(x)) /\ r[1] = SubSeq(y, a + 1, Len(y))
      BY <1>2, <1>4, <1>5, <2>1
    <3>3. y = x \o bytes /\ x \in Seq(S) /\ bytes \in Seq(S)
      BY <1>2, <1>3 DEF S
    <3> HIDE DEF a, x, y
    <3>4. SubSeq(x \o bytes, a + 1, Len(x \o bytes)) = SubSeq(x, a + 1, Len(x)) \o bytes
      BY ONLY <3>1, <3>3, GrownCut
    <3>5. r[1] = q[1] \o bytes
      BY ONLY <3>2, <3>3, <3>4
    <3> QED BY <2>1, <3>5
  <2>2. CASE n # 1
    BY <1>1, <1>2, <1>4, <1>5, <2>2
  <2> QED BY <2>1, <2>2
<1>7. \A i \in 1 .. n - 1 : r[i] = q[i]
  <2> SUFFICES ASSUME NEW i \in 1 .. n - 1 PROVE r[i] = q[i]
    OBVIOUS
  <2>1. t.chunks[i] = s.chunks[i] /\ i \in 1 .. n
    BY <1>1, <1>2
  <2>2. CASE i = 1
    <3>1. t.chunks[1] = s.chunks[1] /\ t.rd = s.rd
      BY <1>2, <2>1, <2>2
    <3>2. r[1] = q[1]
      BY <1>4, <1>5, <3>1
    <3> QED BY <2>2, <3>2
  <2>3. CASE i # 1
    BY <1>4, <1>5, <2>1, <2>3
  <2> QED BY <2>2, <2>3
<1>8. FlattenSeq(r) = FlattenSeq(q) \o bytes
  <2>1. q \in Seq(Seq(S)) /\ r \in Seq(Seq(S)) /\ bytes \in Seq(S) /\ q # <<>>
    BY <1>4, <1>5 DEF S
  <2>2. Len(r) = Len(q) /\ r[Len(q)] = q[Len(q)] \o bytes /\ \A i \in 1 .. Len(q) - 1 : r[i] = q[i]
    BY <1>4, <1>5, <1>6, <1>7
  <2> QED BY ONLY <2>1, <2>2, FlattenLastGrown
<1> QED BY <1>8 DEF q, r, Content

\* A chunk behind the others adds its bytes.
LEMMA ContentGrows ==
  ASSUME PlaceAssumption, NEW s, Sound(s), NEW t, Sound(t), NEW c, Grows(t, s, c)
  PROVE  /\ c.data \in Seq(Bytes)
         /\ Content(t) = Content(s) \o c.data
<1> DEFINE n == Len(s.chunks)
           q == Parts(s)
           r == Parts(t)
           S == Bytes
           e == c.data
<1>1. n \in Nat \ {0} /\ Content(s) \in Seq(Bytes)
  BY SoundFields, ContentType
<1>2. CASE /\ Len(t.chunks) = n + 1 /\ t.chunks[n + 1] = c
           /\ \A i \in 1 .. n : t.chunks[i] = s.chunks[i]
           /\ t.rd = s.rd
  <2>1. n + 1 \in 1 .. Len(t.chunks) /\ n + 1 # 1 /\ 1 \in 1 .. n
    BY <1>1, <1>2
  <2>2. e \in Seq(S)
    BY <1>2, <2>1, SoundFields, ChunkFields
  <2>3. /\ q \in Seq(Seq(S)) /\ Len(q) = n
        /\ q[1] = SubSeq(s.chunks[1].data, s.rd - s.chunks[1].first + 1, Len(s.chunks[1].data))
        /\ \A i \in 1 .. n : i # 1 => q[i] = s.chunks[i].data
    BY PartsOf
  <2>4. /\ r \in Seq(Seq(S)) /\ Len(r) = n + 1
        /\ r[1] = SubSeq(t.chunks[1].data, t.rd - t.chunks[1].first + 1, Len(t.chunks[1].data))
        /\ \A i \in 1 .. n + 1 : i # 1 => r[i] = t.chunks[i].data
    BY <1>2, PartsOf
  <2> HIDE DEF q, r, S
  <2>5. t.chunks[1] = s.chunks[1] /\ t.rd = s.rd
    BY <1>2, <2>1
  <2>6. r[1] = q[1]
    BY <2>3, <2>4, <2>5
  <2>7. r[n + 1] = e
    BY <1>2, <2>1, <2>4
  <2>8. \A i \in 1 .. n : r[i] = q[i]
    <3> SUFFICES ASSUME NEW i \in 1 .. n, i # 1 PROVE r[i] = q[i]
      BY <2>6
    <3>1. i \in 1 .. n + 1
      BY <1>1
    <3> QED BY <1>2, <2>3, <2>4, <3>1
  <2> DEFINE a == Append(q, e)
             T == Seq(S)
  <2>9. q \in Seq(T) /\ r \in Seq(T) /\ e \in T
    BY <2>2, <2>3, <2>4
  <2> HIDE DEF T, e, n
  <2>10. a \in Seq(T) /\ Len(a) = n + 1 /\ a[n + 1] = e /\ \A i \in 1 .. n : a[i] = q[i]
    BY <2>3, <2>9, AppendProperties
  <2> HIDE DEF a
  <2>11. \A i \in 1 .. n + 1 : r[i] = a[i]
    BY <1>1, <2>7, <2>8, <2>10
  <2>12. r = a
    BY <2>4, <2>9, <2>10, <2>11, SeqEqual
  <2>13. q \in Seq(Seq(S)) /\ e \in Seq(S)
    BY <2>9 DEF T
  <2>14. FlattenSeq(q) \in Seq(S)
    BY <2>13, FlattenType
  <2>15. FlattenSeq(Append(q, e)) = FlattenSeq(q) \o e
    BY ONLY <2>13, <2>14, FlattenAppend
  <2>16. FlattenSeq(r) = FlattenSeq(q) \o e
    BY <2>12, <2>15 DEF a
  <2> QED BY <2>13, <2>16 DEF q, r, S, e, Content
<1>3. CASE s.chunks = <<NullChunk>> /\ t.chunks = <<c>> /\ t.rd = c.first
  <2>1. Len(t.chunks) = 1 /\ t.chunks[1] = c /\ 1 \in 1 .. 1
    BY <1>3
  <2>2. e \in Seq(S) /\ c.first \in Nat
    BY <2>1, SoundFields, ChunkFields
  <2>3. /\ r \in Seq(Seq(S)) /\ Len(r) = 1
        /\ r[1] = SubSeq(c.data, t.rd - c.first + 1, Len(c.data))
    BY <2>1, PartsOf
  <2>4. SubSeq(e, 1, Len(e)) = e
    BY <2>2, SubSeqFull
  <2>5. r[1] = e
    BY <1>3, <2>2, <2>3, <2>4
  <2>6. Content(s) = <<>>
    BY <1>3, NothingLeft
  <2>7. Content(t) = e
    <3> HIDE DEF S, r, e
    <3>1. r \in Seq(Seq(S)) /\ r # <<>> /\ Len(r) = 1
      BY <2>3, EmptySeq
    <3>2. FlattenSeq(r) = r[1] \o FlattenSeq(SubSeq(r, 2, Len(r)))
      BY ONLY <3>1, FlattenFirst
    <3>3. SubSeq(r, 2, Len(r)) = <<>>
      BY <3>1, SubSeqEmpty
    <3>4. FlattenSeq(r) = r[1] \o <<>>
      BY <3>2, <3>3, FlattenNone
    <3>5. FlattenSeq(r) = e \o <<>>
      BY <2>5, <3>4
    <3>6. e \o <<>> = e
      BY <2>2, ConcatEmptySeq
    <3> QED BY <3>5, <3>6 DEF r, Content
  <2>8. <<>> \o e = e
    BY <2>2, ConcatEmptySeq
  <2> QED BY <2>2, <2>6, <2>7, <2>8
<1> QED BY <1>2, <1>3 DEF Grows
-----------------------------------------------------------------------------
(* What appending does to what the buffers hold *)

\* r is m with bytes behind those of b, and nothing else changed.
AddsTo(m, r, b, bytes) ==
  /\ Content(r[b]) = Content(m[b]) \o bytes
  /\ \A x \in Buffer \ {b} : Content(r[x]) = Content(m[x])

\* Bytes are put behind b's, and then more.
LEMMA AddsTwice ==
  ASSUME NEW m, AllSound(m), NEW r, NEW s, NEW b \in Buffer,
         NEW first \in Seq(Bytes), NEW rest \in Seq(Bytes),
         AddsTo(m, r, b, first), AddsTo(r, s, b, rest)
  PROVE  AddsTo(m, s, b, first \o rest)
<1> DEFINE c == Content(m[b])
<1>1. c \in Seq(Bytes)
  BY ContentType DEF AllSound
<1>2. Content(r[b]) = c \o first /\ Content(s[b]) = Content(r[b]) \o rest
  BY DEF AddsTo
<1> HIDE DEF c
<1>3. (c \o first) \o rest = c \o (first \o rest)
  BY ONLY <1>1, first \in Seq(Bytes), rest \in Seq(Bytes), ConcatAssociative
<1>4. Content(s[b]) = c \o (first \o rest)
  BY ONLY <1>2, <1>3
<1>5. \A x \in Buffer \ {b} : Content(s[x]) = Content(m[x])
  BY Zenon DEF AddsTo
<1> QED BY <1>4, <1>5 DEF AddsTo, c

\* No bytes at all.
LEMMA AddsNothing ==
  ASSUME NEW m, AllSound(m), NEW r, NEW b \in Buffer,
         \A x \in Buffer : Content(r[x]) = Content(m[x])
  PROVE  AddsTo(m, r, b, <<>>)
<1> DEFINE c == Content(m[b])
<1>1. c \in Seq(Bytes)
  BY ContentType DEF AllSound
<1>2. c \o <<>> = c
  BY <1>1, ConcatEmptySeq
<1> QED BY <1>2 DEF AddsTo

\* In the build that does not reuse page ends, no other chunk lies where a tail
\* writes: what it writes is not seen through any of them.
LEMMA NotSeen ==
  ASSUME ~ReuseFragment, NEW m, NEW used, Books(m, used), AllSound(m), NEW b \in Buffer
  PROVE  \A x \in Buffer : \A i \in 1 .. Len(m[x].chunks) : x # b \/ i # Len(m[b].chunks) =>
           \A off, bytes :
             Clobbered(m[x].chunks[i], TailChunk(m[b]).at, off, bytes) = m[x].chunks[i]
<1> SUFFICES ASSUME NEW x \in Buffer, NEW i \in 1 .. Len(m[x].chunks),
                    x # b \/ i # Len(m[b].chunks), NEW off, NEW bytes
             PROVE  Clobbered(m[x].chunks[i], TailChunk(m[b]).at, off, bytes) = m[x].chunks[i]
  OBVIOUS
<1> DEFINE n == Len(m[b].chunks)
           c == m[x].chunks[i]
           d == m[b].chunks[n]
<1>1. n \in 1 .. n /\ TailChunk(m[b]) = d
  BY SoundFields DEF AllSound
<1>2. Unshared(m) /\ OwnsItsPage(c) /\ OwnsItsPage(d)
  BY <1>1, OwnedByIndex DEF Books
<1>3. ASSUME c.at = d.at, d.at \in Page PROVE FALSE
  <2>1. c.mem = c.at /\ d.mem = d.at
    BY <1>2, <1>3 DEF OwnsItsPage
  <2>2. d.mem \in Page /\ d.mem = c.mem
    BY <1>3, <2>1
  <2>3. n \in 1 .. Len(m[b].chunks) /\ i \in 1 .. Len(m[x].chunks)
    BY <1>1
  <2>4. m[b].chunks[n].mem \in Page /\ m[b].chunks[n].mem = m[x].chunks[i].mem
    BY <2>2
  <2> HIDE DEF n
  <2>5. b = x /\ n = i
    BY <1>2, <2>3, <2>4, Zenon DEF Unshared
  <2> QED BY <2>5 DEF n
<1>4. c.at # d.at \/ d.at \notin Page
  BY <1>3
<1>5. Clobbered(c, d.at, off, bytes) = c
  BY <1>4 DEF Clobbered
<1> QED BY <1>1, <1>5

\* Bytes stored behind the tail's are put behind the buffer's.
LEMMA StoredAdds ==
  ASSUME PlaceAssumption, ~ReuseFragment, NEW m, NEW used, Books(m, used), AllSound(m),
         NEW b \in Buffer, NEW bytes \in Seq(Bytes), Len(bytes) <= Writable(m[b])
  PROVE  AddsTo(m, Stored(m, b, bytes), b, bytes)
<1> DEFINE r == Stored(m, b, bytes)
           n == Len(m[b].chunks)
           t == TailChunk(m[b])
<1>1. /\ AllSound(r)
      /\ r[b].chunks[n].data = t.data \o bytes /\ r[b].chunks[n].first = t.first
      /\ \A x \in Buffer : Len(r[x].chunks) = Len(m[x].chunks) /\ r[x].rd = m[x].rd
      /\ \A x \in Buffer : \A i \in 1 .. Len(m[x].chunks) : x # b \/ i # n =>
           r[x].chunks[i] = Clobbered(m[x].chunks[i], t.at, End(t), bytes)
  BY StoredSound
<1>2. n \in Nat \ {0} /\ t = m[b].chunks[n]
  BY SoundFields DEF AllSound
<1> HIDE DEF r
<1>3. \A x \in Buffer : \A i \in 1 .. Len(m[x].chunks) : x # b \/ i # n => r[x].chunks[i] = m[x].chunks[i]
  <2> SUFFICES ASSUME NEW x \in Buffer, NEW i \in 1 .. Len(m[x].chunks), x # b \/ i # n
               PROVE  r[x].chunks[i] = m[x].chunks[i]
    OBVIOUS
  <2>1. Clobbered(m[x].chunks[i], t.at, End(t), bytes) = m[x].chunks[i]
    <3>1. \A y \in Buffer : \A j \in 1 .. Len(m[y].chunks) : y # b \/ j # n =>
            \A off, bs : Clobbered(m[y].chunks[j], t.at, off, bs) = m[y].chunks[j]
      BY NotSeen
    <3> DEFINE a == t.at
               e == End(t)
    <3> HIDE DEF n, t, a, e
    <3>2. \A off, bs : Clobbered(m[x].chunks[i], a, off, bs) = m[x].chunks[i]
      BY <3>1, Zenon DEF a
    <3>3. Clobbered(m[x].chunks[i], a, e, bytes) = m[x].chunks[i]
      BY ONLY <3>2, Zenon
    <3> QED BY <3>3 DEF a, e
  <2> QED BY <1>1, <2>1
<1>4. ASSUME NEW x \in Buffer \ {b} PROVE Content(r[x]) = Content(m[x])
  <2>1. Sound(m[x]) /\ Sound(r[x])
    BY <1>1 DEF AllSound
  <2>2. /\ r[x].rd = m[x].rd /\ Len(r[x].chunks) = Len(m[x].chunks)
        /\ \A i \in 1 .. Len(m[x].chunks) : r[x].chunks[i] = m[x].chunks[i]
    BY <1>1, <1>3
  <2> QED BY <2>1, <2>2, ContentSame
<1>5. Content(r[b]) = Content(m[b]) \o bytes
  <2>1. Sound(m[b]) /\ Sound(r[b])
    BY <1>1 DEF AllSound
  <2>2. \A i \in 1 .. n - 1 : r[b].chunks[i] = m[b].chunks[i]
    <3> SUFFICES ASSUME NEW i \in 1 .. n - 1 PROVE r[b].chunks[i] = m[b].chunks[i]
      OBVIOUS
    <3>1. i \in 1 .. n /\ i # n
      BY <1>2
    <3> QED BY <1>3, <3>1
  <2>3. TailGrows(r[b], m[b], bytes)
    BY <1>1, <1>2, <2>2 DEF TailGrows
  <2> QED BY <2>1, <2>3, ContentGrown
<1> QED BY <1>4, <1>5 DEF AddsTo, r

\* Room at the tail adds nothing.
LEMMA RoomyAdds ==
  ASSUME PlaceAssumption, SizeAssumption, NEW m, AllSound(m), AllTight(m), NEW b \in Buffer,
         NEW n \in Nat \ {0}, NEW p \in Page
  PROVE  AddsTo(m, Roomy(m, b, n, p), b, <<>>)
<1> DEFINE r == Roomy(m, b, n, p)
           s == m[b]
           t == Room(s, n, p)
<1>1. Sound(s) /\ Tight(s)
  BY DEF AllSound, AllTight
<1>2. r[b] = t /\ \A x \in Buffer \ {b} : r[x] = m[x]
  BY RoomySound
<1> HIDE DEF s, r
<1>3. /\ Sound(t)
      /\ \/ t.chunks = s.chunks /\ t.rd = s.rd
         \/ \E c : Grows(t, s, c) /\ c.data = <<>>
  BY <1>1, RoomSound
<1> HIDE DEF t
<1>4. Content(t) = Content(s)
  <2>1. CASE t.chunks = s.chunks /\ t.rd = s.rd
    BY <1>1, <1>3, <2>1, ContentSame
  <2>2. CASE \E c : Grows(t, s, c) /\ c.data = <<>>
    <3>1. PICK c : Grows(t, s, c) /\ c.data = <<>>
      BY <2>2
    <3>2. Content(t) = Content(s) \o c.data
      BY <1>1, <1>3, <3>1, ContentGrows
    <3>3. Content(s) \o <<>> = Content(s)
      BY <1>1, ContentType, ConcatEmptySeq
    <3> QED BY <3>1, <3>2, <3>3
  <2> QED BY <1>3, <2>1, <2>2
<1>5. \A x \in Buffer : Content(r[x]) = Content(m[x])
  BY <1>2, <1>4 DEF s
<1>6. AddsTo(m, r, b, <<>>)
  BY <1>5, AddsNothing
<1> QED BY <1>6 DEF r

\* Bytes appended are put behind the buffer's, whether they fit at the tail,
\* fill it and go on in a new chunk, or find no room there.
LEMMA AppendedAdds ==
  ASSUME PlaceAssumption, SizeAssumption, ~ReuseFragment, NEW m, NEW used, Books(m, used),
         AllSound(m), AllTight(m), NEW b \in Buffer, NEW bytes \in Seq(Bytes), NEW p \in Page \ used
  PROVE  AddsTo(m, Appended(m, b, bytes, p), b, bytes)
<1> DEFINE avail == Writable(m[b])
           n == Len(bytes)
           first == SubSeq(bytes, 1, avail)
           rest == SubSeq(bytes, avail + 1, n)
           m1 == Stored(m, b, first)
           m2 == Roomy(m1, b, n - avail, p)
           r == Appended(m, b, bytes, p)
           Goal == AddsTo(m, r, b, bytes)
<1>1. n \in Nat /\ avail \in Nat
  BY SoundFields, LenProperties DEF AllSound
<1>2. ASSUME n <= avail PROVE Goal
  <2>1. r = Stored(m, b, bytes)
    BY <1>2 DEF Appended
  <2>2. AddsTo(m, Stored(m, b, bytes), b, bytes)
    BY <1>2, StoredAdds
  <2> QED BY <2>1, <2>2
<1>3. ASSUME ~(n <= avail) PROVE Goal
  <2>1. r = Stored(m2, b, rest)
    BY <1>3 DEF Appended
  <2>2. /\ first \in Seq(Bytes) /\ Len(first) = avail
        /\ rest \in Seq(Bytes) /\ Len(rest) = n - avail /\ n - avail \in Nat \ {0}
    BY <1>1, <1>3, CutOf
  <2>3. bytes = first \o rest
    <3>1. avail \in 0 .. Len(bytes)
      BY <1>1, <1>3
    <3> HIDE DEF avail
    <3> QED BY <3>1, CutConcat
  <2> HIDE DEF first, rest, n, r
  <2>4. AllSound(m1) /\ AllTight(m1) /\ AddsTo(m, m1, b, first) /\ Books(m1, used)
    <3>1. Len(first) <= Writable(m[b])
      BY <1>1, <2>2
    <3>2. AllSound(m1)
      BY <2>2, <3>1, StoredSound
    <3>3. AllTight(m1)
      BY <2>2, <3>1, StoredTight DEF AllTight
    <3>4. AddsTo(m, m1, b, first)
      BY <2>2, <3>1, StoredAdds
    <3>5. Books(m1, used)
      BY StoredBooks
    <3> QED BY <3>2, <3>3, <3>4, <3>5
  <2> HIDE DEF m1
  <2> DEFINE k == n - avail
  <2>5. /\ AllSound(m2) /\ Writable(m2[b]) >= k /\ AddsTo(m1, m2, b, <<>>)
        /\ Books(m2, WithTail(m2, b, used))
    <3>1. k \in Nat \ {0} /\ m2 = Roomy(m1, b, k, p) /\ p \in Page
      BY <2>2
    <3> HIDE DEF k, m2
    <3>2. AllSound(m2) /\ Writable(m2[b]) >= k
      BY <2>4, <3>1, RoomySound
    <3>3. AddsTo(m1, m2, b, <<>>)
      BY <2>4, <3>1, RoomyAdds
    <3>4. Books(m2, WithTail(m2, b, used))
      BY <2>4, <3>1, RoomyBooks
    <3> QED BY <3>2, <3>3, <3>4
  <2> HIDE DEF m2
  <2>6. Len(rest) <= Writable(m2[b])
    <3>1. Writable(m2[b]) \in Nat
      BY <2>5, SoundFields DEF AllSound
    <3> QED BY <2>2, <2>5, <3>1
  <2>7. AddsTo(m2, Stored(m2, b, rest), b, rest)
    BY <2>2, <2>5, <2>6, StoredAdds
  <2>8. <<>> \in Seq(Bytes) /\ first \o <<>> = first
    BY <2>2, EmptySeq, ConcatEmptySeq
  <2>9. AddsTo(m, m2, b, first \o <<>>)
    BY ONLY AllSound(m), b \in Buffer, <2>2, <2>4, <2>5, <2>8, AddsTwice
  <2>10. AddsTo(m, m2, b, first)
    BY <2>8, <2>9
  <2>11. AddsTo(m, Stored(m2, b, rest), b, first \o rest)
    BY ONLY AllSound(m), b \in Buffer, <2>2, <2>7, <2>10, AddsTwice
  <2> QED BY <2>1, <2>3, <2>11
<1>4. Goal
  BY <1>2, <1>3
<1> QED BY <1>4

\* So are bytes stored where room was made for them.
LEMMA EnsuredAdds ==
  ASSUME PlaceAssumption, SizeAssumption, ~ReuseFragment, NEW m, NEW used, Books(m, used),
         AllSound(m), AllTight(m), NEW b \in Buffer, NEW n \in Nat,
         NEW bytes \in Seq(Bytes), Len(bytes) > 0, Len(bytes) <= n, NEW p \in Page \ used
  PROVE  AddsTo(m, Stored(Ensured(m, b, n, p), b, bytes), b, bytes)
<1> DEFINE e == Ensured(m, b, n, p)
           r == Stored(e, b, bytes)
<1>1. p \in Page
  OBVIOUS
<1>2. /\ AllSound(e) /\ Len(bytes) <= Writable(e[b])
      /\ e = m \/ (n > 0 /\ e = Roomy(m, b, n, p))
  BY <1>1, EnsuredSound
<1> HIDE DEF e
<1>3. CASE e = m
  BY <1>2, <1>3, StoredAdds DEF e
<1>4. CASE n > 0 /\ e = Roomy(m, b, n, p)
  <2>1. n \in Nat \ {0}
    BY <1>4
  <2>2. AddsTo(m, e, b, <<>>)
    BY <1>1, <1>4, <2>1, RoomyAdds
  <2>3. Books(e, WithTail(e, b, used))
    BY <1>4, RoomyBooks
  <2>4. AddsTo(e, r, b, bytes)
    BY <1>2, <2>3, StoredAdds
  <2>5. <<>> \in Seq(Bytes) /\ <<>> \o bytes = bytes
    BY EmptySeq, ConcatEmptySeq
  <2> HIDE DEF r
  <2>6. AddsTo(m, r, b, <<>> \o bytes)
    BY ONLY AllSound(m), b \in Buffer, bytes \in Seq(Bytes), <2>2, <2>4, <2>5, AddsTwice
  <2>7. AddsTo(m, r, b, bytes)
    BY <2>5, <2>6
  <2> QED BY <2>7 DEF r, e
<1> QED BY <1>2, <1>3, <1>4
-----------------------------------------------------------------------------
(* Steps of the buffers as steps of the queue *)

\* The bytes the queue of b has, as Buffer gives them to ByteQueue.
LEMMA QueueContent ==
  ASSUME NEW b \in Buffer
  PROVE  /\ [x \in Buffer |-> Content(buf[x])][b] = Content(buf[b])
         /\ [x \in Buffer |-> Content(buf'[x])][b] = Content(buf'[b])
OBVIOUS

\* A call that takes bytes in behind and gives bytes out in front keeps the
\* order of the queue.
LEMMA PassesMoved ==
  ASSUME AllSound(buf), AllSound(buf'), NEW b \in Buffer,
         NEW op, NEW n, NEW in \in Seq(Bytes), NEW out \in Seq(Bytes), NEW raised,
         Called(op, b, n, in, out, raised), Passes(buf, buf', b, in, out)
  PROVE  Queue!Moved(b)
<1> DEFINE old == Content(buf[b])
           new == Content(buf'[b])
           q == old \o in
           C == [x \in Buffer |-> Content(buf[x])]
           D == [x \in Buffer |-> Content(buf'[x])]
<1>1. old \in Seq(Bytes) /\ new \in Seq(Bytes)
  BY ContentType DEF AllSound
<1>2. q = out \o new /\ \A x \in Buffer \ {b} : Content(buf'[x]) = Content(buf[x])
  BY DEF Passes
<1>3. call'.in = in /\ call'.out = out
  BY DEF Called
<1>4. /\ Len(out) <= Len(q) /\ out = SubSeq(q, 1, Len(out))
      /\ new = SubSeq(q, Len(out) + 1, Len(q))
  <2> HIDE DEF old, new, q
  <2>1. /\ Len(out) <= Len(out \o new)
        /\ SubSeq(out \o new, 1, Len(out)) = out
        /\ SubSeq(out \o new, Len(out) + 1, Len(out \o new)) = new
    BY ONLY <1>1, out \in Seq(Bytes), ConcatCut
  <2> QED BY ONLY <1>2, <2>1
<1> DEFINE v == SubSeq(q, Len(out) + 1, Len(q))
<1>5. D = [C EXCEPT ![b] = v]
  <2>1. D[b] = v /\ \A x \in Buffer \ {b} : D[x] = C[x]
    BY <1>2, <1>4
  <2>2. D = [x \in Buffer |-> D[x]] /\ C = [x \in Buffer |-> C[x]]
    OBVIOUS
  <2> HIDE DEF C, D, v
  <2> QED BY <2>1, <2>2
<1>6. C[b] = old
  OBVIOUS
<1> HIDE DEF old, new
<1>7. /\ Len(call'.out) <= Len(C[b] \o call'.in)
      /\ call'.out = SubSeq(C[b] \o call'.in, 1, Len(call'.out))
      /\ D = [C EXCEPT ![b] = SubSeq(C[b] \o call'.in, Len(call'.out) + 1, Len(C[b] \o call'.in))]
  <2> HIDE DEF C, D
  <2> QED BY <1>3, <1>4, <1>5, <1>6
<1> QED BY <1>7, Zenon DEF Queue!Moved

\* The first k chunks go out, and bytes come in behind the rest.
LEMMA SentPasses ==
  ASSUME PlaceAssumption, AllSound(buf), NEW b \in Buffer, NEW k \in 0 .. Len(buf[b].chunks),
         NEW bytes \in Seq(Bytes), NEW r, AddsTo(Flushed(b, k), r, b, bytes)
  PROVE  /\ Passes(buf, r, b, bytes, Sent(b, k)) /\ Sent(b, k) \in Seq(Bytes)
         /\ k = 0 => Sent(b, k) = <<>>
<1> DEFINE m == Flushed(b, k)
           s == buf[b]
           out == Sent(b, k)
           c == Content(s)
           d == Content(m[b])
<1>1. Sound(s) /\ buf = [x \in Buffer |-> buf[x]]
  BY DEF AllSound
<1>2. m[b] = Shifted(s, k) /\ \A x \in Buffer \ {b} : m[x] = buf[x]
  BY <1>1 DEF Flushed
<1>3. out \in Seq(Bytes) /\ c = out \o Content(Shifted(s, k)) /\ (k = 0 => out = <<>>)
  BY <1>1, ContentShifted DEF Sent
<1>4. d \in Seq(Bytes) /\ c = out \o d
  <2>1. Sound(Shifted(s, k))
    BY <1>1, ShiftedSound
  <2>2. Content(Shifted(s, k)) \in Seq(Bytes)
    BY <2>1, ContentType
  <2> QED BY <1>2, <1>3, <2>2
<1>5. /\ Content(r[b]) = d \o bytes
      /\ \A x \in Buffer \ {b} : Content(r[x]) = Content(m[x])
  BY DEF AddsTo
<1> HIDE DEF out, c, d, m
<1>6. (out \o d) \o bytes = out \o (d \o bytes)
  BY ONLY <1>3, <1>4, bytes \in Seq(Bytes), ConcatAssociative
<1>7. c \o bytes = out \o Content(r[b])
  BY ONLY <1>4, <1>5, <1>6
<1>8. \A x \in Buffer \ {b} : Content(r[x]) = Content(buf[x])
  BY <1>2, <1>5
<1> QED BY <1>3, <1>7, <1>8 DEF Passes, out, c

\* What the last call did, when it was a step of the queue.
LEMMA QueueNext ==
  ASSUME NEW b \in Buffer, call'.buf = b, Queue!Moved(b),
         \/ Queue!Write(b) \/ Queue!Sends(b) \/ Queue!Read(b) \/ Queue!ReadAll(b)
         \/ Queue!Feed(b) \/ Queue!Flush(b) \/ Queue!Clear(b)
  PROVE  Queue!Next
BY DEF Queue!Next

\* The rest of a call whose flushing is over.
LEMMA GoesOnQueue ==
  ASSUME PlaceAssumption, SizeAssumption, ~ReuseFragment, ChunkInv, BufferInv, ChunkInv',
         NEW b \in Buffer, NEW k \in 0 .. Len(buf[b].chunks), NEW w, Asked(b, w),
         w.op = "flush" => k = Len(buf[b].chunks) \/ buf[b].chunks = <<NullChunk>>,
         w.op \in {"append", "ensure"} => k = 0 \/ b \in IoBuffer,
         GoesOn(b, k, w)
  PROVE  Queue!Next
<1> DEFINE m == Flushed(b, k)
           bytes == NextBytes(b, w.n)
           out == Sent(b, k)
           D == [x \in Buffer |-> Content(buf'[x])]
<1>1. /\ AllSound(buf) /\ AllTight(buf) /\ AllSound(buf')
      /\ stamp \in [Buffer -> 0 .. Stamps - 1]
  BY DEF ChunkInv
<1>2. /\ AllSound(m) /\ AllTight(m)
      /\ k = Len(buf[b].chunks) => m[b].chunks = <<NullChunk>>
      /\ buf[b].chunks = <<NullChunk>> => m[b].chunks = <<NullChunk>>
  BY <1>1, FlushedSound
<1>3. Books(m, inUse \ FreedPages(buf[b], k))
  BY GivesBackBooks
<1>4. AddsTo(m, m, b, <<>>) /\ <<>> \in Seq(Bytes)
  BY <1>2, AddsNothing, EmptySeq
<1>5. D[b] = Content(buf'[b])
  OBVIOUS
<1> HIDE DEF D
<1>6. ASSUME GivesBack(b, k), NEW op, NEW n, Called(op, b, n, <<>>, out, FALSE)
      PROVE  Queue!Moved(b)
  <2>1. buf' = m
    BY <1>6 DEF GivesBack
  <2> HIDE DEF m, out
  <2>2. Passes(buf, buf', b, <<>>, Sent(b, k)) /\ Sent(b, k) \in Seq(Bytes)
    BY <1>1, <1>4, <2>1, SentPasses DEF m
  <2>3. Called(op, b, n, <<>>, Sent(b, k), FALSE)
    BY <1>6 DEF out
  <2> QED BY ONLY <1>1, <1>4, <2>2, <2>3, b \in Buffer, PassesMoved
<1>7. CASE w.op = "flush" /\ GivesBack(b, k) /\ Called("flush", b, 0, <<>>, out, FALSE)
  <2>1. Queue!Moved(b)
    BY <1>6, <1>7
  <2>2. Content(buf'[b]) = <<>>
    <3>1. buf'[b].chunks = <<NullChunk>>
      BY <1>2, <1>7 DEF GivesBack
    <3>2. Sound(buf'[b])
      BY <1>1 DEF AllSound
    <3> QED BY <3>1, <3>2, NothingLeft
  <2>3. call'.op = "flush" /\ call'.in = <<>> /\ call'.buf = b
    BY <1>7 DEF Called
  <2>4. Queue!Flush(b)
    BY <1>5, <2>2, <2>3 DEF Queue!Flush, D
  <2> QED BY <2>1, <2>3, <2>4, QueueNext
<1>8. CASE w.op = "bypass" /\ GivesBack(b, k) /\ Called("sends", b, 0, <<>>, out, FALSE)
  <2>1. Queue!Moved(b)
    BY <1>6, <1>8
  <2>2. call'.op = "sends" /\ call'.in = <<>> /\ call'.buf = b
    BY <1>8 DEF Called
  <2>3. Queue!Sends(b)
    BY <2>2 DEF Queue!Sends
  <2> QED BY <2>1, <2>2, <2>3, QueueNext
<1>9. CASE /\ w.op \in {"append", "ensure"}
           /\ \E p \in FreePages(b, k) :
                buf' = IF w.op = "append" THEN Appended(m, b, bytes, p)
                       ELSE Stored(Ensured(m, b, w.require, p), b, bytes)
           /\ Called("write", b, w.n, bytes, out, FALSE)
  <2>1. w.n \in Nat /\ w.n > 0 /\ w.require \in Nat /\ (w.op = "ensure" => w.n <= w.require)
    BY <1>9 DEF Asked
  <2>2. bytes \in Seq(Bytes) /\ Len(bytes) = w.n
    BY <1>1, <2>1, NextBytesType
  <2> HIDE DEF bytes
  <2>3. PICK p \in FreePages(b, k) :
          buf' = IF w.op = "append" THEN Appended(m, b, bytes, p)
                 ELSE Stored(Ensured(m, b, w.require, p), b, bytes)
    BY <1>9
  <2> DEFINE used == inUse \ FreedPages(buf[b], k)
  <2>4. p \in Page \ used /\ Books(m, used)
    BY <1>3 DEF FreePages
  <2> HIDE DEF used, m
  <2>5. AddsTo(m, buf', b, bytes)
    <3>1. CASE w.op = "append"
      <4>1. buf' = Appended(m, b, bytes, p)
        BY <2>3, <3>1
      <4> QED BY <1>2, <2>2, <2>4, <4>1, AppendedAdds
    <3>2. CASE w.op = "ensure"
      <4> DEFINE h == w.require
      <4>1. buf' = Stored(Ensured(m, b, h, p), b, bytes)
        BY <2>3, <3>2
      <4>2. h \in Nat /\ Len(bytes) > 0 /\ Len(bytes) <= h
        BY <2>1, <2>2, <3>2
      <4> HIDE DEF h
      <4> QED BY <1>2, <2>2, <2>4, <4>1, <4>2, EnsuredAdds
    <3> QED BY <1>9, <3>1, <3>2
  <2> HIDE DEF out
  <2>6. /\ Passes(buf, buf', b, bytes, Sent(b, k)) /\ Sent(b, k) \in Seq(Bytes)
        /\ k = 0 => Sent(b, k) = <<>>
    BY <1>1, <2>2, <2>5, SentPasses DEF m
  <2>7. Called("write", b, w.n, bytes, Sent(b, k), FALSE)
    BY <1>9 DEF out
  <2>8. Queue!Moved(b)
    BY ONLY <1>1, <2>2, <2>6, <2>7, b \in Buffer, PassesMoved
  <2>9. /\ call'.op = "write" /\ call'.in = bytes /\ call'.n = w.n /\ call'.out = Sent(b, k)
        /\ call'.raised = FALSE /\ call'.buf = b
    BY <2>7 DEF Called
  <2>10. bytes # <<>>
    BY <2>1, <2>2, EmptySeq
  <2>11. b \notin IoBuffer => Sent(b, k) = <<>>
    BY <1>9, <2>6
  <2>12. Queue!Write(b)
    BY <2>2, <2>9, <2>10, <2>11 DEF Queue!Write
  <2> QED BY <2>8, <2>9, <2>12, QueueNext
<1>10. \/ w.op = "flush" /\ GivesBack(b, k) /\ Called("flush", b, 0, <<>>, out, FALSE)
       \/ w.op = "bypass" /\ GivesBack(b, k) /\ Called("sends", b, 0, <<>>, out, FALSE)
       \/ /\ w.op \in {"append", "ensure"}
          /\ \E p \in FreePages(b, k) :
               buf' = IF w.op = "append" THEN Appended(m, b, bytes, p)
                      ELSE Stored(Ensured(m, b, w.require, p), b, bytes)
          /\ Called("write", b, w.n, bytes, out, FALSE)
  <2> HIDE DEF m, bytes, out
  <2> QED BY Zenon DEF GoesOn, m, bytes, out
<1> HIDE DEF m, bytes, out
<1> QED BY <1>7, <1>8, <1>9, <1>10, Zenon

\* A call that begins goes on at once, or waits and changes nothing.
LEMMA BeginsQueue ==
  ASSUME PlaceAssumption, SizeAssumption, ~ReuseFragment, ChunkInv, BufferInv, ChunkInv',
         NEW b \in Buffer, NEW w, Asked(b, w), Begins(b, w)
  PROVE  Queue!Next \/ UNCHANGED <<buf, call>>
<1>1. Sound(buf[b]) /\ Tight(buf[b])
  BY DEF ChunkInv, AllSound, AllTight
<1>2. 0 \in 0 .. Len(buf[b].chunks)
  BY <1>1, SoundFields
<1>3. CASE ~FlushesFirst(b, w) /\ GoesOn(b, 0, w)
  <2>1. ASSUME w.op = "flush" PROVE buf[b].chunks = <<NullChunk>>
    <3>1. ~(TopReadable(buf[b]) > 0)
      BY <1>3, <2>1 DEF FlushesFirst
    <3>2. TopReadable(buf[b]) \in Nat /\ (TopReadable(buf[b]) = 0 => buf[b].chunks = <<NullChunk>>)
      BY <1>1, TopEmpty
    <3> QED BY <3>1, <3>2
  <2> QED BY <1>2, <1>3, <2>1, GoesOnQueue
<1>4. CASE UNCHANGED <<buf, inUse, stamp, call>>
  BY <1>4
<1> QED BY <1>3, <1>4 DEF Begins

\* The io has taken a chunk, and the call goes on or writes the next.
LEMMA WriteReturnsQueue ==
  ASSUME PlaceAssumption, SizeAssumption, ~ReuseFragment, ChunkInv, BufferInv, ChunkInv',
         NEW b \in Buffer, WriteReturns(b)
  PROVE  Queue!Next
<1> DEFINE w == busy[b]
<1>1. /\ AllSound(buf) /\ AllSound(buf') /\ AllTight(buf) /\ Sound(buf[b]) /\ Waits(b)
  BY DEF ChunkInv, AllSound
<1>2. 1 \in 0 .. Len(buf[b].chunks)
  BY <1>1, SoundFields
<1>3. Asked(b, w) /\ (w.op \in {"append", "ensure"} => b \in IoBuffer)
  BY <1>1 DEF Waits
<1>4. CASE Len(buf[b].chunks) = 1 /\ GoesOn(b, 1, w)
  <2> HIDE DEF w
  <2> QED BY <1>2, <1>3, <1>4, GoesOnQueue
<1>5. CASE GivesBack(b, 1) /\ Called("sends", b, 0, <<>>, Sent(b, 1), FALSE)
  <2> DEFINE m == Flushed(b, 1)
  <2>1. buf' = m
    BY <1>5 DEF GivesBack
  <2>2. AllSound(m)
    BY <1>1, <1>2, FlushedSound
  <2>3. AddsTo(m, m, b, <<>>) /\ <<>> \in Seq(Bytes)
    BY <2>2, AddsNothing, EmptySeq
  <2> HIDE DEF m
  <2>4. Passes(buf, buf', b, <<>>, Sent(b, 1)) /\ Sent(b, 1) \in Seq(Bytes)
    BY <1>1, <1>2, <2>1, <2>3, SentPasses DEF m
  <2>5. Called("sends", b, 0, <<>>, Sent(b, 1), FALSE)
    BY <1>5
  <2>6. Queue!Moved(b)
    BY ONLY <1>1, <2>3, <2>4, <2>5, b \in Buffer, PassesMoved
  <2>7. call'.op = "sends" /\ call'.in = <<>> /\ call'.buf = b
    BY <1>5 DEF Called
  <2>8. Queue!Sends(b)
    BY <2>7 DEF Queue!Sends
  <2> QED BY <2>6, <2>7, <2>8, QueueNext
<1> QED BY <1>4, <1>5 DEF WriteReturns

\* A call that changes no buffer gives out what it took in, or nothing.
LEMMA SameMoved ==
  ASSUME AllSound(buf), AllSound(buf'), NEW b \in Buffer,
         NEW op, NEW n, NEW in \in Seq(Bytes), NEW raised,
         Called(op, b, n, in, in, raised), UNCHANGED buf,
         in = <<>> \/ Content(buf[b]) = <<>>
  PROVE  Queue!Moved(b)
<1> DEFINE c == Content(buf[b])
<1>1. c \in Seq(Bytes) /\ Content(buf'[b]) = c
  BY ContentType DEF AllSound
<1> HIDE DEF c
<1>2. c \o in = in \o c
  <2>1. c \o <<>> = c /\ <<>> \o c = c /\ in \o <<>> = in /\ <<>> \o in = in
    BY ONLY <1>1, in \in Seq(Bytes), ConcatEmptySeq
  <2>2. in = <<>> \/ c = <<>>
    BY DEF c
  <2> QED BY ONLY <2>1, <2>2
<1>3. \A x \in Buffer \ {b} : Content(buf'[x]) = Content(buf[x])
  OBVIOUS
<1>4. Passes(buf, buf', b, in, in)
  BY <1>1, <1>2, <1>3 DEF Passes, c
<1> QED BY <1>4, PassesMoved

\* The long string has gone to the io behind all there was.
LEMMA DirectReturnsQueue ==
  ASSUME PlaceAssumption, SizeAssumption, ChunkInv, ChunkInv', NEW b \in Buffer, DirectReturns(b)
  PROVE  Queue!Next
<1> DEFINE n == busy[b].n
           bytes == NextBytes(b, n)
<1>1. /\ AllSound(buf) /\ AllSound(buf') /\ Waits(b) /\ Sound(buf[b])
      /\ stamp \in [Buffer -> 0 .. Stamps - 1]
  BY DEF ChunkInv, AllSound
<1>2. /\ busy[b].op = "direct" /\ n \in Nat /\ n > 0 /\ b \in IoBuffer
      /\ buf[b].chunks = <<NullChunk>>
  BY <1>1 DEF DirectReturns, Waits, Asked
<1>3. bytes \in Seq(Bytes) /\ Len(bytes) = n
  BY <1>1, <1>2, NextBytesType
<1>4. Content(buf[b]) = <<>>
  BY <1>1, <1>2, NothingLeft
<1>5. Called("write", b, n, bytes, bytes, FALSE) /\ UNCHANGED buf
  BY DEF DirectReturns
<1> HIDE DEF bytes, n
<1>6. Queue!Moved(b)
  BY <1>1, <1>3, <1>4, <1>5, SameMoved
<1>7. /\ call'.op = "write" /\ call'.in = bytes /\ call'.n = n /\ call'.buf = b
      /\ call'.raised = FALSE
  BY <1>5 DEF Called
<1>8. bytes # <<>>
  BY <1>2, <1>3, EmptySeq
<1>9. Queue!Write(b)
  BY <1>2, <1>3, <1>7, <1>8 DEF Queue!Write
<1> QED BY <1>6, <1>7, <1>9, QueueNext

\* A write that raises stores nothing, and only an io can make it raise.
LEMMA WriteRaisesQueue ==
  ASSUME ChunkInv, ChunkInv', NEW b \in Buffer, WriteRaises(b)
  PROVE  Queue!Next
<1> DEFINE op == IF busy[b].op = "flush" THEN "flush" ELSE "write"
<1>1. AllSound(buf) /\ AllSound(buf') /\ Waits(b) /\ <<>> \in Seq(Bytes)
  BY EmptySeq DEF ChunkInv
<1>2. Called(op, b, busy[b].n, <<>>, <<>>, TRUE) /\ UNCHANGED buf
  BY DEF WriteRaises
<1>3. busy[b].op # "flush" => b \in IoBuffer
  BY <1>1 DEF WriteRaises, Waits, Asked, Sending
<1>4. op = "flush" \/ (op = "write" /\ b \in IoBuffer)
  BY <1>3
<1> HIDE DEF op
<1>5. Queue!Moved(b)
  BY <1>1, <1>2, SameMoved
<1>6. /\ call'.op = op /\ call'.in = <<>> /\ call'.buf = b /\ call'.raised = TRUE
  BY <1>2 DEF Called
<1>7. Queue!Flush(b) \/ Queue!Write(b)
  BY <1>4, <1>6 DEF Queue!Flush, Queue!Write
<1> QED BY <1>5, <1>6, <1>7, QueueNext

\* Bytes put behind the others, and none given out.
LEMMA AddsMoved ==
  ASSUME AllSound(buf), AllSound(buf'), NEW b \in Buffer,
         NEW op, NEW n, NEW in \in Seq(Bytes), NEW raised,
         Called(op, b, n, in, <<>>, raised), AddsTo(buf, buf', b, in)
  PROVE  Queue!Moved(b)
<1> DEFINE d == Content(buf'[b])
<1>1. d \in Seq(Bytes) /\ <<>> \in Seq(Bytes)
  BY ContentType, EmptySeq DEF AllSound
<1>2. d = Content(buf[b]) \o in /\ \A x \in Buffer \ {b} : Content(buf'[x]) = Content(buf[x])
  BY DEF AddsTo
<1> HIDE DEF d
<1>3. <<>> \o d = d
  BY <1>1, ConcatEmptySeq
<1>4. Passes(buf, buf', b, in, <<>>)
  BY <1>2, <1>3, Zenon DEF Passes, d
<1> QED BY <1>1, <1>4, PassesMoved

\* A string that is referred to is a chunk behind the others.
LEMMA ReferQueue ==
  ASSUME PlaceAssumption, SizeAssumption, ChunkInv, ChunkInv', NEW b \in Buffer,
         NEW n \in Nat \ {0}, Refer(b, n)
  PROVE  Queue!Next
<1> DEFINE bytes == NextBytes(b, n)
           s == buf[b]
           t == Referred(s, bytes)
<1>1. /\ AllSound(buf) /\ AllSound(buf') /\ Sound(s) /\ Tight(s)
      /\ stamp \in [Buffer -> 0 .. Stamps - 1] /\ buf = [x \in Buffer |-> buf[x]]
  BY DEF ChunkInv, AllSound, AllTight
<1>2. bytes \in Seq(Bytes) /\ Len(bytes) = n
  BY <1>1, NextBytesType
<1>3. Called("write", b, n, bytes, <<>>, FALSE) /\ buf' = [buf EXCEPT ![b] = t]
  BY DEF Refer
<1> HIDE DEF bytes
<1>4. Len(bytes) > 0
  BY <1>2
<1> HIDE DEF s
<1>5. Sound(t) /\ \E c : Grows(t, s, c) /\ c.data = bytes
  BY <1>1, <1>2, <1>4, ReferredSound
<1> HIDE DEF t
<1>6. buf'[b] = t /\ \A x \in Buffer \ {b} : buf'[x] = buf[x]
  BY <1>1, <1>3
<1>7. Content(t) = Content(s) \o bytes
  <2>1. PICK c : Grows(t, s, c) /\ c.data = bytes
    BY <1>5
  <2>2. Content(t) = Content(s) \o c.data
    BY <1>1, <1>5, <2>1, ContentGrows
  <2> QED BY <2>1, <2>2
<1>8. AddsTo(buf, buf', b, bytes)
  BY <1>6, <1>7 DEF AddsTo, s
<1>9. Queue!Moved(b)
  BY ONLY <1>1, <1>2, <1>3, <1>8, b \in Buffer, AddsMoved
<1>10. /\ call'.op = "write" /\ call'.in = bytes /\ call'.n = n /\ call'.buf = b
       /\ call'.out = <<>> /\ call'.raised = FALSE
  BY <1>3 DEF Called
<1>11. bytes # <<>>
  BY <1>2, EmptySeq
<1>12. Queue!Write(b)
  BY <1>2, <1>10, <1>11 DEF Queue!Write
<1> QED BY <1>9, <1>10, <1>12, QueueNext

\* What the io fed is put behind the others.
LEMMA FeedQueue ==
  ASSUME PlaceAssumption, SizeAssumption, ~ReuseFragment, ChunkInv, BufferInv, ChunkInv',
         NEW b \in Buffer, NEW n \in Nat, Feed(b, n)
  PROVE  Queue!Next
<1> DEFINE bytes == NextBytes(b, n)
           used == inUse \ FreedPages(buf[b], 0)
<1>1. /\ AllSound(buf) /\ AllSound(buf') /\ AllTight(buf) /\ Waits(b)
      /\ stamp \in [Buffer -> 0 .. Stamps - 1]
  BY DEF ChunkInv
<1>2. bytes \in Seq(Bytes)
  BY <1>1, NextBytesType
<1> HIDE DEF bytes
<1>3. PICK p \in FreePages(b, 0) : buf' = Appended(buf, b, bytes, p)
  BY DEF Feed, bytes
<1>4. p \in Page \ inUse
  <2>1. FreedPages(buf[b], 0) = {}
    BY DEF FreedPages
  <2> QED BY <1>3, <2>1 DEF FreePages
<1>5. AddsTo(buf, buf', b, bytes)
  BY <1>1, <1>2, <1>3, <1>4, AppendedAdds DEF BufferInv
<1>6. Called("feed", b, n, bytes, <<>>, FALSE) /\ b \in IoBuffer
  BY <1>1 DEF Feed, bytes, Waits, Asked
<1>7. Queue!Moved(b)
  BY ONLY <1>1, <1>2, <1>5, <1>6, b \in Buffer, AddsMoved
<1>8. call'.op = "feed" /\ call'.out = <<>> /\ call'.buf = b
  BY <1>6 DEF Called
<1>9. Queue!Feed(b)
  BY <1>6, <1>8 DEF Queue!Feed
<1> QED BY <1>7, <1>8, <1>9, QueueNext

\* What a read takes, and then `in`, which it has from the io only when it
\* took all there was.
LEMMA Taken ==
  ASSUME PlaceAssumption, AllSound(buf), AllSound(buf'), NEW b \in Buffer, NEW n \in Nat,
         NEW op, NEW in \in Seq(Bytes), NEW raised, Takes(op, b, n, in, raised),
         in # <<>> => Available(b, n) < n
  PROVE  /\ Queue!Moved(b)
         /\ call'.op = op /\ call'.buf = b /\ call'.n = n /\ call'.in = in /\ call'.raised = raised
         /\ Available(b, n) \in Nat /\ Available(b, n) <= n
         /\ Len(call'.out) = Available(b, n) + Len(in)
         /\ Available(b, n) < n => Content(buf'[b]) = <<>>
         /\ Enough(b, n) => Available(b, n) = n
<1> DEFINE s == buf[b]
           c == Content(s)
           w == Content(Consumed(s, n))
           a == Available(b, n)
           f == SubSeq(c, 1, a)
           all == AllReadable(s)
<1>1. Sound(s) /\ buf = [x \in Buffer |-> buf[x]]
  BY DEF AllSound
<1>2. c \in Seq(Bytes) /\ all \in Nat /\ all = Len(c)
  BY <1>1, ContentType DEF AllReadable
<1>3. w \in Seq(Bytes)
  BY <1>1, ConsumedSound, ContentType
<1>4. a = IF n <= all THEN n ELSE all
  <2> DEFINE z == AllReadable(s)
  <2>1. z \in Nat /\ a = Min({n, z})
    BY <1>2 DEF Available
  <2> HIDE DEF z, a
  <2>2. a = IF n <= z THEN n ELSE z
    BY <2>1, MinOfTwo
  <2> QED BY <2>2 DEF z
<1>5. Remains(Bytes, c, a, w)
  BY <1>1, ContentConsumed DEF Available
<1>6. Called(op, b, n, in, f \o in, raised) /\ buf' = [buf EXCEPT ![b] = Consumed(@, n)]
  BY DEF Takes
<1>7. Content(buf'[b]) = w /\ \A x \in Buffer \ {b} : Content(buf'[x]) = Content(buf[x])
  BY <1>1, <1>6
<1>8. Enough(b, n) => n <= all
  BY <1>2 DEF Enough
<1> HIDE DEF c, w, a, f, all
<1>9. CutOff(Bytes, c, a, w)
  BY ONLY <1>2, <1>3, <1>5, RemainsCut, Zenon
<1>10. /\ a \in Nat /\ Len(w) \in Nat /\ Len(c) = a + Len(w)
       /\ f \in Seq(Bytes) /\ Len(f) = a /\ c = f \o w
  BY ONLY <1>9 DEF CutOff, f
<1>11. a < n => w = <<>>
  <2>1. a < n => Len(w) = 0
    BY <1>2, <1>4, <1>10
  <2> QED BY ONLY <2>1, <1>3, EmptySeq
<1>12. f \o in \in Seq(Bytes) /\ Len(f \o in) = a + Len(in)
  BY ONLY <1>10, in \in Seq(Bytes), ConcatProperties
<1>13. c \o in = (f \o in) \o w
  <2>1. CASE in = <<>>
    <3>1. c \o <<>> = c /\ f \o <<>> = f
      BY ONLY <1>2, <1>10, ConcatEmptySeq
    <3> QED BY ONLY <1>10, <2>1, <3>1
  <2>2. CASE w = <<>>
    <3> DEFINE g == f \o in
    <3>1. f \o <<>> = f /\ g \o <<>> = g
      BY ONLY <1>10, <1>12, ConcatEmptySeq
    <3>2. c = f
      BY ONLY <1>10, <2>2, <3>1
    <3> QED BY ONLY <2>2, <3>1, <3>2
  <2>3. in # <<>> => a < n
    BY DEF a
  <2> QED BY <1>11, <2>1, <2>2, <2>3
<1> DEFINE out == f \o in
<1>14. out \in Seq(Bytes) /\ Called(op, b, n, in, out, raised) /\ Passes(buf, buf', b, in, out)
  <2>1. out \in Seq(Bytes) /\ Called(op, b, n, in, out, raised) /\ c \o in = out \o w
    BY <1>6, <1>12, <1>13
  <2> HIDE DEF out
  <2>2. Passes(buf, buf', b, in, out)
    BY <1>7, <2>1, Zenon DEF Passes, c
  <2> QED BY <2>1, <2>2
<1>15. Len(out) = a + Len(in)
  BY <1>12
<1> HIDE DEF out
<1>16. Queue!Moved(b)
  BY <1>14, PassesMoved
<1>17. /\ call'.op = op /\ call'.buf = b /\ call'.n = n /\ call'.in = in /\ call'.raised = raised
       /\ call'.out = out
  BY <1>14 DEF Called
<1>18. a <= n /\ (n <= all => a = n)
  BY <1>2, <1>4
<1>19. Len(call'.out) = a + Len(in) /\ (a < n => Content(buf'[b]) = <<>>) /\ (Enough(b, n) => a = n)
  BY <1>7, <1>8, <1>11, <1>15, <1>17, <1>18
<1> QED BY <1>10, <1>16, <1>17, <1>18, <1>19, Zenon DEF a

\* read and skip.
LEMMA ReadQueue ==
  ASSUME PlaceAssumption, SizeAssumption, ChunkInv, ChunkInv', NEW b \in Buffer,
         NEW n \in Nat, Read(b, n)
  PROVE  Queue!Next
<1> DEFINE a == Available(b, n)
           missing == IF b \in IoBuffer THEN n - a ELSE 0
<1>1. AllSound(buf) /\ AllSound(buf') /\ stamp \in [Buffer -> 0 .. Stamps - 1]
  BY DEF ChunkInv
<1>2. PICK more \in 0 .. missing, raised \in BOOLEAN :
        (raised => more < missing) /\ Takes("read", b, n, NextBytes(b, more), raised)
  BY Zenon DEF Read
<1> DEFINE in == NextBytes(b, more)
<1>3. a \in Nat /\ a <= n
  <2>1. AllReadable(buf[b]) \in Nat
    <3>1. Sound(buf[b])
      BY <1>1 DEF AllSound
    <3> QED BY <3>1, ContentType DEF AllReadable
  <2> DEFINE z == AllReadable(buf[b])
  <2>2. z \in Nat /\ a = Min({n, z})
    BY <2>1 DEF Available
  <2> HIDE DEF z, a
  <2> QED BY <2>2, MinOfTwo
<1> HIDE DEF a
<1>4. missing \in Nat /\ (missing > 0 => b \in IoBuffer /\ a < n) /\ a + missing <= n
  BY <1>3
<1> HIDE DEF missing
<1>5. more \in Nat /\ more <= missing
  BY <1>2, <1>4
<1>6. in \in Seq(Bytes) /\ Len(in) = more
  BY <1>1, <1>5, NextBytesType
<1>7. Takes("read", b, n, in, raised)
  BY <1>2
<1> HIDE DEF in
<1>8. in # <<>> => more > 0
  BY <1>5, <1>6, EmptySeq
<1>9. in # <<>> => b \in IoBuffer /\ a < n
  BY <1>4, <1>5, <1>8
<1>10. /\ Queue!Moved(b)
       /\ call'.op = "read" /\ call'.buf = b /\ call'.n = n /\ call'.in = in /\ call'.raised = raised
       /\ Len(call'.out) = a + Len(in)
       /\ a < n => Content(buf'[b]) = <<>>
  <2>1. in # <<>> => Available(b, n) < n
    BY <1>9 DEF a
  <2> QED BY <1>1, <1>6, <1>7, <2>1, Taken, Zenon DEF a
<1>11. Len(call'.out) <= call'.n /\ (Len(call'.out) < call'.n => a < n)
  BY <1>3, <1>4, <1>5, <1>6, <1>10
<1>12. raised => b \in IoBuffer /\ a < n
  BY <1>2, <1>4, <1>5
<1>13. Queue!Read(b)
  BY <1>9, <1>10, <1>11, <1>12 DEF Queue!Read
<1> QED BY <1>10, <1>13, QueueNext

\* read_all and skip_all, and the reads of a value, that find all they want.
LEMMA EnoughQueue ==
  ASSUME PlaceAssumption, ChunkInv, ChunkInv', NEW b \in Buffer, NEW n \in Nat,
         Enough(b, n), Takes("read_all", b, n, <<>>, FALSE)
  PROVE  Queue!Next
<1> DEFINE a == Available(b, n)
<1>1. AllSound(buf) /\ AllSound(buf') /\ <<>> \in Seq(Bytes) /\ Len(<<>>) = 0
  BY EmptySeq DEF ChunkInv
<1>2. /\ Queue!Moved(b)
      /\ call'.op = "read_all" /\ call'.buf = b /\ call'.n = n /\ call'.in = <<>>
      /\ call'.raised = FALSE
      /\ a \in Nat /\ Len(call'.out) = a + Len(<<>>) /\ a = n
  BY <1>1, Taken
<1> HIDE DEF a
<1>3. Len(call'.out) = n
  BY <1>1, <1>2
<1>4. Queue!ReadAll(b)
  BY <1>2, <1>3 DEF Queue!ReadAll
<1> QED BY <1>2, <1>4, QueueNext

\* A read that cannot have all it wants takes nothing.
LEMMA ShortQueue ==
  ASSUME ChunkInv, ChunkInv', NEW b \in Buffer, NEW n \in Nat,
         ~Enough(b, n), Called("read_all", b, n, <<>>, <<>>, TRUE), UNCHANGED buf
  PROVE  Queue!Next
<1>1. AllSound(buf) /\ AllSound(buf') /\ <<>> \in Seq(Bytes)
  BY EmptySeq DEF ChunkInv
<1>2. Queue!Moved(b)
  BY <1>1, SameMoved
<1>3. /\ call'.op = "read_all" /\ call'.in = <<>> /\ call'.out = <<>> /\ call'.raised = TRUE
      /\ call'.n = n /\ call'.buf = b
  BY DEF Called
<1>4. Len(Content(buf'[b])) < n
  <2> DEFINE z == Len(Content(buf[b]))
  <2>1. z \in Nat /\ ~(z >= n)
    BY <1>1, ContentType DEF AllSound, Enough, AllReadable
  <2> HIDE DEF z
  <2>2. z < n
    BY <2>1
  <2>3. buf' = buf
    OBVIOUS
  <2> QED BY <2>2, <2>3 DEF z
<1>5. Queue!ReadAll(b)
  BY <1>3, <1>4, QueueContent DEF Queue!ReadAll
<1> QED BY <1>2, <1>3, <1>5, QueueNext

\* The chunks of a buffer go, all of them, and their bytes with them.
LEMMA DropsQueue ==
  ASSUME PlaceAssumption, ChunkInv, ChunkInv', NEW b \in Buffer, NEW k, k = Len(buf[b].chunks),
         NEW op \in {"clear", "collected"}, Called(op, b, 0, <<>>, Sent(b, k), FALSE),
         Content(buf'[b]) = <<>>, \A x \in Buffer \ {b} : buf'[x] = buf[x]
  PROVE  Queue!Next
<1> DEFINE c == Content(buf[b])
<1>1. AllSound(buf) /\ AllSound(buf') /\ Sound(buf[b]) /\ <<>> \in Seq(Bytes)
  BY EmptySeq DEF ChunkInv, AllSound
<1>2. Sent(b, k) = c /\ c \in Seq(Bytes)
  BY <1>1, ContentType DEF Sent
<1> HIDE DEF c
<1>3. c \o <<>> = c
  BY <1>2, ConcatEmptySeq
<1>4. Passes(buf, buf', b, <<>>, c)
  BY <1>3, Zenon DEF Passes, c
<1>5. Called(op, b, 0, <<>>, c, FALSE)
  BY <1>2
<1>6. Queue!Moved(b)
  BY ONLY <1>1, <1>2, <1>4, <1>5, b \in Buffer, PassesMoved
<1>7. call'.op = op /\ call'.in = <<>> /\ call'.buf = b
  BY <1>5 DEF Called
<1>8. Queue!Clear(b)
  BY <1>7, QueueContent DEF Queue!Clear
<1> QED BY <1>6, <1>7, <1>8, QueueNext

\* clear, and the garbage collector.
LEMMA ClearQueue ==
  ASSUME PlaceAssumption, SizeAssumption, ChunkInv, ChunkInv', NEW b \in Buffer,
         Clear(b) \/ Collected(b)
  PROVE  Queue!Next
<1> DEFINE k == Len(buf[b].chunks)
<1>1. /\ AllSound(buf) /\ AllTight(buf) /\ Sound(buf[b]) /\ AllSound(buf')
      /\ buf = [x \in Buffer |-> buf[x]]
  BY DEF ChunkInv, AllSound
<1>2. k \in 0 .. Len(buf[b].chunks)
  BY <1>1, SoundFields
<1>3. PICK op \in {"clear", "collected"} : Called(op, b, 0, <<>>, Sent(b, k), FALSE)
  BY DEF Clear, Collected
<1>4. buf'[b].chunks = <<NullChunk>> /\ \A x \in Buffer \ {b} : buf'[x] = buf[x]
  <2>1. CASE Clear(b)
    <3>1. buf' = Flushed(b, k)
      BY <2>1 DEF Clear, GivesBack
    <3> QED BY <1>1, <1>2, <3>1, FlushedSound
  <2>2. CASE Collected(b)
    <3>1. buf' = [buf EXCEPT ![b] = Fresh]
      BY <2>2 DEF Collected
    <3>2. buf'[b] = Fresh /\ \A x \in Buffer \ {b} : buf'[x] = buf[x]
      BY <1>1, <3>1
    <3> QED BY <3>2, FreshSound
  <2> QED BY <2>1, <2>2
<1>5. Content(buf'[b]) = <<>>
  BY <1>1, <1>4, NothingLeft DEF AllSound
<1> HIDE DEF k
<1> QED BY <1>3, <1>4, <1>5, DropsQueue DEF k
-----------------------------------------------------------------------------
(* Every step *)

\* The buffers before the first call are empty queues.
LEMMA InitQueue ==
  ASSUME PlaceAssumption, SizeAssumption, Init
  PROVE  Queue!Init
<1>1. Content(Fresh) = <<>>
  BY FreshSound, NothingLeft
<1>2. \A b \in Buffer : buf[b] = Fresh
  BY DEF Init
<1> QED BY <1>1, <1>2 DEF Init, Queue!Init

\* Every step is one of the queues or leaves them as they are.
LEMMA NextQueue ==
  ASSUME PlaceAssumption, SizeAssumption, LengthAssumption, ~ReuseFragment,
         ChunkInv, BufferInv, ChunkInv', [Next]_vars
  PROVE  Queue!Next \/ UNCHANGED <<buf, call>>
<1>1. CASE UNCHANGED vars
  BY <1>1 DEF vars
<1>2. ASSUME NEW b \in Buffer, NEW n \in WriteLengths, AppendString(b, n)
      PROVE  Queue!Next \/ UNCHANGED <<buf, call>>
  <2>1. n \in Nat \ {0} /\ n <= n
    BY DEF LengthAssumption
  <2>2. CASE Begins(b, Doing("append", n, n))
    BY <2>1, <2>2, CallAsked, BeginsQueue
  <2>3. CASE b \in IoBuffer /\ Begins(b, Doing("bypass", n, 0))
    BY <2>1, <2>3, CallAsked, BeginsQueue
  <2>4. CASE Refer(b, n)
    BY <2>1, <2>4, ReferQueue
  <2> QED BY <1>2, <2>2, <2>3, <2>4 DEF AppendString
<1>3. ASSUME NEW b \in Buffer, NEW e \in EnsureLengths, WriteEnsured(b, e[1], e[2])
      PROVE  Queue!Next \/ UNCHANGED <<buf, call>>
  <2>1. e[1] \in Nat /\ e[2] \in Nat \ {0} /\ e[2] <= e[1]
    BY DEF LengthAssumption
  <2>2. Begins(b, Doing("ensure", e[2], e[1]))
    BY <1>3 DEF WriteEnsured
  <2> QED BY <2>1, <2>2, CallAsked, BeginsQueue
<1>4. ASSUME NEW b \in Buffer, NEW n \in ReadLengths, Read(b, n) PROVE Queue!Next
  <2>1. n \in Nat
    BY DEF LengthAssumption
  <2> QED BY <1>4, <2>1, ReadQueue
<1>5. ASSUME NEW b \in Buffer, NEW n \in ReadLengths, ReadAll(b, n)
      PROVE  Queue!Next \/ UNCHANGED <<buf, call>>
  <2>1. n \in Nat
    BY DEF LengthAssumption
  <2>2. CASE Enough(b, n) /\ Takes("read_all", b, n, <<>>, FALSE)
    BY <2>1, <2>2, EnoughQueue
  <2>3. CASE ~Enough(b, n) /\ Called("read_all", b, n, <<>>, <<>>, TRUE) /\ UNCHANGED buf
    BY <2>1, <2>3, ShortQueue
  <2>4. CASE UNCHANGED <<buf, call>>
    BY <2>4
  <2> QED BY <1>5, <2>2, <2>3, <2>4 DEF ReadAll
<1>6. ASSUME NEW b \in Buffer, NEW n \in FeedLengths, Feed(b, n) PROVE Queue!Next
  <2>1. n \in Nat
    BY DEF LengthAssumption
  <2> QED BY <1>6, <2>1, FeedQueue
<1>7. ASSUME NEW b \in Buffer, FeedEnds(b) PROVE Queue!Next
  <2>1. busy[b].n \in Nat
    BY DEF ChunkInv, Waits, Asked
  <2>2. ~Enough(b, busy[b].n) /\ Called("read_all", b, busy[b].n, <<>>, <<>>, TRUE) /\ UNCHANGED buf
    BY <1>7 DEF FeedEnds
  <2> QED BY <2>1, <2>2, ShortQueue
<1>8. ASSUME NEW b \in Buffer, ReadAllFed(b) PROVE Queue!Next
  <2>1. busy[b].n \in Nat
    BY DEF ChunkInv, Waits, Asked
  <2>2. Enough(b, busy[b].n) /\ Takes("read_all", b, busy[b].n, <<>>, FALSE)
    BY <1>8 DEF ReadAllFed
  <2> QED BY <2>1, <2>2, EnoughQueue
<1>9. ASSUME NEW b \in Buffer, WriteReturns(b) PROVE Queue!Next
  BY <1>9, WriteReturnsQueue
<1>10. ASSUME NEW b \in Buffer, DirectReturns(b) PROVE Queue!Next
  BY <1>10, DirectReturnsQueue
<1>11. ASSUME NEW b \in Buffer, WriteRaises(b) PROVE Queue!Next
  BY <1>11, WriteRaisesQueue
<1>12. ASSUME NEW b \in Buffer, Flush(b) PROVE Queue!Next \/ UNCHANGED <<buf, call>>
  BY <1>12, CallAsked, BeginsQueue DEF Flush
<1>13. ASSUME NEW b \in Buffer, Clear(b) \/ Collected(b) PROVE Queue!Next
  BY <1>13, ClearQueue
<1> QED BY <1>1, <1>2, <1>3, <1>4, <1>5, <1>6, <1>7, <1>8, <1>9, <1>10, <1>11, <1>12, <1>13 DEF Next
-----------------------------------------------------------------------------
(* What follows for every behaviour *)

\* Every buffer is a queue of bytes: what its chunks, their pages and the
\* flushes make of a call, and whichever call of the io raises, its bytes come
\* out once, in order, whole, and no other buffer's call touches them (the
\* build that reuses no page end).
THEOREM BuffersAreQueues ==
  ASSUME ~ReuseFragment
  PROVE  Spec => Fifo
<1> DEFINE C == [b \in Buffer |-> Content(buf[b])]
<1>1. Init => Queue!Init
  BY InitQueue, PlaceAssumption, SizeAssumption
<1>2. ChunkInv /\ BufferInv /\ ChunkInv' /\ [Next]_vars => [Queue!Next]_<<C, call>>
  <2>1. ASSUME UNCHANGED <<buf, call>> PROVE UNCHANGED <<C, call>>
    BY <2>1
  <2> QED BY <2>1, NextQueue, PlaceAssumption, SizeAssumption, LengthAssumption
<1> QED BY <1>1, <1>2, ChunksKept, BooksKept, PTL DEF Spec, Fifo, Queue!Spec
=============================================================================
