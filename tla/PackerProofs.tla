---------------------------- MODULE PackerProofs ----------------------------
(***************************************************************************)
(* Proofs about the encoder, for any objects, any nesting of calls and any *)
(* changes that foreign to_cbor methods make to the containers.            *)
(***************************************************************************)
EXTENDS Packer, FiniteSetTheorems, CborFacts

Contained(h, o) == h[o][2]

HeapOK(h) ==
  /\ h = [o \in Object |-> <<h[o][1], h[o][2]>>]
  /\ \A o \in Object :
       /\ h[o][1] \in {"array", "hash"} /\ IsSeq(Contained(h, o))
       /\ h[o][1] = "hash" =>
            \A k \in 1 .. Len(Contained(h, o)) :
              LET e == Contained(h, o)[k] IN e = Gone \/ e = <<e[1], e[2]>>

IsFrame(f, h) ==
  /\ f = [kind |-> f.kind, obj |-> f.obj, need |-> f.need, i |-> f.i, at |-> f.at,
           value |-> f.value, seen |-> f.seen]
  /\ f.i \in Nat /\ f.at \in Nat
  /\ f.kind = "hash" => f.obj \in Object /\ h[f.obj][1] = "hash"

\* the entries of o behind the at-th
Live(h, o, at) == {k \in DOMAIN Contained(h, o) : k > at /\ Contained(h, o)[k] # Gone}

\* what HeadersFit says of one frame
Fits(f, h) == f.kind = "hash" => f.i + Cardinality(Live(h, f.obj, f.at)) = f.need

StackOK(s, h) == IsSeq(s) /\ \A k \in 1 .. Len(s) : IsFrame(s[k], h)
AllFit(s, h) == \A k \in 1 .. Len(s) : Fits(s[k], h)

Inv == HeapOK(heap) /\ StackOK(todo, heap) /\ (~damaged => AllFit(todo, heap))
-----------------------------------------------------------------------------
(* Stacks of frames *)

\* No call is under way.
LEMMA EmptyGood == \A h : StackOK(<<>>, h) /\ AllFit(<<>>, h)
BY EmptyIsSeq DEF StackOK, AllFit

\* The frame on top.
LEMMA LastGood ==
  ASSUME NEW s, NEW h, StackOK(s, h), s # <<>>
  PROVE  IsFrame(Last(s), h) /\ (AllFit(s, h) => Fits(Last(s), h))
BY LengthOf DEF StackOK, AllFit

\* The frame on top is popped.
LEMMA FrontGood ==
  ASSUME NEW s, NEW h, StackOK(s, h), s # <<>>
  PROVE  StackOK(Front(s), h) /\ (AllFit(s, h) => AllFit(Front(s), h))
<1>1. IsSeq(s) /\ Len(s) \in Nat
  BY LengthOf DEF StackOK
<1>2. /\ IsSeq(Front(s)) /\ Len(Front(s)) = Len(s) - 1
      /\ \A i \in 1 .. Len(s) - 1 : Front(s)[i] = s[i]
  BY <1>1, FrontOf
<1> DEFINE t == Front(s)
<1> HIDE DEF t
<1>3. \A i \in 1 .. Len(t) : i \in 1 .. Len(s) /\ t[i] = s[i]
  BY <1>1, <1>2 DEF t
<1>4. StackOK(t, h)
  BY <1>2, <1>3 DEF StackOK, t
<1>5. AllFit(s, h) => AllFit(t, h)
  BY <1>3 DEF AllFit
<1> QED BY <1>4, <1>5 DEF t

\* A frame is pushed.
LEMMA AppendGood ==
  ASSUME NEW s, NEW h, StackOK(s, h), NEW f, IsFrame(f, h)
  PROVE  /\ StackOK(Append(s, f), h)
         /\ AllFit(s, h) /\ Fits(f, h) => AllFit(Append(s, f), h)
<1>1. IsSeq(s) /\ Len(s) \in Nat
  BY LengthOf DEF StackOK
<1>2. /\ IsSeq(Append(s, f)) /\ Len(Append(s, f)) = Len(s) + 1 /\ Append(s, f)[Len(s) + 1] = f
      /\ \A i \in 1 .. Len(s) : Append(s, f)[i] = s[i]
  BY <1>1, AppendOf
<1> DEFINE t == Append(s, f)
<1> HIDE DEF t
<1>3. \A i \in 1 .. Len(t) : i \in 1 .. Len(s) \/ i = Len(s) + 1
  BY <1>1, <1>2 DEF t
<1>4. StackOK(t, h)
  BY <1>2, <1>3 DEF StackOK, t
<1>5. AllFit(s, h) /\ Fits(f, h) => AllFit(t, h)
  BY <1>2, <1>3 DEF AllFit, t
<1> QED BY <1>4, <1>5 DEF t

\* A frame that is new and of no hash.
LEMMA FrameGood ==
  ASSUME NEW kind, kind # "hash", NEW o, NEW need, NEW value, NEW h
  PROVE  IsFrame(Frame(kind, o, need, value), h) /\ Fits(Frame(kind, o, need, value), h)
BY DEF IsFrame, Fits, Frame

\* An item.
LEMMA ItemGood == \A v, h : IsFrame(Item(v), h) /\ Fits(Item(v), h)
BY FrameGood DEF Item

\* A part of the object on top is written.
LEMMA SeenGood ==
  ASSUME NEW f, NEW h, IsFrame(f, h), NEW seen
  PROVE  LET g == [f EXCEPT !.seen = seen]
         IN IsFrame(g, h) /\ (Fits(f, h) => Fits(g, h))
BY DEF IsFrame, Fits

\* a frame of a hash that has come to its next entry
Advanced(f, at, value) == [f EXCEPT !.i = f.i + 1, !.at = at, !.value = value]

\* It is one of the same hash.
LEMMA AdvancedIs ==
  ASSUME NEW f, NEW h, IsFrame(f, h), NEW at \in Nat, NEW value
  PROVE  LET g == Advanced(f, at, value)
         IN /\ IsFrame(g, h) /\ g.kind = f.kind /\ g.obj = f.obj /\ g.need = f.need
            /\ g.i = f.i + 1 /\ g.at = at
<1> DEFINE f1 == [f EXCEPT !.i = f.i + 1]
           f2 == [f1 EXCEPT !.at = at]
           f3 == [f2 EXCEPT !.value = value]
<1>1. Advanced(f, at, value) = f3
  BY DEF Advanced
<1>2. IsFrame(f1, h) /\ f1.kind = f.kind /\ f1.obj = f.obj /\ f1.need = f.need /\ f1.i = f.i + 1
  BY DEF IsFrame
<1> HIDE DEF f1
<1>3. IsFrame(f2, h) /\ f2.kind = f1.kind /\ f2.obj = f1.obj /\ f2.need = f1.need
      /\ f2.i = f1.i /\ f2.at = at
  BY <1>2 DEF IsFrame
<1> HIDE DEF f2
<1>4. IsFrame(f3, h) /\ f3.kind = f2.kind /\ f3.obj = f2.obj /\ f3.need = f2.need
      /\ f3.i = f2.i /\ f3.at = f2.at
  BY <1>3 DEF IsFrame
<1> HIDE DEF f3
<1> QED BY <1>1, <1>2, <1>3, <1>4
-----------------------------------------------------------------------------
(* The entries a hash has left *)

\* They are finitely many.
LEMMA LiveFinite ==
  ASSUME NEW h, HeapOK(h), NEW o \in Object, NEW at
  PROVE  /\ IsFiniteSet(Live(h, o, at)) /\ Live(h, o, at) \subseteq Nat
         /\ Cardinality(Live(h, o, at)) \in Nat
<1>1. DOMAIN Contained(h, o) = 1 .. Len(Contained(h, o)) /\ Len(Contained(h, o)) \in Nat
  BY LengthOf DEF HeapOK
<1>2. IsFiniteSet(1 .. Len(Contained(h, o)))
  BY <1>1, FS_Interval
<1>3. Live(h, o, at) \subseteq 1 .. Len(Contained(h, o))
  BY <1>1 DEF Live
<1>4. IsFiniteSet(Live(h, o, at))
  BY <1>2, <1>3, FS_Subset
<1> QED BY <1>1, <1>3, <1>4, FS_CardinalityType

\* The next one is one of them, and one less is left behind it.
LEMMA LiveNext ==
  ASSUME NEW h, HeapOK(h), NEW o \in Object, NEW at \in Nat, Live(h, o, at) # {}
  PROVE  LET next == Min(Live(h, o, at))
         IN /\ next \in Nat
            /\ Cardinality(Live(h, o, at)) = Cardinality(Live(h, o, next)) + 1
<1> DEFINE L == Live(h, o, at)
           next == Min(L)
<1>1. IsFiniteSet(L) /\ L \subseteq Nat /\ Cardinality(L) \in Nat
  BY LiveFinite
<1>2. next \in L /\ \A y \in L : next <= y
  BY <1>1, MinOfNaturals
<1> HIDE DEF next
<1>3. next \in Nat /\ next > at
  BY <1>1, <1>2 DEF Live
<1>4. Live(h, o, next) = L \ {next}
  <2>1. ASSUME NEW k \in Live(h, o, next) PROVE k \in L \ {next}
    <3>1. k \in Nat /\ k > next
      BY LiveFinite DEF Live
    <3> QED BY <1>3, <3>1 DEF Live
  <2>2. ASSUME NEW k \in L \ {next} PROVE k \in Live(h, o, next)
    <3>1. k \in Nat /\ next <= k /\ k # next
      BY <1>1, <1>2
    <3> QED BY <1>3, <3>1 DEF Live
  <2> QED BY <2>1, <2>2
<1>5. Cardinality(L \ {next}) = Cardinality(L) - 1
  BY <1>1, <1>2, FS_RemoveElement
<1> HIDE DEF L
<1> QED BY <1>1, <1>3, <1>4, <1>5 DEF L, next
-----------------------------------------------------------------------------
(* The steps of a value that is written *)

\* The objects are left alone.
LEMMA SameHeapKeeps ==
  ASSUME Inv, UNCHANGED <<heap, damaged>>,
         StackOK(todo', heap), AllFit(todo, heap) => AllFit(todo', heap)
  PROVE  Inv'
BY DEF Inv

\* The frame on top, and what is below it.
LEMMA TopGood ==
  ASSUME Inv, todo # <<>>
  PROVE  /\ IsFrame(Top, heap) /\ (AllFit(todo, heap) => Fits(Top, heap))
         /\ StackOK(Below, heap) /\ (AllFit(todo, heap) => AllFit(Below, heap))
BY LastGood, FrontGood DEF Inv, Top, Below

\* A value on top is written.
LEMMA CompletesKeeps ==
  ASSUME Inv, todo # <<>>, NEW v, Completes(v), UNCHANGED <<heap, damaged>>
  PROVE  Inv'
<1>1. StackOK(Below, heap) /\ (AllFit(todo, heap) => AllFit(Below, heap))
  BY TopGood
<1>2. CASE Below = <<>>
  <2>1. todo' = <<>>
    BY <1>2 DEF Completes
  <2> QED BY <2>1, EmptyGood, SameHeapKeeps
<1>3. CASE Below # <<>>
  <2> DEFINE b == Last(Below)
             f == [b EXCEPT !.seen = Append(b.seen, v)]
  <2>1. todo' = Append(Front(Below), f)
    BY <1>3 DEF Completes
  <2>2. IsFrame(b, heap) /\ (AllFit(Below, heap) => Fits(b, heap))
    BY <1>1, <1>3, LastGood
  <2>3. StackOK(Front(Below), heap) /\ (AllFit(Below, heap) => AllFit(Front(Below), heap))
    BY <1>1, <1>3, FrontGood
  <2> HIDE DEF b
  <2>4. IsFrame(f, heap) /\ (Fits(b, heap) => Fits(f, heap))
    BY <2>2, SeenGood
  <2> HIDE DEF f
  <2>5. /\ StackOK(todo', heap)
        /\ AllFit(Front(Below), heap) /\ Fits(f, heap) => AllFit(todo', heap)
    BY <2>1, <2>3, <2>4, AppendGood
  <2> QED BY <1>1, <2>2, <2>3, <2>4, <2>5, SameHeapKeeps
<1> QED BY <1>2, <1>3

\* The frame on top gives way to another.
LEMMA ReplacedKeeps ==
  ASSUME Inv, todo # <<>>, NEW f, IsFrame(f, heap), AllFit(todo, heap) => Fits(f, heap),
         todo' = Append(Below, f), UNCHANGED <<heap, damaged>>
  PROVE  Inv'
<1>1. StackOK(Below, heap) /\ (AllFit(todo, heap) => AllFit(Below, heap))
  BY TopGood
<1>2. StackOK(todo', heap) /\ (AllFit(todo, heap) => AllFit(todo', heap))
  BY <1>1, AppendGood
<1> QED BY <1>2, SameHeapKeeps

\* The frame on top gives way to another, and a part of its object is to be
\* written.
LEMMA PartKeeps ==
  ASSUME Inv, todo # <<>>, NEW f, IsFrame(f, heap), AllFit(todo, heap) => Fits(f, heap),
         NEW v, todo' = Append(Append(Below, f), Item(v)), UNCHANGED <<heap, damaged>>
  PROVE  Inv'
<1>1. StackOK(Below, heap) /\ (AllFit(todo, heap) => AllFit(Below, heap))
  BY TopGood
<1> DEFINE s == Append(Below, f)
<1>2. StackOK(s, heap) /\ (AllFit(todo, heap) => AllFit(s, heap))
  BY <1>1, AppendGood
<1> HIDE DEF s
<1>3. IsFrame(Item(v), heap) /\ Fits(Item(v), heap) /\ todo' = Append(s, Item(v))
  BY ItemGood DEF s
<1>4. StackOK(todo', heap) /\ (AllFit(todo, heap) => AllFit(todo', heap))
  BY <1>2, <1>3, AppendGood
<1> QED BY <1>4, SameHeapKeeps

\* A call begins.
LEMMA PushedKeeps ==
  ASSUME Inv, NEW f, IsFrame(f, heap), Fits(f, heap), todo' = Append(todo, f),
         UNCHANGED <<heap, damaged>>
  PROVE  Inv'
<1>1. StackOK(todo', heap) /\ (AllFit(todo, heap) => AllFit(todo', heap))
  BY AppendGood DEF Inv
<1> QED BY <1>1, SameHeapKeeps

\* An exception leaves no hash under way.
LEMMA UnwindsKeeps ==
  ASSUME Inv, todo # <<>>, NEW bytes, NEW n, Unwinds(bytes, n)
  PROVE  Inv'
<1>1. heap' = heap /\ (~damaged' => ~damaged)
  BY DEF Unwinds
<1>2. \/ todo' = <<>>
      \/ todo' = <<todo[1]>> /\ todo[1].kind = "header"
  BY DEF Unwinds
<1>3. IsFrame(todo[1], heap)
  BY LengthOf DEF Inv, StackOK
<1>4. StackOK(todo', heap) /\ AllFit(todo', heap)
  <2>1. CASE todo' = <<>>
    BY <2>1, EmptyGood
  <2>2. CASE todo' = <<todo[1]>> /\ todo[1].kind = "header"
    <3> DEFINE f == todo[1]
    <3>1. Fits(f, heap) /\ IsFrame(f, heap)
      BY <1>3, <2>2 DEF Fits
    <3> HIDE DEF f
    <3>2. <<f>> = Append(<<>>, f)
      OBVIOUS
    <3>3. StackOK(<<f>>, heap) /\ AllFit(<<f>>, heap)
      BY <3>1, <3>2, EmptyGood, AppendGood
    <3> QED BY <2>2, <3>3 DEF f
  <2> QED BY <1>2, <2>1, <2>2
<1> QED BY <1>1, <1>4 DEF Inv

\* The next entry of a hash is taken out of those it has left.
LEMMA NextEntryKeeps == Inv /\ NextEntry => Inv'
<1> SUFFICES ASSUME Inv, NextEntry PROVE Inv'
  OBVIOUS
<1> DEFINE L == LiveAfter(Top.obj, Top.at)
           at == Min(L)
           entry == Contents(Top.obj)[at]
           f == Advanced(Top, at, entry[2])
<1>1. todo # <<>> /\ Top.kind = "hash" /\ L # {} /\ UNCHANGED <<heap, damaged>>
  BY DEF NextEntry, TopIs
<1>2. todo' = Append(Append(Below, f), Item(entry[1]))
  BY Zenon DEF NextEntry, Advanced
<1>3. IsFrame(Top, heap) /\ (AllFit(todo, heap) => Fits(Top, heap))
  BY <1>1, TopGood
<1>4. Top.obj \in Object /\ Top.i \in Nat /\ Top.at \in Nat /\ HeapOK(heap)
  BY <1>1, <1>3 DEF IsFrame, Inv
<1>5. L = Live(heap, Top.obj, Top.at)
  BY DEF LiveAfter, Contents, Live, Contained
<1>6. at \in Nat /\ Cardinality(Live(heap, Top.obj, Top.at))
                    = Cardinality(Live(heap, Top.obj, at)) + 1
  BY <1>1, <1>4, <1>5, LiveNext
<1>7. Cardinality(Live(heap, Top.obj, at)) \in Nat
  BY <1>4, LiveFinite
<1> HIDE DEF at, entry
<1>8. IsFrame(f, heap) /\ f.kind = Top.kind /\ f.obj = Top.obj /\ f.need = Top.need
      /\ f.i = Top.i + 1 /\ f.at = at
  BY <1>3, <1>6, AdvancedIs
<1> HIDE DEF f
<1>9. Fits(Top, heap) => Fits(f, heap)
  BY <1>1, <1>4, <1>6, <1>7, <1>8 DEF Fits
<1> QED BY <1>1, <1>2, <1>3, <1>8, <1>9, PartKeeps

\* The header of a hash says how many entries it has.
LEMMA WriteHashKeeps == Inv /\ WriteHash => Inv'
<1> SUFFICES ASSUME Inv, WriteHash PROVE Inv'
  OBVIOUS
<1> DEFINE o == Top.value[2]
           size == Size(o)
           f == Frame("hash", o, size, Nil)
<1>1. /\ todo # <<>> /\ o \in Object /\ heap[o][1] = "hash" /\ UNCHANGED <<heap, damaged>>
      /\ todo' = Append(Below, f)
  BY DEF WriteHash, TopIs, IsObject
<1>2. HeapOK(heap) /\ size = Cardinality(Live(heap, o, 0))
  BY DEF Inv, Size, LiveAfter, Contents, Live, Contained
<1>3. size \in Nat
  BY <1>1, <1>2, LiveFinite
<1> HIDE DEF o, size
<1>4. IsFrame(f, heap) /\ Fits(f, heap)
  BY <1>1, <1>2, <1>3 DEF IsFrame, Fits, Frame
<1> QED BY <1>1, <1>4, ReplacedKeeps

\* A step of a value that is written.
LEMMA WritesKeeps ==
  ASSUME Inv,
         \/ WriteLeaf \/ WriteTagged \/ TagEnds
         \/ WriteArray \/ NextElement \/ ArrayEnds
         \/ WriteHash \/ NextEntry \/ NextValue \/ HashEnds
         \/ WriteForeign \/ ForeignReturns \/ Refuses \/ IoRaises
  PROVE  Inv'
<1>1. CASE WriteLeaf
  <2>1. todo # <<>> /\ Completes(LeafMeaning(Top.value)) /\ UNCHANGED <<heap, damaged>>
    BY <1>1 DEF WriteLeaf, TopIs
  <2> QED BY <2>1, CompletesKeeps
<1>2. CASE WriteTagged
  <2> DEFINE f == Frame("tag", Nil, 1, Top.value)
  <2>1. todo # <<>> /\ todo' = Append(Append(Below, f), Item(Top.value[3]))
        /\ UNCHANGED <<heap, damaged>>
    BY <1>2 DEF WriteTagged, TopIs
  <2>2. IsFrame(f, heap) /\ Fits(f, heap)
    BY FrameGood
  <2> HIDE DEF f
  <2> QED BY <2>1, <2>2, PartKeeps
<1>3. CASE TagEnds
  <2>1. todo # <<>> /\ UNCHANGED <<heap, damaged>>
        /\ Completes(ProcessTag(Top.value[2], Top.seen[1]))
    BY <1>3 DEF TagEnds, TopIs
  <2> QED BY <2>1, CompletesKeeps
<1>4. CASE WriteArray
  <2> DEFINE f == Frame("array", Top.value[2], Len(Contents(Top.value[2])), Nil)
  <2>1. todo # <<>> /\ todo' = Append(Below, f) /\ UNCHANGED <<heap, damaged>>
    BY <1>4 DEF WriteArray, TopIs
  <2>2. IsFrame(f, heap) /\ Fits(f, heap)
    BY FrameGood
  <2> HIDE DEF f
  <2> QED BY <2>1, <2>2, ReplacedKeeps
<1>5. CASE NextElement
  <2> DEFINE f == [Top EXCEPT !.i = Top.i + 1]
  <2>1. todo # <<>> /\ Top.kind = "array" /\ UNCHANGED <<heap, damaged>>
        /\ \E v : todo' = Append(Append(Below, f), Item(v))
    BY <1>5 DEF NextElement, TopIs
  <2>2. IsFrame(Top, heap)
    BY <2>1, TopGood
  <2>3. IsFrame(f, heap) /\ Fits(f, heap)
    BY <2>1, <2>2 DEF IsFrame, Fits
  <2> HIDE DEF f
  <2> QED BY <2>1, <2>3, PartKeeps
<1>6. CASE ArrayEnds
  <2>1. todo # <<>> /\ UNCHANGED <<heap, damaged>> /\ \E v : Completes(v)
    BY <1>6 DEF ArrayEnds, TopIs
  <2> QED BY <2>1, CompletesKeeps
<1>7. CASE NextValue
  <2>1. UNCHANGED <<heap, damaged>> /\ todo' = Append(todo, Item(Top.value))
    BY <1>7 DEF NextValue
  <2> QED BY <2>1, ItemGood, PushedKeeps
<1>8. CASE HashEnds
  <2>1. todo # <<>> /\ UNCHANGED <<heap, damaged>> /\ \E v : Completes(v)
    BY <1>8 DEF HashEnds, TopIs
  <2> QED BY <2>1, CompletesKeeps
<1>9. CASE WriteForeign
  <2> DEFINE f == Frame("foreign", Nil, 1, Nil)
  <2>1. todo # <<>> /\ todo' = Append(Below, f) /\ UNCHANGED <<heap, damaged>>
    BY <1>9 DEF WriteForeign, TopIs
  <2>2. IsFrame(f, heap) /\ Fits(f, heap)
    BY FrameGood
  <2> HIDE DEF f
  <2> QED BY <2>1, <2>2, ReplacedKeeps
<1>10. CASE ForeignReturns
  <2>1. todo # <<>> /\ UNCHANGED <<heap, damaged>> /\ \E v : Completes(v)
    BY <1>10 DEF ForeignReturns, TopIs
  <2> QED BY <2>1, CompletesKeeps
<1>11. CASE Refuses
  <2>1. todo # <<>> /\ Unwinds(buffer, 0)
    BY <1>11 DEF Refuses, TopIs
  <2> QED BY <2>1, UnwindsKeeps
<1>12. CASE IoRaises
  <2>1. todo # <<>> /\ \E bytes, n : Unwinds(bytes, n)
    BY <1>12 DEF IoRaises, TopIs
  <2> QED BY <2>1, UnwindsKeeps
<1> QED BY <1>1, <1>2, <1>3, <1>4, <1>5, <1>6, <1>7, <1>8, <1>9, <1>10, <1>11, <1>12,
           WriteHashKeeps, NextEntryKeeps
-----------------------------------------------------------------------------
(* The calls *)

\* Only a to_cbor that is under way counts as a callback.
LEMMA InCallbackIs == Inv /\ InCallback => todo # <<>>
<1>1. Inv => DOMAIN todo = 1 .. Len(todo) /\ (todo = <<>> => Len(todo) = 0)
  BY LengthOf, EmptyIsSeq DEF Inv, StackOK
<1> QED BY <1>1 DEF InCallback, Outside

\* A method of the packer, or CBOR.encode.
LEMMA CallsKeep ==
  ASSUME Inv,
         \/ \E v \in Arguments : Write(v) \/ Encode(v)
         \/ \E header \in Headers : WriteHeader(header[1], header[2])
         \/ HeaderEnds \/ Flush \/ Clear \/ EncodeReturns \/ CallbackRaises
  PROVE  Inv'
<1>1. ASSUME NEW v, Write(v) PROVE Inv'
  <2>1. UNCHANGED <<heap, damaged>> /\ todo' = Append(todo, Item(v))
    BY <1>1 DEF Write
  <2> QED BY <2>1, ItemGood, PushedKeeps
<1>2. ASSUME NEW v, Encode(v) PROVE Inv'
  <2> DEFINE f == Frame("encode", Nil, 1, Nil)
             g == Item(v)
  <2>1. UNCHANGED <<heap, damaged>> /\ todo' = <<f, g>>
    BY <1>2 DEF Encode
  <2>2. IsFrame(f, heap) /\ Fits(f, heap) /\ IsFrame(g, heap) /\ Fits(g, heap)
    BY FrameGood, ItemGood
  <2> HIDE DEF f, g
  <2> DEFINE s == Append(<<>>, f)
  <2>3. StackOK(s, heap) /\ AllFit(s, heap)
    BY <2>2, EmptyGood, AppendGood
  <2>4. <<f, g>> = Append(s, g)
    OBVIOUS
  <2> HIDE DEF s
  <2>5. StackOK(todo', heap) /\ AllFit(todo', heap)
    BY <2>1, <2>2, <2>3, <2>4, AppendGood
  <2> QED BY <2>1, <2>5, SameHeapKeeps
<1>3. ASSUME NEW type, NEW n, WriteHeader(type, n) PROVE Inv'
  <2>1. UNCHANGED <<heap, damaged>>
        /\ \E o, need : todo' = Append(todo, Frame("header", o, need, type))
    BY <1>3, Zenon DEF WriteHeader
  <2>2. PICK o, need : todo' = Append(todo, Frame("header", o, need, type))
    BY <2>1
  <2> DEFINE f == Frame("header", o, need, type)
  <2>3. IsFrame(f, heap) /\ Fits(f, heap)
    BY FrameGood
  <2> HIDE DEF f
  <2> QED BY <2>1, <2>2, <2>3, PushedKeeps DEF f
<1>4. CASE HeaderEnds
  <2>1. todo # <<>> /\ UNCHANGED <<heap, damaged>> /\ \E v : Completes(v)
    BY <1>4 DEF HeaderEnds, TopIs
  <2> QED BY <2>1, CompletesKeeps
<1>5. CASE Flush
  BY <1>5, SameHeapKeeps DEF Flush, Inv
<1>6. CASE Clear
  <2>1. heap' = heap /\ todo' = <<>>
    BY <1>6 DEF Clear
  <2>2. StackOK(todo', heap') /\ AllFit(todo', heap')
    BY <2>1, EmptyGood
  <2> QED BY <2>1, <2>2 DEF Inv
<1>7. CASE EncodeReturns
  <2>1. todo # <<>> /\ UNCHANGED <<heap, damaged>> /\ Completes(Top.seen[1])
    BY <1>7 DEF EncodeReturns, TopIs
  <2> QED BY <2>1, CompletesKeeps
<1>8. CASE CallbackRaises
  <2>1. todo # <<>> /\ Unwinds(buffer, 0)
    BY <1>8, InCallbackIs DEF CallbackRaises
  <2> QED BY <2>1, UnwindsKeeps
<1> QED BY <1>1, <1>2, <1>3, <1>4, <1>5, <1>6, <1>7, <1>8
-----------------------------------------------------------------------------
(* What to_cbor does to the objects *)

\* One object has other contents.
LEMMA HoldsIs ==
  ASSUME HeapOK(heap), NEW o \in Object, NEW list, IsSeq(list), Holds(o, list),
         heap[o][1] = "hash" =>
           \A k \in 1 .. Len(list) : list[k] = Gone \/ list[k] = <<list[k][1], list[k][2]>>
  PROVE  /\ HeapOK(heap')
         /\ Contained(heap', o) = list
         /\ \A x \in Object : heap'[x][1] = heap[x][1]
         /\ \A x \in Object : x # o => heap'[x] = heap[x]
<1> DEFINE h == heap'
<1>1. h = [heap EXCEPT ![o] = <<heap[o][1], list>>]
  BY DEF Holds
<1>2. DOMAIN heap = Object
  BY DEF HeapOK
<1>3. /\ DOMAIN h = Object /\ h[o] = <<heap[o][1], list>>
      /\ \A x \in Object : x # o => h[x] = heap[x]
      /\ h = [x \in Object |-> h[x]]
  BY <1>1, <1>2
<1> HIDE DEF h
<1>4. \A x \in Object : h[x] = <<h[x][1], h[x][2]>> /\ h[x][1] = heap[x][1]
  BY <1>3 DEF HeapOK
<1>5. h = [x \in Object |-> <<h[x][1], h[x][2]>>]
  BY <1>3, <1>4
<1>6. Contained(h, o) = list /\ \A x \in Object : x # o => Contained(h, x) = Contained(heap, x)
  BY <1>3 DEF Contained
<1>7. ASSUME NEW x \in Object
      PROVE  /\ h[x][1] \in {"array", "hash"} /\ IsSeq(Contained(h, x))
             /\ h[x][1] = "hash" =>
                  \A k \in 1 .. Len(Contained(h, x)) :
                    LET e == Contained(h, x)[k] IN e = Gone \/ e = <<e[1], e[2]>>
  <2>1. CASE x = o
    BY <1>4, <1>6, <2>1 DEF HeapOK
  <2>2. CASE x # o
    <3>1. Contained(h, x) = Contained(heap, x) /\ h[x][1] = heap[x][1]
      BY <1>4, <1>6, <2>2
    <3> DEFINE c == Contained(heap, x)
               d == Contained(h, x)
    <3>2. /\ heap[x][1] \in {"array", "hash"} /\ IsSeq(c)
          /\ heap[x][1] = "hash" =>
               \A k \in 1 .. Len(c) : LET e == c[k] IN e = Gone \/ e = <<e[1], e[2]>>
      BY DEF HeapOK
    <3>3. d = c
      BY <3>1
    <3> HIDE DEF c, d
    <3>4. /\ h[x][1] \in {"array", "hash"} /\ IsSeq(d)
          /\ h[x][1] = "hash" =>
               \A k \in 1 .. Len(d) : LET e == d[k] IN e = Gone \/ e = <<e[1], e[2]>>
      BY <3>1, <3>2, <3>3, Zenon
    <3> QED BY <3>4 DEF d
  <2> QED BY <2>1, <2>2
<1>8. HeapOK(h)
  BY <1>5, <1>7, Zenon DEF HeapOK
<1> QED BY <1>3, <1>4, <1>6, <1>8 DEF h

\* The frames of a stack stay what they were, and go on to fit the objects, if
\* those of the object that changes do.
LEMMA HoldsKeeps ==
  ASSUME Inv, NEW o \in Object, NEW list, IsSeq(list), Holds(o, list),
         heap[o][1] = "hash" =>
           \A k \in 1 .. Len(list) : list[k] = Gone \/ list[k] = <<list[k][1], list[k][2]>>,
         todo' = todo, ~damaged' => ~damaged,
         ~damaged' => \A k \in 1 .. Len(todo) :
           todo[k].kind = "hash" /\ todo[k].obj = o =>
             Live(heap', o, todo[k].at) = Live(heap, o, todo[k].at)
  PROVE  Inv'
<1>1. /\ HeapOK(heap')
      /\ \A x \in Object : heap'[x][1] = heap[x][1]
      /\ \A x \in Object : x # o => heap'[x] = heap[x]
  BY HoldsIs DEF Inv
<1>2. StackOK(todo', heap')
  BY <1>1 DEF Inv, StackOK, IsFrame
<1>3. ASSUME ~damaged', NEW k \in 1 .. Len(todo) PROVE Fits(todo[k], heap')
  <2> DEFINE f == todo[k]
  <2>1. Fits(f, heap) /\ IsFrame(f, heap)
    BY <1>3 DEF Inv, AllFit, StackOK
  <2> SUFFICES ASSUME f.kind = "hash" PROVE Fits(f, heap')
    BY DEF Fits
  <2>2. f.obj \in Object
    BY <2>1 DEF IsFrame
  <2>3. Live(heap', f.obj, f.at) = Live(heap, f.obj, f.at)
    <3>1. CASE f.obj = o
      BY <1>3, <3>1
    <3>2. CASE f.obj # o
      BY <1>1, <2>2, <3>2 DEF Live, Contained
    <3> QED BY <3>1, <3>2
  <2> QED BY <2>1, <2>3 DEF Fits
<1>4. ~damaged' => AllFit(todo', heap')
  BY <1>3 DEF AllFit
<1> QED BY <1>1, <1>2, <1>4 DEF Inv

\* An array gets shorter or longer: no hash is concerned.
LEMMA ArrayChangesKeeps == \A o \in Object : Inv /\ ArrayChanges(o) => Inv'
<1> SUFFICES ASSUME NEW o \in Object, Inv, ArrayChanges(o) PROVE Inv'
  OBVIOUS
<1>1. heap[o][1] = "array" /\ UNCHANGED <<todo, damaged>>
  BY DEF ArrayChanges
<1>2. IsSeq(Contents(o))
  BY DEF Inv, HeapOK, Contents, Contained
<1>3. \E list : IsSeq(list) /\ Holds(o, list)
  <2>1. \/ Contents(o) # <<>> /\ Holds(o, Front(Contents(o)))
        \/ Holds(o, Append(Contents(o), Nil))
    BY DEF ArrayChanges
  <2> QED BY <1>2, <2>1, FrontOf, AppendOf
<1>4. \A k \in 1 .. Len(todo) : todo[k].kind = "hash" => todo[k].obj # o
  BY <1>1 DEF Inv, StackOK, IsFrame
<1> QED BY <1>1, <1>3, <1>4, HoldsKeeps

\* A hash loses an entry, gets another value for a key, or a new key.
LEMMA HashChangesKeeps == \A o \in Object : Inv /\ HashChanges(o) => Inv'
<1> SUFFICES ASSUME NEW o \in Object, Inv, HashChanges(o) PROVE Inv'
  OBVIOUS
<1> DEFINE c == Contents(o)
<1>1. heap[o][1] = "hash" /\ todo' = todo
  BY DEF HashChanges
<1>2. /\ HeapOK(heap) /\ c = Contained(heap, o) /\ IsSeq(c)
      /\ \A k \in 1 .. Len(c) : c[k] = Gone \/ c[k] = <<c[k][1], c[k][2]>>
  BY <1>1 DEF Inv, HeapOK, Contents, Contained
<1>3. DOMAIN c = 1 .. Len(c) /\ Len(c) \in Nat
  BY <1>2, LengthOf
<1>4. LiveAfter(o, 0) = {k \in DOMAIN c : k > 0 /\ c[k] # Gone}
  BY DEF LiveAfter
<1>5. /\ DOMAIN todo = 1 .. Len(todo)
      /\ \A k \in 1 .. Len(todo) : todo[k].at \in Nat
  BY LengthOf DEF Inv, StackOK, IsFrame
<1>6. \/ \E k \in LiveAfter(o, 0) :
           /\ Holds(o, [c EXCEPT ![k] = Gone])
           /\ damaged' = (damaged \/ \E j \in Iterating(o) : todo[j].at < k)
      \/ \E k \in LiveAfter(o, 0) :
           Holds(o, [c EXCEPT ![k][2] = Nil]) /\ UNCHANGED damaged
      \/ Iterating(o) = {} /\ Holds(o, Append(c, <<NewKey, Nil>>)) /\ UNCHANGED damaged
  BY Zenon DEF HashChanges
<1> HIDE DEF c
<1>7. ASSUME NEW k \in LiveAfter(o, 0), Holds(o, [c EXCEPT ![k] = Gone]),
             damaged' = (damaged \/ \E j \in Iterating(o) : todo[j].at < k)
      PROVE  Inv'
  <2> DEFINE list == [c EXCEPT ![k] = Gone]
  <2>1. k \in 1 .. Len(c)
    BY <1>3, <1>4
  <2>2. /\ IsSeq(list) /\ Len(list) = Len(c) /\ list[k] = Gone
        /\ \A i \in 1 .. Len(c) : i # k => list[i] = c[i]
    BY <1>2, <2>1, ElementReplaced
  <2>3. Holds(o, list)
    BY <1>7
  <2> HIDE DEF list
  <2>4. \A i \in 1 .. Len(list) : list[i] = Gone \/ list[i] = <<list[i][1], list[i][2]>>
    BY <1>2, <2>2
  <2>5. Contained(heap', o) = list /\ DOMAIN list = 1 .. Len(c)
    BY <1>2, <2>2, <2>3, <2>4, HoldsIs, LengthOf
  <2>6. ASSUME ~damaged', NEW j \in 1 .. Len(todo), todo[j].kind = "hash", todo[j].obj = o
        PROVE  Live(heap', o, todo[j].at) = Live(heap, o, todo[j].at)
    <3>1. j \in Iterating(o) /\ ~(todo[j].at < k)
      BY <1>5, <1>7, <2>6 DEF Iterating
    <3>2. k <= todo[j].at
      BY <1>5, <2>1, <3>1
    <3> DEFINE at == todo[j].at
    <3> HIDE DEF at
    <3>3. {i \in 1 .. Len(c) : i > at /\ list[i] # Gone} = {i \in 1 .. Len(c) : i > at /\ c[i] # Gone}
      <4>1. \A i \in 1 .. Len(c) : i > at => i # k
        BY <1>3, <1>5, <2>1, <3>2 DEF at
      <4> QED BY <2>2, <4>1
    <3> QED BY <1>2, <1>3, <2>5, <3>3 DEF Live, at
  <2>7. ~damaged' => ~damaged
    BY <1>7
  <2> QED BY <1>1, <2>2, <2>3, <2>4, <2>6, <2>7, HoldsKeeps
<1>8. ASSUME NEW k \in LiveAfter(o, 0), Holds(o, [c EXCEPT ![k][2] = Nil]), UNCHANGED damaged
      PROVE  Inv'
  <2> DEFINE e == <<c[k][1], Nil>>
             list == [c EXCEPT ![k] = e]
  <2>1. k \in 1 .. Len(c) /\ c[k] # Gone
    BY <1>3, <1>4
  <2>2. /\ IsSeq(list) /\ Len(list) = Len(c) /\ list[k] = e
        /\ \A i \in 1 .. Len(c) : i # k => list[i] = c[i]
    BY <1>2, <2>1, ElementReplaced
  <2>3. Holds(o, list)
    <3>1. c[k] = <<c[k][1], c[k][2]>>
      BY <1>2, <2>1
    <3>2. [c[k] EXCEPT ![2] = Nil] = e
      BY <3>1
    <3> QED BY <1>8, <3>2
  <2>4. e # Gone /\ e = <<e[1], e[2]>>
    BY DEF Gone
  <2> HIDE DEF list, e
  <2>5. \A i \in 1 .. Len(list) : list[i] = Gone \/ list[i] = <<list[i][1], list[i][2]>>
    BY <1>2, <2>2, <2>4
  <2>6. Contained(heap', o) = list /\ DOMAIN list = 1 .. Len(c)
    BY <1>2, <2>2, <2>3, <2>5, HoldsIs, LengthOf
  <2>7. \A i \in 1 .. Len(c) : list[i] # Gone <=> c[i] # Gone
    BY <2>1, <2>2, <2>4
  <2>8. \A at : Live(heap', o, at) = Live(heap, o, at)
    BY <1>2, <1>3, <2>6, <2>7 DEF Live
  <2> QED BY <1>1, <1>8, <2>2, <2>3, <2>5, <2>8, HoldsKeeps
<1>9. CASE Iterating(o) = {} /\ Holds(o, Append(c, <<NewKey, Nil>>)) /\ UNCHANGED damaged
  <2> DEFINE e == <<NewKey, Nil>>
             list == Append(c, e)
  <2>1. /\ IsSeq(list) /\ Len(list) = Len(c) + 1 /\ list[Len(c) + 1] = e
        /\ \A i \in 1 .. Len(c) : list[i] = c[i]
    BY <1>2, AppendOf
  <2>2. e = <<e[1], e[2]>>
    OBVIOUS
  <2> HIDE DEF e
  <2>3. \A i \in 1 .. Len(list) : i \in 1 .. Len(c) \/ i = Len(c) + 1
    BY <1>3, <2>1
  <2>4. Holds(o, list)
    BY <1>9 DEF e
  <2> HIDE DEF list
  <2>5. \A i \in 1 .. Len(list) : list[i] = Gone \/ list[i] = <<list[i][1], list[i][2]>>
    BY <1>2, <2>1, <2>2, <2>3
  <2>6. \A j \in 1 .. Len(todo) : ~(todo[j].kind = "hash" /\ todo[j].obj = o)
    BY <1>5, <1>9 DEF Iterating
  <2> QED BY <1>1, <1>9, <2>1, <2>4, <2>5, <2>6, HoldsKeeps
<1> QED BY <1>6, <1>7, <1>8, <1>9
-----------------------------------------------------------------------------
(* Every hash is as long as its header says *)

\* A new packer.
LEMMA InitInv == Init => Inv
<1> SUFFICES ASSUME Init PROVE Inv
  OBVIOUS
<1>1. heap \in Heaps /\ todo = <<>>
  BY DEF Init
<1>2. ASSUME NEW o \in Object
      PROVE  /\ heap[o][1] \in {"array", "hash"} /\ IsSeq(Contained(heap, o))
             /\ heap[o][1] = "hash" =>
                  \A k \in 1 .. Len(Contained(heap, o)) :
                    LET e == Contained(heap, o)[k] IN e = Gone \/ e = <<e[1], e[2]>>
  <2> DEFINE c == heap[o][2]
  <2>1. /\ heap[o][1] \in {"array", "hash"} /\ c \in Seq(Range(c))
        /\ heap[o][1] = "hash" => \A e \in Range(c) : e = <<e[1], e[2]>>
    BY <1>1, HeapsAssumption
  <2> HIDE DEF c
  <2>2. \A k \in 1 .. Len(c) : c[k] \in Range(c)
    BY <2>1, ElementOfSeq
  <2>3. IsSeq(c) /\ Contained(heap, o) = c
    BY <2>1 DEF IsSeq, Contained, c
  <2> QED BY <2>1, <2>2, <2>3
<1>3. HeapOK(heap)
  BY <1>1, <1>2, HeapsAssumption, Zenon DEF HeapOK
<1> QED BY <1>1, <1>3, EmptyGood DEF Inv

\* Every step keeps the invariant.
LEMMA NextInv == Inv /\ [Next]_vars => Inv'
<1>1. Inv /\ Next => Inv'
  BY WritesKeeps, CallsKeep, ArrayChangesKeeps, HashChangesKeeps DEF Next
<1>2. Inv /\ UNCHANGED vars => Inv'
  BY DEF vars, Inv
<1> QED BY <1>1, <1>2

\* The header of a hash fits its entries: those still to be written are as many
\* as it has left to come, whatever the to_cbor of its keys and values did to
\* this and other hashes, unless they deleted one of these entries.
THEOREM HeadersAlwaysFit == Spec => []HeadersFit
<1>1. Inv => HeadersFit
  <2> SUFFICES ASSUME Inv, ~damaged, NEW k \in DOMAIN todo, todo[k].kind = "hash"
               PROVE  todo[k].i + Cardinality(LiveAfter(todo[k].obj, todo[k].at)) = todo[k].need
    BY DEF HeadersFit
  <2>1. Fits(todo[k], heap)
    BY LengthOf DEF Inv, StackOK, AllFit
  <2>2. LiveAfter(todo[k].obj, todo[k].at) = Live(heap, todo[k].obj, todo[k].at)
    BY DEF LiveAfter, Live, Contents, Contained
  <2> QED BY <2>1, <2>2 DEF Fits
<1>2. Init => Inv
  BY InitInv
<1>3. Inv /\ [Next]_vars => Inv'
  BY NextInv
<1> QED BY <1>1, <1>2, <1>3, PTL DEF Spec

-----------------------------------------------------------------------------
(* Bytes of the values that have no elements *)

\* The argument of an initial byte has 0, 1, 2, 4 or 8 bytes of its own.
LEMMA WidthOf ==
  ASSUME NEW n \in Seq(Byte), Len(n) <= 8
  PROVE  Width(n) \in {0, 1, 2, 4, 8} /\ (Width(n) = 0 <=> Immediate(n))
<1> DEFINE T == {w \in {1, 2, 4, 8} : Len(n) <= w}
<1>1. Len(n) \in Nat
  BY LenProperties
<1>2. T \subseteq Nat /\ 8 \in T
  OBVIOUS
<1>3. Min(T) \in T
  BY <1>2, MinOfNaturals
<1>4. Min(T) \in {1, 2, 4, 8}
  BY <1>3
<1> HIDE DEF T
<1>5. Width(n) = IF Immediate(n) THEN 0 ELSE Min(T)
  BY DEF Width, T
<1> QED BY <1>4, <1>5

\* The low bits of the first byte of a head.
AiOf(n) == CASE Width(n) = 0 -> CountOf(n) [] Width(n) = 1 -> 24
             [] Width(n) = 2 -> 25 [] Width(n) = 4 -> 26 [] Width(n) = 8 -> 27

\* They are the number itself or say how many bytes it has, in which case it
\* would not fit in half of them.
LEMMA AiIs ==
  ASSUME NEW n \in Seq(Byte), Len(n) <= 8
  PROVE  /\ AiOf(n) \in Nat /\ AiOf(n) <= 27
         /\ \/ Width(n) = 0 /\ n = <<>> /\ AiOf(n) = 0
            \/ Width(n) = 0 /\ n = <<AiOf(n)>> /\ AiOf(n) < 24
            \/ Width(n) = 1 /\ AiOf(n) = 24
            \/ Width(n) = 2 /\ AiOf(n) = 25
            \/ Width(n) = 4 /\ AiOf(n) = 26
            \/ Width(n) = 8 /\ AiOf(n) = 27
<1> DEFINE w == Width(n)
           c == CountOf(n)
           ai == AiOf(n)
<1>1. w \in {0, 1, 2, 4, 8} /\ (w = 0 => Immediate(n))
  BY WidthOf
<1>2. w = 0 => \/ n = <<>> /\ c = 0
               \/ n = <<c>> /\ c \in Nat /\ c < 24
  <2>1. CASE n = <<>>
    <3>1. Len(n) = 0 /\ Len(n) # 1 /\ Len(n) # 2 /\ Len(n) # 3
      BY <2>1
    <3>2. c = 0
      BY <3>1, Zenon DEF CountOf
    <3> QED BY <2>1, <3>2
  <2>2. CASE Len(n) = 1 /\ n[1] < 24
    <3>1. Len(n) = 1 /\ Len(n) # 0 /\ Len(n) # 2 /\ Len(n) # 3
      BY <2>2
    <3>2. c = n[1]
      BY <3>1, Zenon DEF CountOf
    <3>3. n[1] \in Byte
      <4>1. 1 \in 1 .. Len(n)
        BY <3>1
      <4> QED BY <4>1, ElementOfSeq
    <3>4. n[1] \in Nat
      BY ONLY <3>3, ByteIs
    <3>5. n = <<n[1]>>
      BY <3>1
    <3> HIDE DEF c
    <3> QED BY <2>2, <3>2, <3>4, <3>5
  <2> QED BY <1>1, <2>1, <2>2 DEF Immediate
<1> HIDE DEF w, c
<1>3. w = 0 => ai = c
  <2> SUFFICES ASSUME w = 0 PROVE ai = c
    OBVIOUS
  <2>1. w = 0 /\ w # 1 /\ w # 2 /\ w # 4 /\ w # 8
    OBVIOUS
  <2> QED BY <2>1, Zenon DEF AiOf, w, c
<1>4. w = 1 => ai = 24
  <2> SUFFICES ASSUME w = 1 PROVE ai = 24
    OBVIOUS
  <2>1. w = 1 /\ w # 0 /\ w # 2 /\ w # 4 /\ w # 8
    OBVIOUS
  <2> QED BY <2>1, Zenon DEF AiOf, w
<1>5. w = 2 => ai = 25
  <2> SUFFICES ASSUME w = 2 PROVE ai = 25
    OBVIOUS
  <2>1. w = 2 /\ w # 0 /\ w # 1 /\ w # 4 /\ w # 8
    OBVIOUS
  <2> QED BY <2>1, Zenon DEF AiOf, w
<1>6. w = 4 => ai = 26
  <2> SUFFICES ASSUME w = 4 PROVE ai = 26
    OBVIOUS
  <2>1. w = 4 /\ w # 0 /\ w # 1 /\ w # 2 /\ w # 8
    OBVIOUS
  <2> QED BY <2>1, Zenon DEF AiOf, w
<1>7. w = 8 => ai = 27
  <2> SUFFICES ASSUME w = 8 PROVE ai = 27
    OBVIOUS
  <2>1. w = 8 /\ w # 0 /\ w # 1 /\ w # 2 /\ w # 4
    OBVIOUS
  <2> QED BY <2>1, Zenon DEF AiOf, w
<1> HIDE DEF ai
<1>8. /\ ai \in Nat /\ ai <= 27
      /\ \/ w = 0 /\ n = <<>> /\ ai = 0
         \/ w = 0 /\ n = <<ai>> /\ ai < 24
         \/ w = 1 /\ ai = 24
         \/ w = 2 /\ ai = 25
         \/ w = 4 /\ ai = 26
         \/ w = 8 /\ ai = 27
  BY <1>1, <1>2, <1>3, <1>4, <1>5, <1>6, <1>7
<1> QED BY <1>8 DEF ai, w

\* The head of an item is its first byte and its argument.
LEMMA HeadIs ==
  ASSUME NEW type, NEW n
  PROVE  WriteHead(type, n) = <<32 * type + AiOf(n)>> \o IF Width(n) = 0 THEN <<>> ELSE Padded(n, Width(n))
BY DEF WriteHead, AiOf

\* It is a string of bytes.
LEMMA HeadType ==
  ASSUME NEW type \in 0 .. 7, NEW n \in Seq(Byte), Len(n) <= 8
  PROVE  WriteHead(type, n) \in Seq(Byte)
<1> DEFINE w == Width(n)
           ai == AiOf(n)
           p == IF w = 0 THEN <<>> ELSE Padded(n, w)
           h == 32 * type + ai
<1>1. w \in {0, 1, 2, 4, 8}
  BY WidthOf
<1>2. ai \in Nat /\ ai <= 27
  BY AiIs
<1>3. p \in Seq(Byte)
  <2>1. w \in Nat
    BY <1>1
  <2> HIDE DEF w
  <2>2. Padded(n, w) \in Seq(Byte) /\ <<>> \in Seq(Byte)
    BY <2>1, PaddedType, EmptySeq
  <2> QED BY <2>2
<1>4. WriteHead(type, n) = <<h>> \o p
  BY HeadIs
<1> HIDE DEF ai, p, w
<1>5. h \in Byte
  BY <1>2 DEF Byte
<1> HIDE DEF h
<1>6. <<h>> \in Seq(Byte)
  BY <1>5, OneByte
<1>7. <<h>> \o p \in Seq(Byte)
  BY ONLY <1>3, <1>6, ConcatProperties
<1> QED BY <1>4, <1>7

\* A string with its head.
LEMMA StringType ==
  ASSUME NEW text, NEW bytes \in Seq(Byte), Len(bytes) \in Lengths
  PROVE  StringBytes(Str(text, bytes)) \in Seq(Byte)
<1> DEFINE s == Str(text, bytes)
           type == IF s[2] THEN TextString ELSE ByteString
           n == Number(Len(bytes))
           h == WriteHead(type, n)
<1>1. s[3] = bytes
  BY DEF Str
<1>2. type \in 0 .. 7
  BY DEF TextString, ByteString
<1>3. n \in Seq(Byte) /\ Len(n) <= 3 /\ Len(n) \in Nat
  <2> DEFINE l == Len(bytes)
  <2>1. l \in Lengths
    OBVIOUS
  <2> HIDE DEF l
  <2>2. Number(l) \in Seq(Byte) /\ Len(Number(l)) <= 3
    BY <2>1, NumberType
  <2> QED BY <2>2, LenProperties DEF l
<1> HIDE DEF s, type, n
<1>4. h \in Seq(Byte)
  BY <1>2, <1>3, HeadType
<1>5. StringBytes(s) = h \o bytes
  BY <1>1 DEF StringBytes, h, type, n
<1> HIDE DEF h
<1>6. StringBytes(s) \in Seq(Byte)
  BY ONLY <1>4, <1>5, bytes \in Seq(Byte), Joined
<1> QED BY <1>6 DEF s

\* Fixnums and bignums.
LEMMA IntegerType ==
  ASSUME NEW negative, NEW n \in Seq(Byte), Len(n) \in Lengths
  PROVE  IntegerBytes(negative, n) \in Seq(Byte)
<1> DEFINE one == IF negative THEN 1 ELSE 0
           l == Number(Len(n))
           h == WriteHead(ByteString, l)
           t == 194 + one
<1>1. one \in {0, 1}
  OBVIOUS
<1> HIDE DEF one
<1>2. CASE Len(n) > 8
  <2>1. t \in Byte
    BY <1>1 DEF Byte
  <2> HIDE DEF t
  <2>2. <<t>> \in Seq(Byte)
    BY <2>1, OneByte
  <2>3. l \in Seq(Byte) /\ Len(l) <= 3 /\ Len(l) \in Nat
    <3> DEFINE k == Len(n)
    <3>1. k \in Lengths
      OBVIOUS
    <3> HIDE DEF k
    <3>2. Number(k) \in Seq(Byte) /\ Len(Number(k)) <= 3
      BY <3>1, NumberType
    <3> QED BY <3>2, LenProperties DEF k
  <2> HIDE DEF l
  <2>4. ByteString \in 0 .. 7
    BY DEF ByteString
  <2>5. h \in Seq(Byte)
    <3>1. Len(l) <= 8
      BY <2>3
    <3> QED BY <2>3, <2>4, <3>1, HeadType, Zenon
  <2>6. IntegerBytes(negative, n) = <<t>> \o h \o n
    BY <1>2 DEF IntegerBytes, t, h, l, one
  <2> HIDE DEF h
  <2>7. <<t>> \o h \in Seq(Byte)
    BY ONLY <2>2, <2>5, Joined
  <2>8. <<t>> \o h \o n \in Seq(Byte)
    BY ONLY <2>7, n \in Seq(Byte), Joined
  <2> QED BY ONLY <2>6, <2>8
<1>3. CASE ~(Len(n) > 8)
  <2>1. Unsigned + one \in 0 .. 7
    BY <1>1 DEF Unsigned
  <2>2. Len(n) <= 8
    BY <1>3, LenProperties
  <2>3. IntegerBytes(negative, n) = WriteHead(Unsigned + one, n)
    BY <1>3 DEF IntegerBytes, one
  <2> DEFINE type == Unsigned + one
  <2> HIDE DEF type
  <2>4. WriteHead(type, n) \in Seq(Byte)
    BY <2>1, <2>2, HeadType DEF type
  <2> QED BY <2>3, <2>4 DEF type
<1> QED BY <1>2, <1>3

\* A byte of ISO-8859-1 in UTF-8.
LEMMA Utf8Type ==
  ASSUME NEW bytes \in Seq(Byte)
  PROVE  Utf8(bytes) \in Seq(Byte)
<1> DEFINE c(x) == IF x < 128 THEN <<x>> ELSE <<192 + x \div 64, 128 + (x % 64)>>
           q == [i \in DOMAIN bytes |-> c(bytes[i])]
<1>1. ASSUME NEW x \in Byte PROVE c(x) \in Seq(Byte)
  <2>1. x \in Nat /\ x <= 255
    BY ByteIs
  <2>2. <<x>> \in Seq(Byte)
    BY OneByte
  <2> DEFINE a == 192 + x \div 64
             b == 128 + (x % 64)
  <2>3. a \in Nat /\ a <= 255
    BY <2>1
  <2>4. b \in Nat /\ b <= 255
    BY <2>1
  <2> HIDE DEF a, b
  <2>5. a \in Byte /\ b \in Byte
    BY <2>3, <2>4 DEF Byte
  <2>6. <<a, b>> \in Seq(Byte)
    BY <2>5, TwoBytes
  <2> QED BY <2>2, <2>6 DEF a, b
<1> HIDE DEF c
<1>2. Len(bytes) \in Nat /\ DOMAIN bytes = 1 .. Len(bytes)
  BY LenProperties
<1>3. \A i \in 1 .. Len(bytes) : c(bytes[i]) \in Seq(Byte)
  BY <1>1, ElementOfSeq
<1>4. q \in Seq(Seq(Byte))
  <2> DEFINE n == Len(bytes)
             S == Seq(Byte)
  <2>1. q = [i \in 1 .. n |-> c(bytes[i])] /\ n \in Nat
    BY <1>2
  <2>2. \A i \in 1 .. n : c(bytes[i]) \in S
    BY <1>3
  <2> HIDE DEF n, S, q
  <2>3. q \in [1 .. n -> S]
    BY <2>1, <2>2
  <2>4. q \in Seq(S)
    BY <2>1, <2>3
  <2> QED BY <2>4 DEF S
<1>5. FlattenSeq(q) \in Seq(Byte)
  <2> HIDE DEF q
  <2> QED BY <1>4, FlattenType
<1> QED BY <1>5 DEF Utf8, q, c

\* A string of any encoding as it goes out.
LEMMA EncodedType ==
  ASSUME NEW encoding \in {"binary", "utf8", "usascii", "latin1"}, NEW bytes \in Seq(Byte)
  PROVE  \E text, out : out \in Seq(Byte) /\ Encoded(encoding, bytes) = Str(text, out)
<1>1. CASE encoding = "binary"
  <2>1. encoding \notin {"utf8", "usascii"} /\ encoding # "latin1"
    BY <1>1
  <2>2. Encoded(encoding, bytes) = Str(FALSE, bytes)
    BY <1>1, <2>1, Zenon DEF Encoded
  <2> QED BY <2>2
<1>2. CASE encoding \in {"utf8", "usascii"}
  <2> DEFINE s == Str(TRUE, bytes)
  <2>1. encoding # "binary" /\ encoding # "latin1"
    BY <1>2
  <2>2. Encoded(encoding, bytes) = s
    BY <1>2, <2>1, Zenon DEF Encoded
  <2> QED BY <2>2
<1>3. CASE encoding = "latin1"
  <2>1. encoding # "binary" /\ encoding \notin {"utf8", "usascii"}
    BY <1>3
  <2>2. Encoded(encoding, bytes) = Str(TRUE, Utf8(bytes))
    BY <1>3, <2>1, Zenon DEF Encoded
  <2> QED BY <2>2, Utf8Type
<1> QED BY <1>1, <1>2, <1>3

-----------------------------------------------------------------------------
(* Heads as the unpacker reads them *)

\* The first byte of a head gives back the type and says how many bytes follow.
LEMMA FirstByte ==
  ASSUME NEW type \in 0 .. 7, NEW n \in Seq(Byte), Len(n) <= 8
  PROVE  /\ MajorType(32 * type + AiOf(n)) = type
         /\ AI(32 * type + AiOf(n)) = AiOf(n)
         /\ ArgWidth(32 * type + AiOf(n)) = Width(n)
<1> DEFINE w == Width(n)
           ai == AiOf(n)
           ib == 32 * type + ai
<1>1. /\ ai \in Nat /\ ai <= 27
      /\ \/ w = 0 /\ ai < 24
         \/ w = 1 /\ ai = 24
         \/ w = 2 /\ ai = 25
         \/ w = 4 /\ ai = 26
         \/ w = 8 /\ ai = 27
  BY AiIs
<1> HIDE DEF w, ai
<1>2. ib \div 32 = type /\ ib % 32 = ai
  BY <1>1
<1> HIDE DEF ib
<1>3. MajorType(ib) = type /\ AI(ib) = ai
  BY <1>2 DEF MajorType, AI
<1>4. ArgWidth(ib) = IF ai \in 24 .. 27 THEN <<1, 2, 4, 8>>[ai - 23] ELSE 0
  BY <1>3 DEF ArgWidth
<1>5. ArgWidth(ib) = w
  BY <1>1, <1>4
<1> QED BY <1>3, <1>5 DEF ib, ai, w

\* No half of the bytes the argument has is enough for it.
LEMMA NoHalf ==
  ASSUME NEW n \in Seq(Byte), Len(n) <= 8, Width(n) > 0
  PROVE  /\ Len(n) <= Width(n)
         /\ Width(n) > 1 => Len(n) > Width(n) \div 2
         /\ ~Immediate(n)
<1> DEFINE T == {w \in {1, 2, 4, 8} : Len(n) <= w}
           m == Min(T)
           l == Len(n)
<1>1. l \in Nat /\ l <= 8
  BY LenProperties
<1>2. ~Immediate(n)
  BY WidthOf
<1>3. Width(n) = m
  BY <1>2 DEF Width
<1>4. T \subseteq Nat /\ 8 \in T
  OBVIOUS
<1>5. m \in T /\ \A w \in T : m <= w
  BY <1>4, MinOfNaturals
<1> HIDE DEF m
<1>6. /\ m \in {1, 2, 4, 8} /\ l <= m
      /\ \A w \in {1, 2, 4, 8} : l <= w => m <= w
  BY <1>5
<1> HIDE DEF l
<1>7. m > 1 => l > m \div 2
  BY <1>1, <1>6
<1> QED BY <1>2, <1>3, <1>6, <1>7 DEF l

\* What the encoder writes as the head of an item the unpacker reads as that
\* head, whatever follows: the same major type, the same number, exactly the
\* bytes written, and in the shortest of the forms CBOR has for it
\* (cbor_encoder_write_head against READ_VAL and the cases of read_primitive).
THEOREM HeadsReadBack ==
  ASSUME NEW type \in 0 .. 7, NEW n \in Seq(Byte), Len(n) <= 8, n # <<>> => n[1] # 0,
         NEW rest \in Seq(Byte)
  PROVE  LET head == WriteHead(type, n)
             s == head \o rest
             ib == s[1]
             width == ArgWidth(ib)
             argument == Argument(ib, SubSeq(s, 2, Len(s)))
         IN /\ MajorType(ib) = type
            /\ Significant(argument) = n
            /\ Len(head) = 1 + width
            /\ width = 1 => n[1] >= 24
            /\ width > 0 => Len(n) > width \div 2
<1> DEFINE w == Width(n)
           ai == AiOf(n)
           ib == 32 * type + ai
           p == IF w = 0 THEN <<>> ELSE Padded(n, w)
           head == WriteHead(type, n)
           s == head \o rest
           behind == SubSeq(s, 2, Len(s))
<1>1. w \in {0, 1, 2, 4, 8} /\ w \in Nat
  BY WidthOf
<1>2. /\ ai \in Nat /\ ai <= 27
      /\ w = 0 => (n = <<>> /\ ai = 0) \/ (n = <<ai>> /\ ai < 24)
  BY AiIs
<1>3. MajorType(ib) = type /\ AI(ib) = ai /\ ArgWidth(ib) = w
  BY FirstByte
<1>4. head = <<ib>> \o p
  BY HeadIs
<1>5. p \in Seq(Byte) /\ Len(p) = w /\ (w # 0 => Significant(p) = n)
  <2>1. CASE w = 0
    BY <2>1, EmptySeq
  <2>2. CASE w # 0
    <3>1. Len(n) <= w /\ n # <<>>
      BY <1>1, <2>2, NoHalf DEF Immediate
    <3> HIDE DEF w
    <3>2. Padded(n, w) \in Seq(Byte) /\ Len(Padded(n, w)) = w /\ Significant(Padded(n, w)) = n
      BY <1>1, <3>1, PaddedIs
    <3> QED BY <2>2, <3>2
  <2> QED BY <2>1, <2>2
<1> HIDE DEF w, ai, p
<1>6. ib \in Byte
  BY <1>2 DEF Byte
<1> HIDE DEF ib
<1>7. <<ib>> \in Seq(Byte) /\ Len(<<ib>>) = 1
  BY <1>6, OneByte
<1>8. head \in Seq(Byte) /\ Len(head) = 1 + w
  BY ONLY <1>4, <1>5, <1>7, ConcatProperties
<1>9. s = <<ib>> \o (p \o rest) /\ p \o rest \in Seq(Byte)
  BY ONLY <1>4, <1>5, <1>7, rest \in Seq(Byte), ConcatAssociative, Joined
<1> HIDE DEF head, s
<1>10. s[1] = ib /\ behind = p \o rest
  <2> DEFINE t == p \o rest
             b == <<ib>>
  <2>1. b \in Seq(Byte) /\ Len(b) = 1 /\ b[1] = ib /\ t \in Seq(Byte) /\ s = b \o t
    BY <1>7, <1>9
  <2> HIDE DEF b, t
  <2>2. SubSeq(b \o t, Len(b) + 1, Len(b \o t)) = t
    <3>1. b \in Seq(Byte) /\ t \in Seq(Byte)
      BY <2>1
    <3> QED BY ONLY <3>1, ConcatCut
  <2>3. SubSeq(s, 2, Len(s)) = t
    BY <2>1, <2>2
  <2>4. s[1] = b[1]
    <3>1. Len(b) = 1 /\ Len(t) \in Nat
      BY <2>1, LenProperties
    <3>2. 1 \in 1 .. Len(b) + Len(t) /\ 1 <= Len(b)
      BY <3>1
    <3>3. (b \o t)[1] = b[1]
      BY ONLY <2>1, <3>2, ConcatProperties
    <3> QED BY <2>1, <3>3
  <2> QED BY <2>1, <2>3, <2>4 DEF t
<1> DEFINE argument == Argument(ib, behind)
<1>11. argument = IF w = 0 THEN <<ai>> ELSE SubSeq(behind, 1, w)
  BY <1>3 DEF Argument
<1> HIDE DEF behind, argument
<1>12. Significant(argument) = n
  <2>1. CASE w = 0
    <3>1. ai \in Byte
      BY <1>2 DEF Byte
    <3>2. Significant(<<ai>>) = IF ai = 0 THEN <<>> ELSE <<ai>>
      BY <3>1, SignificantOne
    <3>3. argument = <<ai>>
      BY <1>11, <2>1
    <3>4. CASE n = <<>> /\ ai = 0
      BY <3>2, <3>3, <3>4
    <3>5. CASE n = <<ai>> /\ ai < 24
      <4>1. n[1] = ai /\ n # <<>>
        BY <3>5
      <4>2. ai # 0
        BY <4>1
      <4> QED BY <3>2, <3>3, <3>5, <4>2
    <3> QED BY <1>2, <2>1, <3>4, <3>5
  <2>2. CASE w # 0
    <3>1. SubSeq(p \o rest, 1, Len(p)) = p
      BY ONLY <1>5, rest \in Seq(Byte), ConcatCut
    <3>2. argument = p
      BY <1>5, <1>10, <1>11, <2>2, <3>1
    <3> QED BY <1>5, <2>2, <3>2
  <2> QED BY <2>1, <2>2
<1>13. w = 1 => n[1] >= 24
  <2> SUFFICES ASSUME w = 1 PROVE n[1] >= 24
    OBVIOUS
  <2>1. Len(n) <= 1 /\ ~Immediate(n)
    <3>1. Width(n) = 1
      BY DEF w
    <3>2. Len(n) <= Width(n) /\ ~Immediate(n)
      BY <3>1, NoHalf
    <3> QED BY <3>1, <3>2
  <2>2. n # <<>> /\ ~(Len(n) = 1 /\ n[1] < 24)
    BY <2>1 DEF Immediate
  <2>3. Len(n) = 1
    <3>1. Len(n) \in Nat /\ (Len(n) = 0 => n = <<>>)
      BY LenProperties, EmptySeq
    <3> DEFINE l == Len(n)
    <3>2. l \in Nat /\ l <= 1 /\ l # 0
      BY <2>1, <2>2, <3>1
    <3> HIDE DEF l
    <3>3. l = 1
      BY <3>2
    <3> QED BY <3>3 DEF l
  <2>4. 1 \in 1 .. Len(n)
    BY <2>3
  <2>5. n[1] \in Byte
    BY <2>4, ElementOfSeq
  <2>6. n[1] \in Nat
    BY ONLY <2>5, ByteIs
  <2> QED BY <2>2, <2>3, <2>6
<1>14. w > 0 => Len(n) > w \div 2
  <2>1. CASE w > 1
    <3>1. Width(n) > 1 /\ Width(n) > 0
      BY <1>1, <2>1 DEF w
    <3>2. Len(n) > Width(n) \div 2
      BY <3>1, NoHalf
    <3> QED BY <3>2 DEF w
  <2>2. CASE w = 1
    <3>1. Width(n) > 0
      BY <2>2 DEF w
    <3>2. n # <<>>
      BY <3>1, NoHalf DEF Immediate
    <3>3. Len(n) > 0
      BY <3>2, EmptySeq, LenProperties
    <3>4. w \div 2 = 0
      BY <2>2
    <3> HIDE DEF w
    <3> QED BY <3>3, <3>4
  <2> QED BY <1>1, <2>1, <2>2
<1> QED BY <1>3, <1>8, <1>10, <1>12, <1>13, <1>14 DEF argument, behind, s, head

\* A length, a size or a tag the packer is given is the one the unpacker counts
\* to (read_string, read_array, read_hash and read_tagged take the argument as
\* a number).
THEOREM CountsReadBack ==
  ASSUME NEW type \in 0 .. 7, NEW n \in Lengths, NEW rest \in Seq(Byte)
  PROVE  LET s == WriteHead(type, Number(n)) \o rest
         IN  Count(Argument(s[1], SubSeq(s, 2, Len(s)))) = n
<1> DEFINE q == Number(n)
           s == WriteHead(type, q) \o rest
<1>1. q \in Seq(Byte) /\ Len(q) <= 3 /\ (q # <<>> => q[1] # 0) /\ CountOf(q) = n
  BY NumberType, NumberIs
<1>2. Len(q) <= 8
  BY <1>1, LenProperties
<1> HIDE DEF q
<1>3. Significant(Argument(s[1], SubSeq(s, 2, Len(s)))) = q
  BY <1>1, <1>2, HeadsReadBack
<1> HIDE DEF s
<1>4. Count(Argument(s[1], SubSeq(s, 2, Len(s)))) = n
  BY <1>1, <1>3 DEF Count
<1> QED BY <1>4 DEF s, q

-----------------------------------------------------------------------------
(* Values *)

\* The bytes of a value that has no elements.
LEMMA LeafType ==
  ASSUME NEW v \in Values, v[1] \in Leaves
  PROVE  LeafBytes(v) \in Seq(Byte)
<1> DEFINE k == v[1]
           b == IF v[2] THEN 245 ELSE 244
<1>1. k \in {"nil", "bool", "int", "float", "string", "sym", "simple"}
  BY DEF Leaves
<1>2. CASE k = "nil"
  <2>1. LeafBytes(v) = <<IB_NIL>>
    BY <1>2, Zenon DEF LeafBytes
  <2>2. IB_NIL \in Byte
    BY DEF IB_NIL, Byte
  <2> QED BY <2>1, <2>2, OneByte
<1>3. CASE k = "bool"
  <2>1. k # "nil" /\ k # "int" /\ k # "float" /\ k # "string" /\ k # "sym" /\ k # "simple"
    BY <1>3
  <2>2. LeafBytes(v) = <<b>>
    BY <1>3, <2>1, Zenon DEF LeafBytes
  <2>3. b \in Byte
    BY DEF Byte
  <2> HIDE DEF b
  <2> QED BY <2>2, <2>3, OneByte
<1>4. CASE k = "int"
  <2>1. k # "nil" /\ k # "bool" /\ k # "float" /\ k # "string" /\ k # "sym" /\ k # "simple"
    BY <1>4
  <2>2. LeafBytes(v) = IntegerBytes(v[2], v[3])
    BY <1>4, <2>1, Zenon DEF LeafBytes
  <2>3. v[3] \in Seq(Byte) /\ Len(v[3]) \in Lengths
    BY <1>4, ValueAssumption
  <2> QED BY <2>2, <2>3, IntegerType, Zenon
<1>5. CASE k = "float"
  <2>1. k # "nil" /\ k # "bool" /\ k # "int" /\ k # "string" /\ k # "sym" /\ k # "simple"
    BY <1>5
  <2>2. LeafBytes(v) = FloatBytes(v[2])
    BY <1>5, <2>1, Zenon DEF LeafBytes
  <2>3. v[2] \in Doubles
    BY <1>5, ValueAssumption
  <2> QED BY <2>2, <2>3, FloatType, Zenon
<1>6. CASE k = "string"
  <2>1. k # "nil" /\ k # "bool" /\ k # "int" /\ k # "float" /\ k # "sym" /\ k # "simple"
    BY <1>6
  <2>2. LeafBytes(v) = StringBytes(Encoded(v[2], v[3]))
    BY <1>6, <2>1, Zenon DEF LeafBytes
  <2>3. /\ v[2] \in {"binary", "utf8", "usascii", "latin1"} /\ v[3] \in Seq(Byte)
        /\ Len(Encoded(v[2], v[3])[3]) \in Lengths
    BY <1>6, ValueAssumption
  <2>4. PICK text, out : out \in Seq(Byte) /\ Encoded(v[2], v[3]) = Str(text, out)
    BY <2>3, EncodedType, Zenon
  <2>5. Str(text, out)[3] = out
    BY DEF Str
  <2>6. Len(out) \in Lengths
    BY <2>3, <2>4, <2>5, Zenon
  <2> QED BY <2>2, <2>4, <2>6, StringType, Zenon
<1>7. CASE k = "sym"
  <2>1. k # "nil" /\ k # "bool" /\ k # "int" /\ k # "float" /\ k # "string" /\ k # "simple"
    BY <1>7
  <2>2. LeafBytes(v) = StringBytes(Str(TRUE, v[2]))
    BY <1>7, <2>1, Zenon DEF LeafBytes
  <2>3. v[2] \in Seq(Byte) /\ Len(v[2]) \in Lengths
    BY <1>7, ValueAssumption
  <2> QED BY <2>2, <2>3, StringType, Zenon
<1>8. CASE k = "simple"
  <2>1. k # "nil" /\ k # "bool" /\ k # "int" /\ k # "float" /\ k # "string" /\ k # "sym"
    BY <1>8
  <2> DEFINE n == Number(v[2])
  <2>2. LeafBytes(v) = WriteHead(Prim, n)
    BY <1>8, <2>1, Zenon DEF LeafBytes
  <2>3. v[2] \in Lengths
    BY <1>8, ValueAssumption
  <2>4. n \in Seq(Byte) /\ Len(n) <= 3
    BY <2>3, NumberType, Zenon
  <2> HIDE DEF n
  <2>5. Len(n) <= 8 /\ Prim \in 0 .. 7
    BY <2>4, LenProperties DEF Prim
  <2> QED BY <2>2, <2>4, <2>5, HeadType, Zenon
<1> QED BY <1>1, <1>2, <1>3, <1>4, <1>5, <1>6, <1>7, <1>8

\* The head of a tag, an array or a hash.
LEMMA CountType ==
  ASSUME NEW type \in {ArrayType, MapType, TagType}, NEW n \in Lengths
  PROVE  WriteHead(type, Number(n)) \in Seq(Byte)
<1> DEFINE q == Number(n)
<1>1. q \in Seq(Byte) /\ Len(q) <= 3
  BY NumberType
<1> HIDE DEF q
<1>2. type \in 0 .. 7 /\ Len(q) <= 8
  BY <1>1, LenProperties DEF ArrayType, MapType, TagType
<1>3. WriteHead(type, q) \in Seq(Byte)
  BY <1>1, <1>2, HeadType, Zenon
<1> QED BY <1>3 DEF q

\* The bytes before any place in a string.
LEMMA FirstBytes ==
  ASSUME NEW q \in Seq(Byte), NEW k \in Int, k <= Len(q)
  PROVE  SubSeq(q, 1, k) \in Seq(Byte)
<1>1. Len(q) \in Nat
  BY LenProperties
<1>2. CASE k < 0
  <2>1. SubSeq(q, 1, k) = <<>>
    BY <1>2
  <2> QED BY <2>1, EmptySeq
<1>3. CASE k >= 0
  <2>1. k \in 0 .. Len(q)
    BY <1>1, <1>3
  <2> QED BY <2>1, CutOf
<1> QED BY <1>2, <1>3

\* A bignum is more than its first byte.
LEMMA BignumStarts ==
  ASSUME NEW negative, NEW n \in Seq(Byte), Len(n) \in Lengths, Len(n) > 8
  PROVE  IntegerBytes(negative, n) \in Seq(Byte) /\ 1 < Len(IntegerBytes(negative, n))
<1> DEFINE t == 194 + (IF negative THEN 1 ELSE 0)
           l == Len(n)
           h == WriteHead(ByteString, Number(l))
           b == IntegerBytes(negative, n)
<1>1. b = <<t>> \o h \o n
  BY DEF IntegerBytes
<1>2. b \in Seq(Byte)
  BY IntegerType
<1>3. h \in Seq(Byte)
  <2>1. l \in Lengths
    OBVIOUS
  <2> HIDE DEF l
  <2> DEFINE q == Number(l)
  <2>2. q \in Seq(Byte) /\ Len(q) <= 3
    BY <2>1, NumberType
  <2> HIDE DEF q
  <2>3. Len(q) <= 8 /\ ByteString \in 0 .. 7
    BY <2>2, LenProperties DEF ByteString
  <2>4. WriteHead(ByteString, q) \in Seq(Byte)
    BY <2>2, <2>3, HeadType, Zenon
  <2> QED BY <2>4 DEF q
<1>4. t \in Byte
  BY DEF Byte
<1> HIDE DEF t, h, b
<1>5. <<t>> \in Seq(Byte) /\ Len(<<t>>) = 1
  BY <1>4, OneByte
<1>6. <<t>> \o h \in Seq(Byte) /\ Len(<<t>> \o h) = 1 + Len(h)
  BY ONLY <1>3, <1>5, ConcatProperties
<1>7. Len(b) = Len(<<t>> \o h) + Len(n)
  BY ONLY <1>1, <1>6, n \in Seq(Byte), ConcatProperties
<1>8. Len(h) \in Nat /\ Len(n) \in Nat
  BY <1>3, LenProperties
<1> QED BY <1>2, <1>6, <1>7, <1>8 DEF b

\* What is in the buffer of a value that an exception cuts short.
LEMMA BegunType ==
  ASSUME NEW v \in Values, v[1] \in Leaves \cup {"tagged", "ref"}, NEW begun \in Begun(v)
  PROVE  begun \in Seq(Byte)
<1> DEFINE k == v[1]
           bytes == LeafBytes(v)
           length == Len(bytes)
           l == Len(LeafMeaning(v)[3])
           head == length - l
           A == {SubSeq(bytes, 1, j) : j \in {0, head} \ {length}}
           B == {SubSeq(bytes, 1, j) : j \in {0, 1, head}}
           G1 == k \in {"string", "sym"}
           G2 == k = "int" /\ Len(v[3]) > 8
<1>1. begun \in (CASE G1 -> A [] G2 -> B [] OTHER -> {<<>>})
  BY Zenon DEF Begun
<1>2. G1 => ~G2
  OBVIOUS
<1>3. G1 \/ G2 => bytes \in Seq(Byte) /\ length \in Nat
  BY LeafType, LenProperties DEF Leaves
<1>4. G1 => l \in Nat
  <2>1. CASE k = "string"
    <3>1. k # "sym"
      BY <2>1
    <3>2. LeafMeaning(v) = Encoded(v[2], v[3])
      BY <2>1, <3>1, Zenon DEF LeafMeaning
    <3>3. v[2] \in {"binary", "utf8", "usascii", "latin1"} /\ v[3] \in Seq(Byte)
      BY <2>1, ValueAssumption
    <3>4. PICK text, out : out \in Seq(Byte) /\ Encoded(v[2], v[3]) = Str(text, out)
      BY <3>3, EncodedType, Zenon
    <3>5. Str(text, out)[3] = out
      BY DEF Str
    <3>6. LeafMeaning(v)[3] \in Seq(Byte)
      BY <3>2, <3>4, <3>5, Zenon
    <3> QED BY <3>6, LenProperties
  <2>2. CASE k = "sym"
    <3>1. k # "string"
      BY <2>2
    <3>2. LeafMeaning(v) = Str(TRUE, v[2])
      BY <2>2, <3>1, Zenon DEF LeafMeaning
    <3>3. v[2] \in Seq(Byte)
      BY <2>2, ValueAssumption
    <3>4. Str(TRUE, v[2])[3] = v[2]
      BY DEF Str
    <3>5. LeafMeaning(v)[3] \in Seq(Byte)
      BY <3>2, <3>3, <3>4, Zenon
    <3> QED BY <3>5, LenProperties
  <2> QED BY <2>1, <2>2
<1>5. G2 => l \in Nat /\ 1 <= length
  <2> SUFFICES ASSUME G2 PROVE l \in Nat /\ 1 <= length
    OBVIOUS
  <2>1. k # "string" /\ k # "sym" /\ k # "nil" /\ k # "bool" /\ k # "float" /\ k # "simple"
    OBVIOUS
  <2>2. LeafMeaning(v) = v
    BY <2>1, Zenon DEF LeafMeaning
  <2>3. v[3] \in Seq(Byte) /\ Len(v[3]) \in Lengths
    BY ValueAssumption
  <2>4. bytes = IntegerBytes(v[2], v[3])
    BY <2>1, Zenon DEF LeafBytes
  <2>5. 1 < Len(IntegerBytes(v[2], v[3]))
    BY <2>3, BignumStarts, Zenon
  <2>6. Len(v[3]) \in Nat
    BY <2>3, LenProperties
  <2> QED BY <1>3, <2>2, <2>4, <2>5, <2>6
<1> HIDE DEF bytes, length, l, G1, G2
<1>6. CASE G1
  <2>1. begun \in A
    BY <1>1, <1>2, <1>6, Zenon
  <2>2. PICK j \in {0, head} : begun = SubSeq(bytes, 1, j)
    BY <2>1
  <2>3. j \in Int /\ j <= length
    BY <1>3, <1>4, <1>6
  <2> QED BY <1>3, <1>6, <2>2, <2>3, FirstBytes DEF length
<1>7. CASE G2
  <2>1. begun \in B
    BY <1>1, <1>2, <1>7, Zenon
  <2>2. PICK j \in {0, 1, head} : begun = SubSeq(bytes, 1, j)
    BY <2>1
  <2>3. j \in Int /\ j <= length
    BY <1>3, <1>5, <1>7
  <2> QED BY <1>3, <1>7, <2>2, <2>3, FirstBytes DEF length
<1>8. CASE ~G1 /\ ~G2
  <2>1. begun = <<>>
    BY <1>1, <1>8, Zenon
  <2> QED BY <2>1, EmptySeq
<1> QED BY <1>6, <1>7, <1>8

-----------------------------------------------------------------------------
(* Calls and containers under way *)

Kinds == {"item", "tag", "array", "hash", "foreign", "header", "encode"}

\* what is true of a frame wherever it is on the stack
Plain(f, h) ==
  /\ f = [kind |-> f.kind, obj |-> f.obj, need |-> f.need, i |-> f.i, at |-> f.at,
          value |-> f.value, seen |-> f.seen]
  /\ f.kind \in Kinds /\ f.need \in Nat /\ f.i \in Nat /\ IsSeq(f.seen)
  /\ f.kind \in {"item", "hash", "encode"} => f.value \in Values
  /\ f.kind \in {"array", "hash"} => f.obj \in Object /\ h[f.obj][1] = f.kind
  /\ f.kind = "header" => f.value \in {ArrayType, MapType}
  /\ f.kind \in {"item", "tag", "foreign", "encode"} => f.need = 1

\* The frame on top has no more elements than its header says; the others have
\* room for the one that is being written above them.
OnTop(f) ==
  /\ f.kind # "hash" => Len(f.seen) <= f.need
  /\ f.kind = "array" => f.i <= f.need /\ Len(f.seen) = f.i
  /\ f.kind = "hash" => Len(f.seen) = 2 * f.i - 1 \/ Len(f.seen) = 2 * f.i

Waits(f) ==
  /\ f.kind # "hash" => Len(f.seen) < f.need
  /\ f.kind = "array" => f.i <= f.need /\ Len(f.seen) = f.i - 1
  /\ f.kind = "hash" => Len(f.seen) = 2 * f.i - 2 \/ Len(f.seen) = 2 * f.i - 1
  /\ f.kind # "item"

AllWait(s, h) == IsSeq(s) /\ \A k \in 1 .. Len(s) : Plain(s[k], h) /\ Waits(s[k])

Counted(s, h) ==
  /\ IsSeq(s)
  /\ \A k \in 1 .. Len(s) :
       Plain(s[k], h) /\ (k = Len(s) => OnTop(s[k])) /\ (k < Len(s) => Waits(s[k]))

\* what arrays and hashes hold
StoreOK(h) ==
  \A o \in Object :
    /\ Len(Contained(h, o)) \in Lengths
    /\ \A k \in 1 .. Len(Contained(h, o)) :
         LET e == Contained(h, o)[k]
         IN /\ h[o][1] = "array" => e \in Values
            /\ h[o][1] = "hash" /\ e # Gone => e[1] \in Values /\ e[2] \in Values

\* the bytes and the history
BytesOK == buffer \in Seq(Byte) /\ sent \in Seq(Byte) /\ mark \in Nat /\ damaged \in BOOLEAN

Typed == StoreOK(heap) /\ Counted(todo, heap) /\ BytesOK

TypeInv == Inv /\ Typed

\* No call is under way.
LEMMA NoneWait == \A h : AllWait(<<>>, h) /\ Counted(<<>>, h)
BY EmptyIsSeq DEF AllWait, Counted

\* The frame on top, and those below it.
LEMMA TopCounted ==
  ASSUME NEW s, NEW h, Counted(s, h), s # <<>>
  PROVE  Plain(Last(s), h) /\ OnTop(Last(s)) /\ AllWait(Front(s), h)
<1> DEFINE t == Front(s)
           n == Len(s)
<1>1. IsSeq(s) /\ n \in Nat /\ n \in 1 .. n /\ Last(s) = s[n]
  BY LengthOf DEF Counted
<1>2. IsSeq(t) /\ Len(t) = n - 1 /\ \A k \in 1 .. n - 1 : t[k] = s[k]
  BY <1>1, FrontOf
<1>3. Plain(Last(s), h) /\ OnTop(Last(s))
  BY <1>1 DEF Counted
<1> HIDE DEF t
<1>4. ASSUME NEW k \in 1 .. Len(t) PROVE Plain(t[k], h) /\ Waits(t[k])
  <2>1. k \in 1 .. n /\ k < n /\ t[k] = s[k]
    BY <1>1, <1>2
  <2> QED BY <2>1 DEF Counted
<1>5. AllWait(t, h)
  BY <1>2, <1>4 DEF AllWait
<1> QED BY <1>3, <1>5 DEF t

\* The last of frames that wait, and those before it.
LEMMA LastWaits ==
  ASSUME NEW s, NEW h, AllWait(s, h), s # <<>>
  PROVE  Plain(Last(s), h) /\ Waits(Last(s)) /\ AllWait(Front(s), h)
<1> DEFINE t == Front(s)
           n == Len(s)
<1>1. IsSeq(s) /\ n \in Nat /\ n \in 1 .. n /\ Last(s) = s[n]
  BY LengthOf DEF AllWait
<1>2. IsSeq(t) /\ Len(t) = n - 1 /\ \A k \in 1 .. n - 1 : t[k] = s[k]
  BY <1>1, FrontOf
<1>3. Plain(Last(s), h) /\ Waits(Last(s))
  BY <1>1 DEF AllWait
<1> HIDE DEF t
<1>4. ASSUME NEW k \in 1 .. Len(t) PROVE Plain(t[k], h) /\ Waits(t[k])
  <2>1. k \in 1 .. n /\ t[k] = s[k]
    BY <1>1, <1>2
  <2> QED BY <2>1 DEF AllWait
<1>5. AllWait(t, h)
  BY <1>2, <1>4 DEF AllWait
<1> QED BY <1>3, <1>5 DEF t

\* A frame is pushed on others that wait.
LEMMA PushCounted ==
  ASSUME NEW s, NEW h, AllWait(s, h), NEW f, Plain(f, h)
  PROVE  /\ OnTop(f) => Counted(Append(s, f), h)
         /\ Waits(f) => AllWait(Append(s, f), h)
<1> DEFINE t == Append(s, f)
           n == Len(s)
<1>1. IsSeq(s) /\ n \in Nat
  BY LengthOf DEF AllWait
<1>2. IsSeq(t) /\ Len(t) = n + 1 /\ t[n + 1] = f /\ \A k \in 1 .. n : t[k] = s[k]
  BY <1>1, AppendOf
<1> HIDE DEF t
<1>3. \A k \in 1 .. Len(t) : k = n + 1 \/ (k \in 1 .. n /\ k # n + 1 /\ t[k] = s[k])
  BY <1>1, <1>2
<1>4. OnTop(f) => Counted(t, h)
  <2> SUFFICES ASSUME OnTop(f), NEW k \in 1 .. Len(t)
               PROVE  Plain(t[k], h) /\ (k = Len(t) => OnTop(t[k])) /\ (k < Len(t) => Waits(t[k]))
    BY <1>2 DEF Counted
  <2>1. CASE k = n + 1
    BY <1>1, <1>2, <2>1
  <2>2. CASE k \in 1 .. n /\ k # n + 1 /\ t[k] = s[k]
    <3>1. Plain(s[k], h) /\ Waits(s[k])
      BY <2>2 DEF AllWait
    <3> QED BY <1>2, <2>2, <3>1
  <2> QED BY <1>3, <2>1, <2>2
<1>5. Waits(f) => AllWait(t, h)
  <2> SUFFICES ASSUME Waits(f), NEW k \in 1 .. Len(t) PROVE Plain(t[k], h) /\ Waits(t[k])
    BY <1>2 DEF AllWait
  <2>1. CASE k = n + 1
    BY <1>2, <2>1
  <2>2. CASE k \in 1 .. n /\ k # n + 1 /\ t[k] = s[k]
    BY <2>2 DEF AllWait
  <2> QED BY <1>3, <2>1, <2>2
<1> QED BY <1>4, <1>5 DEF t

\* If the frame on top waits too, all do.
LEMMA TopWaits ==
  ASSUME NEW s, NEW h, Counted(s, h), s # <<>> => Waits(Last(s))
  PROVE  AllWait(s, h)
<1> DEFINE n == Len(s)
<1>1. IsSeq(s) /\ n \in Nat /\ (s # <<>> => Last(s) = s[n]) /\ (s # <<>> <=> n > 0)
  BY LengthOf DEF Counted
<1>2. ASSUME NEW k \in 1 .. Len(s) PROVE Plain(s[k], h) /\ Waits(s[k])
  <2>1. k = n \/ k < n
    BY <1>1
  <2>2. Plain(s[k], h) /\ (k < n => Waits(s[k]))
    BY DEF Counted
  <2> QED BY <1>1, <2>1, <2>2
<1> QED BY <1>1, <1>2 DEF AllWait

\* A new frame has seen nothing.
LEMMA FrameCounted ==
  ASSUME NEW kind \in Kinds, NEW o, NEW need \in Nat, NEW value, NEW h,
         kind \in {"item", "hash", "encode"} => value \in Values,
         kind \in {"array", "hash"} => o \in Object /\ h[o][1] = kind,
         kind = "header" => value \in {ArrayType, MapType},
         kind \in {"item", "tag", "foreign", "encode"} => need = 1
  PROVE  LET f == Frame(kind, o, need, value)
         IN /\ Plain(f, h) /\ OnTop(f) /\ f.kind = kind
            /\ kind \notin {"array", "hash", "item"} /\ need > 0 => Waits(f)
BY EmptyIsSeq DEF Plain, OnTop, Waits, Frame

\* An item is on top.
LEMMA ItemCounted ==
  ASSUME NEW v \in Values, NEW h
  PROVE  Plain(Item(v), h) /\ OnTop(Item(v))
<1>1. "item" \in Kinds /\ 1 \in Nat
  BY DEF Kinds
<1> QED BY <1>1, FrameCounted, Zenon DEF Item

\* A frame that waits is on top again when it has seen one more.
LEMMA SeenCounted ==
  ASSUME NEW f, NEW h, Plain(f, h), Waits(f), NEW v
  PROVE  LET g == [f EXCEPT !.seen = Append(f.seen, v)]
         IN Plain(g, h) /\ OnTop(g)
<1> DEFINE q == f.seen
           r == Append(q, v)
           g == [f EXCEPT !.seen = r]
<1>1. IsSeq(r) /\ Len(r) = Len(q) + 1 /\ Len(q) \in Nat
  BY AppendOf, LengthOf DEF Plain
<1> HIDE DEF r
<1>2. /\ g.kind = f.kind /\ g.obj = f.obj /\ g.need = f.need /\ g.i = f.i
      /\ g.value = f.value /\ g.seen = r /\ g.at = f.at
      /\ g = [kind |-> f.kind, obj |-> f.obj, need |-> f.need, i |-> f.i, at |-> f.at,
             value |-> f.value, seen |-> r]
  BY DEF Plain
<1> HIDE DEF g
<1>3. Plain(g, h)
  BY <1>1, <1>2 DEF Plain
<1>4. OnTop(g)
  BY <1>1, <1>2 DEF Plain, OnTop, Waits
<1> QED BY <1>3, <1>4 DEF g, r

-----------------------------------------------------------------------------
(* The steps of a value that is written *)

\* Bytes go out.
LEMMA EmitsBytes ==
  ASSUME BytesOK, NEW bytes \in Seq(Byte), Emits(bytes)
  PROVE  buffer' \in Seq(Byte) /\ sent' \in Seq(Byte)
<1>1. buffer \in Seq(Byte) /\ sent \in Seq(Byte)
  BY DEF BytesOK
<1>2. buffer \o bytes \in Seq(Byte) /\ sent \o buffer \in Seq(Byte)
  BY ONLY <1>1, bytes \in Seq(Byte), Joined
<1>3. \/ buffer' = buffer \o bytes /\ sent' = sent
      \/ sent' = sent \o buffer /\ buffer' = bytes
  BY DEF Emits
<1> QED BY <1>1, <1>2, <1>3, Zenon

\* The objects and the history are left alone.
LEMMA SameHeapTyped ==
  ASSUME Typed, UNCHANGED <<heap, mark, damaged>>, Counted(todo', heap),
         buffer' \in Seq(Byte), sent' \in Seq(Byte)
  PROVE  Typed'
BY DEF Typed, BytesOK

\* Nothing goes out either.
LEMMA SameBytesTyped ==
  ASSUME Typed, UNCHANGED <<heap, buffer, sent, mark, damaged>>, Counted(todo', heap)
  PROVE  Typed'
BY DEF Typed, BytesOK

\* The frame on top, and those below it.
LEMMA TopTyped ==
  ASSUME Typed, NEW kind, TopIs(kind)
  PROVE  /\ todo # <<>> /\ Top.kind = kind
         /\ Plain(Top, heap) /\ OnTop(Top) /\ AllWait(Below, heap)
         /\ kind \in {"item", "hash", "encode"} => Top.value \in Values
         /\ kind \in {"array", "hash"} => Top.obj \in Object /\ heap[Top.obj][1] = kind
<1>1. todo # <<>> /\ Top.kind = kind
  BY DEF TopIs
<1>2. Plain(Top, heap) /\ OnTop(Top) /\ AllWait(Below, heap)
  BY <1>1, TopCounted DEF Typed, Top, Below
<1> QED BY <1>1, <1>2 DEF Plain

\* A value on top is written.
LEMMA CompletesCounted ==
  ASSUME Typed, todo # <<>>, NEW v, Completes(v)
  PROVE  Counted(todo', heap)
<1>1. AllWait(Below, heap)
  BY TopCounted DEF Typed, Below
<1>2. CASE Below = <<>>
  <2>1. todo' = <<>>
    BY <1>2 DEF Completes
  <2> QED BY <2>1, NoneWait
<1>3. CASE Below # <<>>
  <2> DEFINE b == Last(Below)
             f == [b EXCEPT !.seen = Append(b.seen, v)]
  <2>1. todo' = Append(Front(Below), f)
    BY <1>3 DEF Completes
  <2>2. Plain(b, heap) /\ Waits(b) /\ AllWait(Front(Below), heap)
    BY <1>1, <1>3, LastWaits
  <2> HIDE DEF b
  <2>3. Plain(f, heap) /\ OnTop(f)
    BY <2>2, SeenCounted
  <2> HIDE DEF f
  <2> QED BY <2>1, <2>2, <2>3, PushCounted
<1> QED BY <1>2, <1>3

\* The frame on top gives way to a container, of which nothing is written yet.
LEMMA OpenedCounted ==
  ASSUME Typed, NEW kind \in Kinds, NEW o, NEW need \in Nat, NEW value,
         kind \in {"item", "hash", "encode"} => value \in Values,
         kind \in {"array", "hash"} => o \in Object /\ heap[o][1] = kind,
         kind # "header", kind \in {"item", "tag", "foreign", "encode"} => need = 1,
         todo # <<>>, todo' = Append(Below, Frame(kind, o, need, value))
  PROVE  Counted(todo', heap)
<1> DEFINE f == Frame(kind, o, need, value)
<1>1. AllWait(Below, heap)
  BY TopCounted DEF Typed, Below
<1>2. Plain(f, heap) /\ OnTop(f)
  BY FrameCounted
<1> HIDE DEF f
<1>3. Counted(Append(Below, f), heap)
  BY <1>1, <1>2, PushCounted
<1> QED BY <1>3 DEF f

\* The frame on top gives way to one that waits for a part of it.
LEMMA PartCounted ==
  ASSUME Typed, todo # <<>>, NEW f, Plain(f, heap), Waits(f), NEW v \in Values,
         todo' = Append(Append(Below, f), Item(v))
  PROVE  Counted(todo', heap)
<1> DEFINE s == Append(Below, f)
           g == Item(v)
<1>1. AllWait(Below, heap)
  BY TopCounted DEF Typed, Below
<1>2. AllWait(s, heap)
  BY <1>1, PushCounted
<1>3. Plain(g, heap) /\ OnTop(g)
  BY ItemCounted
<1>4. todo' = Append(s, g)
  OBVIOUS
<1> HIDE DEF s, g
<1> QED BY <1>2, <1>3, <1>4, PushCounted

\* An exception leaves the header that was written from outside, if any.
LEMMA UnwindsTyped ==
  ASSUME Typed, todo # <<>>, NEW bytes \in Seq(Byte), NEW n \in 0 .. Len(bytes), Unwinds(bytes, n)
  PROVE  Typed'
<1> DEFINE first == todo[1]
           a == SubSeq(bytes, 1, n)
           rest == SubSeq(bytes, n + 1, Len(bytes))
<1>1. a \in Seq(Byte) /\ rest \in Seq(Byte)
  BY CutOf
<1>2. /\ heap' = heap /\ mark' = mark /\ sent' = sent \o a
      /\ buffer' = (IF first.kind = "encode" THEN <<>> ELSE rest)
      /\ todo' = <<>> \/ (todo' = <<first>> /\ first.kind = "header")
  BY DEF Unwinds
<1>3. damaged' \in BOOLEAN
  BY DEF Unwinds, Typed, BytesOK
<1> HIDE DEF a, rest
<1>4. sent' \in Seq(Byte)
  <2>1. sent \in Seq(Byte)
    BY DEF Typed, BytesOK
  <2>2. sent \o a \in Seq(Byte)
    BY ONLY <1>1, <2>1, Joined
  <2> QED BY <1>2, <2>2
<1>5. buffer' \in Seq(Byte)
  BY <1>1, <1>2, EmptySeq
<1>6. Plain(first, heap) /\ (OnTop(first) \/ Waits(first))
  <2> DEFINE m == Len(todo)
  <2>1. m \in Nat /\ m > 0
    BY LengthOf DEF Typed, Counted
  <2> HIDE DEF m
  <2>2. 1 \in 1 .. m /\ (1 = m \/ 1 < m)
    BY ONLY <2>1
  <2>3. Plain(first, heap) /\ (1 = m => OnTop(first)) /\ (1 < m => Waits(first))
    BY <2>2 DEF Typed, Counted, m
  <2> QED BY <2>2, <2>3
<1>7. Counted(todo', heap)
  <2>1. CASE todo' = <<>>
    BY <2>1, NoneWait
  <2>2. CASE todo' = <<first>> /\ first.kind = "header"
    <3>1. Plain(first, heap) /\ OnTop(first)
      BY <1>6, <2>2, LengthOf DEF OnTop, Waits, Plain
    <3> HIDE DEF first
    <3>2. <<first>> = Append(<<>>, first)
      OBVIOUS
    <3>3. Counted(Append(<<>>, first), heap)
      BY <3>1, NoneWait, PushCounted
    <3> QED BY <2>2, <3>2, <3>3
  <2> QED BY <1>2, <2>1, <2>2
<1> QED BY <1>2, <1>3, <1>4, <1>5, <1>7 DEF Typed, BytesOK

\* A value without elements, and what stands before a tagged one.
LEMMA LeafTyped ==
  ASSUME Typed, WriteLeaf \/ WriteTagged
  PROVE  Typed'
<1> DEFINE v == Top.value
<1>1. /\ todo # <<>> /\ v \in Values /\ UNCHANGED <<heap, mark, damaged>> /\ BytesOK
      /\ Plain(Top, heap) /\ TopIs("item")
  BY TopTyped DEF WriteLeaf, WriteTagged, Typed
<1>2. CASE WriteLeaf
  <2> DEFINE bytes == LeafBytes(v)
  <2>1. bytes \in Seq(Byte)
    BY <1>1, <1>2, LeafType DEF WriteLeaf
  <2>2. Emits(bytes) /\ Completes(LeafMeaning(v))
    BY <1>2 DEF WriteLeaf
  <2> HIDE DEF bytes
  <2> QED BY <1>1, <2>1, <2>2, EmitsBytes, CompletesCounted, SameHeapTyped
<1>3. CASE WriteTagged
  <2> DEFINE f == Frame("tag", Nil, 1, v)
             bytes == WriteHead(TagType, Number(v[2]))
             u == v[3]
  <2>1. v[1] = "tagged" /\ Emits(bytes) /\ todo' = Append(Append(Below, f), Item(u))
    BY <1>3 DEF WriteTagged
  <2>2. v[2] \in Lengths /\ u \in Values
    BY <1>1, <2>1, ValueAssumption
  <2>3. bytes \in Seq(Byte)
    BY <2>2, CountType, Zenon
  <2>4. "tag" \in Kinds /\ 1 \in Nat /\ 1 > 0
    BY DEF Kinds
  <2>5. Plain(f, heap) /\ Waits(f)
    BY <2>4, FrameCounted
  <2> HIDE DEF f, bytes, u, v
  <2>6. Counted(todo', heap)
    BY <1>1, <2>1, <2>2, <2>5, PartCounted
  <2> QED BY <1>1, <2>1, <2>3, <2>6, EmitsBytes, SameHeapTyped
<1> QED BY <1>2, <1>3

\* The objects live in an array or a hash are no more than a length.
LEMMA SizeType ==
  ASSUME Inv, Typed, NEW o \in Object
  PROVE  Len(Contents(o)) \in Lengths /\ Size(o) \in Lengths
<1> DEFINE c == Contents(o)
           L == LiveAfter(o, 0)
           n == Len(c)
<1>1. c = Contained(heap, o)
  BY DEF Contents, Contained
<1>2. IsSeq(c) /\ n \in Lengths
  BY <1>1 DEF Inv, HeapOK, Typed, StoreOK
<1>3. n \in Nat /\ DOMAIN c = 1 .. n
  BY <1>2, LengthOf
<1>4. L \subseteq 1 .. n
  BY <1>3 DEF LiveAfter
<1> HIDE DEF n, L, c
<1>5. IsFiniteSet(1 .. n) /\ Cardinality(1 .. n) = n
  BY <1>3, FS_Interval
<1>6. IsFiniteSet(L) /\ Cardinality(L) <= n /\ Cardinality(L) \in Nat
  BY <1>4, <1>5, FS_Subset, FS_CardinalityType
<1>7. Cardinality(L) \in Lengths
  BY <1>2, <1>3, <1>6 DEF Lengths
<1> QED BY <1>2, <1>7 DEF Size, L, n, c

\* An array or a hash begins with its header.
LEMMA OpensTyped ==
  ASSUME Inv, Typed, WriteArray \/ WriteHash
  PROVE  Typed'
<1> DEFINE o == Top.value[2]
<1>1. todo # <<>> /\ UNCHANGED <<heap, mark, damaged>> /\ BytesOK
  BY TopTyped DEF WriteArray, WriteHash, Typed
<1>2. CASE WriteArray
  <2> DEFINE n == Len(Contents(o))
             bytes == WriteHead(ArrayType, Number(n))
  <2>1. /\ o \in Object /\ heap[o][1] = "array" /\ Emits(bytes)
        /\ todo' = Append(Below, Frame("array", o, n, Nil))
    BY <1>2 DEF WriteArray, IsObject
  <2>2. n \in Lengths
    BY <2>1, SizeType
  <2> HIDE DEF n, o
  <2>3. bytes \in Seq(Byte)
    BY <2>2, CountType, Zenon
  <2> HIDE DEF bytes
  <2>4. "array" \in Kinds /\ n \in Nat
    BY <2>2 DEF Kinds, Lengths
  <2>5. Counted(todo', heap)
    BY <1>1, <2>1, <2>4, OpenedCounted
  <2> QED BY <1>1, <2>1, <2>3, <2>5, EmitsBytes, SameHeapTyped
<1>3. CASE WriteHash
  <2> DEFINE n == Size(o)
             bytes == WriteHead(MapType, Number(n))
  <2>1. /\ o \in Object /\ heap[o][1] = "hash" /\ Emits(bytes)
        /\ todo' = Append(Below, Frame("hash", o, n, Nil))
    BY <1>3 DEF WriteHash, IsObject
  <2>2. n \in Lengths
    BY <2>1, SizeType
  <2> HIDE DEF n, o
  <2>3. bytes \in Seq(Byte)
    BY <2>2, CountType, Zenon
  <2> HIDE DEF bytes
  <2>4. "hash" \in Kinds /\ n \in Nat /\ Nil \in Values
    BY <2>2, ValueAssumption DEF Kinds, Lengths
  <2>5. Counted(todo', heap)
    BY <1>1, <2>1, <2>4, OpenedCounted
  <2> QED BY <1>1, <2>1, <2>3, <2>5, EmitsBytes, SameHeapTyped
<1> QED BY <1>2, <1>3

\* The next element of an array, or nil.
LEMMA ElementTyped ==
  ASSUME Typed, NextElement
  PROVE  Typed'
<1> DEFINE c == Contents(Top.obj)
           next == Top.i + 1
           v == IF next <= Len(c) THEN c[next] ELSE Nil
           f == [Top EXCEPT !.i = next]
<1>1. /\ TopIs("array") /\ Top.i < Top.need /\ UNCHANGED <<heap, buffer, sent, mark, damaged>>
      /\ todo' = Append(Append(Below, f), Item(v))
  BY DEF NextElement, More
<1>2. /\ todo # <<>> /\ Plain(Top, heap) /\ OnTop(Top) /\ Top.kind = "array"
      /\ Top.obj \in Object /\ heap[Top.obj][1] = "array"
  BY <1>1, TopTyped
<1>3. c = Contained(heap, Top.obj)
  BY DEF Contents, Contained
<1>4. v \in Values
  <2> DEFINE n == Len(c)
  <2>1. n \in Nat /\ \A k \in 1 .. n : c[k] \in Values
    BY <1>2, <1>3 DEF Typed, StoreOK, Lengths
  <2>2. next \in Nat /\ next >= 1
    BY <1>2 DEF Plain
  <2>3. Nil \in Values
    BY ValueAssumption
  <2> HIDE DEF next, n
  <2>4. next <= n => next \in 1 .. n
    BY <2>1, <2>2
  <2> QED BY <2>1, <2>3, <2>4 DEF n
<1>5. Plain(f, heap) /\ Waits(f)
  <2>1. /\ Top.i \in Nat /\ Top.need \in Nat /\ next \in Nat /\ next <= Top.need
        /\ Len(Top.seen) = next - 1 /\ Len(Top.seen) < Top.need
    BY <1>1, <1>2 DEF Plain, OnTop
  <2> HIDE DEF next
  <2>2. /\ f.kind = Top.kind /\ f.obj = Top.obj /\ f.need = Top.need /\ f.i = next
        /\ f.value = Top.value /\ f.seen = Top.seen /\ f.at = Top.at
        /\ f = [kind |-> Top.kind, obj |-> Top.obj, need |-> Top.need, i |-> next, at |-> Top.at,
               value |-> Top.value, seen |-> Top.seen]
    BY <1>2 DEF Plain
  <2> HIDE DEF f
  <2>3. Plain(f, heap)
    BY <1>2, <2>1, <2>2 DEF Plain
  <2> QED BY <1>2, <2>1, <2>2, <2>3 DEF Waits
<1> HIDE DEF f, v
<1>6. Counted(todo', heap)
  BY <1>1, <1>2, <1>4, <1>5, PartCounted
<1> QED BY <1>1, <1>6, SameBytesTyped

\* The next entry of a hash.
LEMMA EntryTyped ==
  ASSUME Inv, Typed, NextEntry
  PROVE  Typed'
<1> DEFINE c == Contents(Top.obj)
           L == LiveAfter(Top.obj, Top.at)
           at == Min(L)
           key == c[at][1]
           value == c[at][2]
           f == Advanced(Top, at, value)
<1>1. /\ TopIs("hash") /\ L # {} /\ UNCHANGED <<heap, buffer, sent, mark, damaged>>
      /\ todo' = Append(Append(Below, f), Item(key)) /\ Len(Top.seen) = 2 * Top.i
  BY Zenon DEF NextEntry, Advanced
<1>2. /\ todo # <<>> /\ Plain(Top, heap) /\ Top.kind = "hash"
      /\ Top.obj \in Object /\ heap[Top.obj][1] = "hash"
  BY <1>1, TopTyped
<1>3. c = Contained(heap, Top.obj) /\ IsSeq(c)
  BY <1>2 DEF Contents, Contained, Inv, HeapOK
<1>4. at \in 1 .. Len(c) /\ c[at] # Gone
  <2>1. L \subseteq DOMAIN c /\ \A k \in L : c[k] # Gone
    BY DEF LiveAfter
  <2>2. DOMAIN c = 1 .. Len(c) /\ DOMAIN c \subseteq Nat
    BY <1>3, LengthOf
  <2> HIDE DEF L
  <2>3. Min(L) \in L
    BY <1>1, <2>1, <2>2, MinOfNaturals
  <2> QED BY <2>1, <2>2, <2>3
<1> HIDE DEF at
<1>5. key \in Values /\ value \in Values /\ at \in Nat
  BY <1>2, <1>3, <1>4 DEF Typed, StoreOK
<1> HIDE DEF key, value
<1>6. Plain(f, heap) /\ Waits(f)
  <2> DEFINE f1 == [Top EXCEPT !.i = Top.i + 1]
             f2 == [f1 EXCEPT !.at = at]
             f3 == [f2 EXCEPT !.value = value]
  <2>1. f = f3
    BY DEF Advanced
  <2>2. Plain(f1, heap) /\ f1.kind = "hash" /\ f1.i = Top.i + 1 /\ f1.seen = Top.seen
    BY <1>2 DEF Plain
  <2> HIDE DEF f1
  <2>3. Plain(f2, heap) /\ f2.kind = "hash" /\ f2.i = Top.i + 1 /\ f2.seen = Top.seen
    BY <2>2 DEF Plain
  <2> HIDE DEF f2
  <2>4. Plain(f3, heap) /\ f3.kind = "hash" /\ f3.i = Top.i + 1 /\ f3.seen = Top.seen
    BY <1>5, <2>3 DEF Plain
  <2> HIDE DEF f3, f
  <2>5. Top.i \in Nat
    BY <1>2 DEF Plain
  <2>6. Len(f3.seen) = 2 * f3.i - 2
    BY <1>1, <2>4, <2>5
  <2> QED BY <2>1, <2>4, <2>6 DEF Waits
<1> HIDE DEF f
<1>7. Counted(todo', heap)
  BY <1>1, <1>2, <1>5, <1>6, PartCounted
<1> QED BY <1>1, <1>7, SameBytesTyped

\* The value of the entry follows its key.
LEMMA ValueTyped ==
  ASSUME Typed, NextValue
  PROVE  Typed'
<1> DEFINE g == Item(Top.value)
<1>1. /\ TopIs("hash") /\ UNCHANGED <<heap, buffer, sent, mark, damaged>> /\ todo' = Append(todo, g)
      /\ Len(Top.seen) = 2 * Top.i - 1
  BY DEF NextValue
<1>2. todo # <<>> /\ Top.kind = "hash" /\ Top.value \in Values
  BY <1>1, TopTyped
<1>3. Waits(Top)
  BY <1>1, <1>2 DEF Waits
<1>4. AllWait(todo, heap)
  BY <1>3, TopWaits DEF Typed, Top
<1>5. Plain(g, heap) /\ OnTop(g)
  BY <1>2, ItemCounted
<1> HIDE DEF g
<1>6. Counted(todo', heap)
  BY <1>1, <1>4, <1>5, PushCounted
<1> QED BY <1>1, <1>6, SameBytesTyped

\* A to_cbor is called.
LEMMA ForeignTyped ==
  ASSUME Typed, WriteForeign
  PROVE  Typed'
<1>1. /\ TopIs("item") /\ UNCHANGED <<heap, buffer, sent, mark, damaged>>
      /\ todo' = Append(Below, Frame("foreign", Nil, 1, Nil))
  BY DEF WriteForeign
<1>2. todo # <<>>
  BY <1>1 DEF TopIs
<1>3. "foreign" \in Kinds /\ 1 \in Nat
  BY DEF Kinds
<1>4. Counted(todo', heap)
  BY <1>1, <1>2, <1>3, OpenedCounted
<1> QED BY <1>1, <1>4, SameBytesTyped

\* A container ends.
LEMMA EndsTyped ==
  ASSUME Typed, \/ TagEnds \/ ArrayEnds \/ HashEnds \/ ForeignReturns \/ HeaderEnds
  PROVE  Typed'
<1>1. UNCHANGED <<heap, buffer, sent, mark, damaged>> /\ todo # <<>> /\ \E v : Completes(v)
  BY DEF TagEnds, ArrayEnds, HashEnds, ForeignReturns, HeaderEnds, TopIs
<1>2. Counted(todo', heap)
  BY <1>1, CompletesCounted
<1> QED BY <1>1, <1>2, SameBytesTyped

\* An exception: nothing that is in the buffer goes out, or some of it.
LEMMA RaisesTyped ==
  ASSUME Inv, Typed, Refuses \/ IoRaises \/ CallbackRaises
  PROVE  Typed'
<1>1. buffer \in Seq(Byte)
  BY DEF Typed, BytesOK
<1>2. CASE Refuses \/ CallbackRaises
  <2>1. todo # <<>> /\ Unwinds(buffer, 0)
    BY <1>2, InCallbackIs DEF Refuses, CallbackRaises, TopIs
  <2>2. 0 \in 0 .. Len(buffer)
    BY <1>1, LenProperties
  <2> QED BY <1>1, <2>1, <2>2, UnwindsTyped
<1>3. CASE IoRaises
  <2> DEFINE v == Top.value
  <2>1. /\ TopIs("item") \/ TopIs("encode")
        /\ v[1] \in Leaves \cup {"tagged", "ref"}
    BY <1>3 DEF IoRaises
  <2>2. todo # <<>>
    BY <2>1 DEF TopIs
  <2>3. PICK begun \in Begun(v) :
          LET bytes == buffer \o begun
          IN \E n \in {0, Len(bytes) \div 2} : Unwinds(bytes, n)
    BY <1>3, Zenon DEF IoRaises
  <2> DEFINE bytes == buffer \o begun
  <2>4. begun \in Seq(Byte)
    <3>1. v \in Values
      BY <2>1, TopTyped
    <3> HIDE DEF v
    <3> QED BY <2>1, <2>3, <3>1, BegunType
  <2>5. bytes \in Seq(Byte)
    BY ONLY <1>1, <2>4, Joined
  <2>6. PICK n \in {0, Len(bytes) \div 2} : Unwinds(bytes, n)
    BY <2>3
  <2> HIDE DEF bytes
  <2>7. Len(bytes) \in Nat
    BY <2>5, LenProperties
  <2> DEFINE l == Len(bytes)
  <2>8. n \in 0 .. l
    <3> HIDE DEF l
    <3>1. l \in Nat /\ n \in {0, l \div 2}
      BY <2>7 DEF l
    <3> QED BY ONLY <3>1
  <2> QED BY <2>2, <2>5, <2>6, <2>8, UnwindsTyped
<1> QED BY <1>2, <1>3

-----------------------------------------------------------------------------
(* The calls *)

\* Where Ruby code writes the next value, all frames have room for it.
LEMMA RubyWaits ==
  ASSUME Typed, RubyRuns
  PROVE  AllWait(todo, heap)
<1>1. CASE todo = <<>>
  BY <1>1, NoneWait
<1>2. CASE todo # <<>>
  <2>1. Top.kind \in {"header", "foreign"} /\ Len(Top.seen) # Top.need
    BY <1>2 DEF RubyRuns, Complete
  <2>2. Plain(Top, heap) /\ OnTop(Top)
    BY <1>2, TopCounted DEF Typed, Top
  <2>3. Len(Top.seen) \in Nat /\ Top.need \in Nat /\ Len(Top.seen) <= Top.need
    BY <2>1, <2>2, LengthOf DEF Plain, OnTop
  <2>4. Waits(Top)
    BY <2>1, <2>3 DEF Waits
  <2> QED BY <2>4, TopWaits DEF Typed, Top
<1> QED BY <1>1, <1>2

\* What is remembered of an outermost call.
LEMMA MarksType ==
  ASSUME Typed, Marks
  PROVE  mark' \in Nat
<1>1. Len(sent) \in Nat /\ Len(buffer) \in Nat /\ mark \in Nat
  BY LenProperties DEF Typed, BytesOK
<1> QED BY <1>1 DEF Marks, Total

\* CBOR::Packer#write and CBOR.encode.
LEMMA WriteTyped ==
  ASSUME Typed, NEW v \in Arguments, Write(v) \/ Encode(v)
  PROVE  Typed'
<1> DEFINE g == Item(v)
<1>1. UNCHANGED <<heap, buffer, sent, damaged>> /\ mark' \in Nat
  BY MarksType DEF Write, Encode
<1>2. v \in Values
  BY ValueAssumption
<1>3. Plain(g, heap) /\ OnTop(g)
  BY <1>2, ItemCounted
<1>4. Counted(todo', heap)
  <2>1. CASE Write(v)
    <3>1. todo' = Append(todo, g) /\ AllWait(todo, heap)
      BY <2>1, RubyWaits DEF Write
    <3> HIDE DEF g
    <3> QED BY <1>3, <3>1, PushCounted
  <2>2. CASE Encode(v)
    <3> DEFINE f == Frame("encode", Nil, 1, Nil)
               s == Append(<<>>, f)
    <3>1. todo' = <<f, g>>
      BY <2>2 DEF Encode
    <3>2. "encode" \in Kinds /\ 1 \in Nat /\ 1 > 0 /\ Nil \in Values
      BY ValueAssumption DEF Kinds
    <3>3. Plain(f, heap) /\ Waits(f)
      BY <3>2, FrameCounted
    <3> HIDE DEF f, g
    <3>4. AllWait(s, heap)
      BY <3>3, NoneWait, PushCounted
    <3>5. <<f, g>> = Append(s, g)
      OBVIOUS
    <3> HIDE DEF s
    <3> QED BY <1>3, <3>1, <3>4, <3>5, PushCounted
  <2> QED BY <2>1, <2>2
<1> QED BY <1>1, <1>4 DEF Typed, BytesOK

\* write_array_header and write_map_header.
LEMMA HeaderTyped ==
  ASSUME Typed, NEW header \in Headers, WriteHeader(header[1], header[2])
  PROVE  Typed'
<1> DEFINE type == header[1]
           n == header[2]
           bytes == WriteHead(type, Number(n))
           need == IF type = MapType THEN 2 * n ELSE n
<1>1. type \in {ArrayType, MapType} /\ n \in Lengths
  BY LengthAssumption
<1>2. PICK o : /\ RubyRuns /\ Emits(bytes) /\ Marks /\ UNCHANGED <<heap, damaged>>
               /\ todo' = Append(todo, Frame("header", o, need, type))
  BY Zenon DEF WriteHeader
<1> HIDE DEF type, n
<1>3. bytes \in Seq(Byte)
  <2>1. type \in {ArrayType, MapType, TagType}
    BY <1>1
  <2> QED BY <1>1, <2>1, CountType, Zenon
<1>4. need \in Nat /\ "header" \in Kinds
  BY <1>1 DEF Lengths, Kinds
<1> HIDE DEF bytes, need
<1> DEFINE f == Frame("header", o, need, type)
<1>5. Plain(f, heap) /\ OnTop(f)
  BY <1>1, <1>4, FrameCounted
<1> HIDE DEF f
<1>6. AllWait(todo, heap) /\ todo' = Append(todo, f)
  BY <1>2, RubyWaits DEF f
<1>7. Counted(todo', heap)
  BY <1>5, <1>6, PushCounted
<1>8. buffer' \in Seq(Byte) /\ sent' \in Seq(Byte) /\ mark' \in Nat
  BY <1>2, <1>3, EmitsBytes, MarksType DEF Typed
<1> QED BY <1>2, <1>7, <1>8 DEF Typed, BytesOK

\* flush, clear, and the return of encode.
LEMMA EmptiesTyped ==
  ASSUME Typed, Flush \/ Clear \/ EncodeReturns
  PROVE  Typed'
<1>1. buffer \in Seq(Byte) /\ sent \in Seq(Byte) /\ mark \in Nat /\ damaged \in BOOLEAN
  BY DEF Typed, BytesOK
<1>2. sent \o buffer \in Seq(Byte) /\ <<>> \in Seq(Byte)
  <2>1. sent \o buffer \in Seq(Byte)
    BY ONLY <1>1, Joined
  <2> QED BY <2>1, EmptySeq
<1>3. heap' = heap /\ mark' = mark /\ buffer' = <<>>
  BY DEF Flush, Clear, EncodeReturns
<1>4. sent' = sent \o buffer \/ sent' = sent
  BY DEF Flush, Clear, EncodeReturns
<1>5. sent' \in Seq(Byte)
  BY <1>1, <1>2, <1>4, Zenon
<1>6. damaged' \in BOOLEAN
  BY <1>1 DEF Flush, Clear, EncodeReturns
<1>7. Counted(todo', heap)
  <2>1. CASE Flush
    BY <2>1 DEF Flush, Typed
  <2>2. CASE Clear
    BY <2>2, NoneWait DEF Clear
  <2>3. CASE EncodeReturns
    <3>1. todo # <<>> /\ Completes(Top.seen[1])
      BY <2>3 DEF EncodeReturns, TopIs
    <3> QED BY <3>1, CompletesCounted
  <2> QED BY <2>1, <2>2, <2>3
<1> QED BY <1>1, <1>2, <1>3, <1>5, <1>6, <1>7 DEF Typed, BytesOK

-----------------------------------------------------------------------------
(* What to_cbor does to the objects *)

\* an element of an array, or an entry of a hash that may be deleted
Holdable(kind, e) ==
  /\ kind = "array" => e \in Values
  /\ kind = "hash" => e = Gone \/ (e = <<e[1], e[2]>> /\ e[1] \in Values /\ e[2] \in Values)

\* What an object holds can be held.
LEMMA HeldIs ==
  ASSUME Inv, Typed, NEW o \in Object
  PROVE  LET c == Contents(o)
         IN /\ c = Contained(heap, o) /\ IsSeq(c) /\ Len(c) \in Nat /\ Len(c) \in Lengths
            /\ DOMAIN c = 1 .. Len(c)
            /\ \A k \in 1 .. Len(c) : Holdable(heap[o][1], c[k])
<1> DEFINE c == Contents(o)
<1>1. c = Contained(heap, o)
  BY DEF Contents, Contained
<1>2. /\ IsSeq(c) /\ Len(c) \in Lengths
      /\ heap[o][1] = "hash" => \A k \in 1 .. Len(c) : c[k] = Gone \/ c[k] = <<c[k][1], c[k][2]>>
  BY <1>1 DEF Inv, HeapOK, Typed, StoreOK
<1>3. \A k \in 1 .. Len(c) :
        /\ heap[o][1] = "array" => c[k] \in Values
        /\ heap[o][1] = "hash" /\ c[k] # Gone => c[k][1] \in Values /\ c[k][2] \in Values
  BY <1>1 DEF Typed, StoreOK
<1>4. Len(c) \in Nat /\ DOMAIN c = 1 .. Len(c)
  BY <1>2, LengthOf
<1> HIDE DEF c
<1>5. \A k \in 1 .. Len(c) : Holdable(heap[o][1], c[k])
  BY <1>2, <1>3 DEF Holdable
<1> QED BY <1>1, <1>2, <1>4, <1>5 DEF c

\* One object holds something else.
LEMMA HoldsTyped ==
  ASSUME Inv, Typed, NEW o \in Object, NEW list, IsSeq(list), Len(list) \in Lengths,
         \A k \in 1 .. Len(list) : Holdable(heap[o][1], list[k]),
         Holds(o, list), UNCHANGED <<buffer, sent, todo, mark>>, damaged' \in BOOLEAN
  PROVE  Typed'
<1> DEFINE h == heap'
<1>1. heap[o][1] = "hash" => \A k \in 1 .. Len(list) : list[k] = Gone \/ list[k] = <<list[k][1], list[k][2]>>
  BY DEF Holdable
<1>2. HeapOK(heap)
  BY DEF Inv
<1>3. /\ Contained(h, o) = list /\ \A x \in Object : h[x][1] = heap[x][1]
      /\ \A x \in Object : x # o => h[x] = heap[x]
  BY <1>1, <1>2, HoldsIs
<1> HIDE DEF h
<1>4. StoreOK(h)
  <2> SUFFICES ASSUME NEW x \in Object
               PROVE  /\ Len(Contained(h, x)) \in Lengths
                      /\ \A k \in 1 .. Len(Contained(h, x)) :
                           LET e == Contained(h, x)[k]
                           IN /\ h[x][1] = "array" => e \in Values
                              /\ h[x][1] = "hash" /\ e # Gone => e[1] \in Values /\ e[2] \in Values
    BY DEF StoreOK
  <2>1. CASE x = o
    BY <1>3, <2>1 DEF Holdable
  <2>2. CASE x # o
    <3>1. Contained(h, x) = Contained(heap, x) /\ h[x][1] = heap[x][1]
      BY <1>3, <2>2 DEF Contained
    <3> QED BY <3>1 DEF Typed, StoreOK
  <2> QED BY <2>1, <2>2
<1>5. \A f : Plain(f, heap) => Plain(f, h)
  BY <1>3 DEF Plain
<1>6. Counted(todo, h)
  BY <1>5 DEF Typed, Counted
<1> QED BY <1>4, <1>6 DEF Typed, BytesOK, h

\* An array gets shorter or longer.
LEMMA ArrayChangesTyped ==
  ASSUME Inv, Typed, NEW o \in Object, ArrayChanges(o)
  PROVE  Typed'
<1> DEFINE c == Contents(o)
<1>1. /\ heap[o][1] = "array" /\ UNCHANGED <<buffer, sent, todo, mark, damaged>>
      /\ \/ c # <<>> /\ Holds(o, Front(c))
         \/ Len(c) < MaxSize /\ Holds(o, Append(c, Nil))
  BY DEF ArrayChanges
<1>2. /\ IsSeq(c) /\ Len(c) \in Nat /\ Len(c) \in Lengths
      /\ \A k \in 1 .. Len(c) : Holdable("array", c[k])
  BY <1>1, HeldIs
<1>3. damaged' \in BOOLEAN
  BY <1>1 DEF Typed, BytesOK
<1> HIDE DEF c
<1> DEFINE n == Len(c)
<1>4. CASE c # <<>> /\ Holds(o, Front(c))
  <2> DEFINE list == Front(c)
  <2>1. IsSeq(list) /\ Len(list) = n - 1 /\ \A k \in 1 .. n - 1 : list[k] = c[k]
    BY <1>2, <1>4, FrontOf
  <2>2. n > 0
    BY <1>2, <1>4, LengthOf
  <2> HIDE DEF list
  <2>3. Len(list) \in Lengths
    BY <1>2, <2>1, <2>2 DEF Lengths
  <2>4. \A k \in 1 .. Len(list) : Holdable("array", list[k])
    BY <1>2, <2>1
  <2> QED BY <1>1, <1>3, <1>4, <2>1, <2>3, <2>4, HoldsTyped DEF list
<1>5. CASE Len(c) < MaxSize /\ Holds(o, Append(c, Nil))
  <2> DEFINE list == Append(c, Nil)
  <2>1. IsSeq(list) /\ Len(list) = n + 1 /\ list[n + 1] = Nil /\ \A k \in 1 .. n : list[k] = c[k]
    BY <1>2, AppendOf
  <2> HIDE DEF list
  <2>2. Len(list) \in Lengths
    BY <1>2, <1>5, <2>1, LengthAssumption DEF Lengths
  <2>3. Holdable("array", Nil)
    BY ValueAssumption DEF Holdable
  <2>4. \A k \in 1 .. Len(list) : k \in 1 .. n \/ k = n + 1
    BY <1>2, <2>1
  <2>5. \A k \in 1 .. Len(list) : Holdable("array", list[k])
    BY <1>2, <2>1, <2>3, <2>4
  <2> QED BY <1>1, <1>3, <1>5, <2>1, <2>2, <2>5, HoldsTyped DEF list
<1> QED BY <1>1, <1>4, <1>5

\* A hash loses an entry, gets another value for a key, or a new key.
LEMMA HashChangesTyped ==
  ASSUME Inv, Typed, NEW o \in Object, HashChanges(o)
  PROVE  Typed'
<1> DEFINE c == Contents(o)
           n == Len(c)
<1>1. /\ heap[o][1] = "hash" /\ UNCHANGED <<buffer, sent, todo, mark>>
      /\ \/ \E k \in LiveAfter(o, 0) :
              /\ Holds(o, [c EXCEPT ![k] = Gone])
              /\ damaged' = (damaged \/ \E j \in Iterating(o) : todo[j].at < k)
         \/ \E k \in LiveAfter(o, 0) :
              Holds(o, [c EXCEPT ![k][2] = Nil]) /\ UNCHANGED damaged
         \/ Len(c) < MaxSize /\ Holds(o, Append(c, <<NewKey, Nil>>)) /\ UNCHANGED damaged
  BY Zenon DEF HashChanges
<1>2. /\ IsSeq(c) /\ Len(c) \in Nat /\ Len(c) \in Lengths /\ DOMAIN c = 1 .. Len(c)
      /\ \A k \in 1 .. Len(c) : Holdable("hash", c[k])
  BY <1>1, HeldIs
<1>3. damaged \in BOOLEAN
  BY DEF Typed, BytesOK
<1>4. LiveAfter(o, 0) = {k \in DOMAIN c : k > 0 /\ c[k] # Gone}
  BY DEF LiveAfter
<1>5. Nil \in Values /\ NewKey \in Values
  BY ValueAssumption
<1> HIDE DEF c
<1>6. ASSUME NEW k \in 1 .. n, NEW e, Holdable("hash", e), Holds(o, [c EXCEPT ![k] = e]),
             damaged' \in BOOLEAN
      PROVE  Typed'
  <2> DEFINE list == [c EXCEPT ![k] = e]
  <2>1. /\ IsSeq(list) /\ Len(list) = n /\ list[k] = e
        /\ \A i \in 1 .. n : i # k => list[i] = c[i]
    BY <1>2, ElementReplaced
  <2>2. Holds(o, list)
    BY <1>6
  <2> HIDE DEF list
  <2>3. \A i \in 1 .. Len(list) : Holdable("hash", list[i])
    BY <1>2, <1>6, <2>1
  <2> QED BY <1>1, <1>2, <1>6, <2>1, <2>2, <2>3, HoldsTyped
<1>7. ASSUME NEW k \in LiveAfter(o, 0), Holds(o, [c EXCEPT ![k] = Gone]),
             damaged' = (damaged \/ \E j \in Iterating(o) : todo[j].at < k)
      PROVE  Typed'
  <2>1. k \in 1 .. n
    BY <1>2, <1>4
  <2>2. Holdable("hash", Gone)
    BY DEF Holdable
  <2>3. damaged' \in BOOLEAN
    BY <1>3, <1>7
  <2> QED BY <1>6, <1>7, <2>1, <2>2, <2>3
<1>8. ASSUME NEW k \in LiveAfter(o, 0), Holds(o, [c EXCEPT ![k][2] = Nil]), UNCHANGED damaged
      PROVE  Typed'
  <2> DEFINE e == <<c[k][1], Nil>>
  <2>1. k \in 1 .. n /\ c[k] # Gone
    BY <1>2, <1>4
  <2>2. c[k] = <<c[k][1], c[k][2]>> /\ c[k][1] \in Values
    BY <1>2, <2>1 DEF Holdable
  <2>3. [c[k] EXCEPT ![2] = Nil] = e
    BY <2>2
  <2>4. Holds(o, [c EXCEPT ![k] = e])
    BY <1>8, <2>3
  <2>5. Holdable("hash", e)
    BY <1>5, <2>2 DEF Holdable
  <2> HIDE DEF e
  <2> QED BY <1>3, <1>6, <1>8, <2>1, <2>4, <2>5
<1>9. CASE Len(c) < MaxSize /\ Holds(o, Append(c, <<NewKey, Nil>>)) /\ UNCHANGED damaged
  <2> DEFINE e == <<NewKey, Nil>>
             list == Append(c, e)
  <2>1. IsSeq(list) /\ Len(list) = n + 1 /\ list[n + 1] = e /\ \A k \in 1 .. n : list[k] = c[k]
    BY <1>2, AppendOf
  <2>2. Holdable("hash", e)
    BY <1>5 DEF Holdable
  <2>3. Holds(o, list)
    BY <1>9
  <2> HIDE DEF list, e
  <2>4. Len(list) \in Lengths
    BY <1>2, <1>9, <2>1, LengthAssumption DEF Lengths
  <2>5. \A k \in 1 .. Len(list) : k \in 1 .. n \/ k = n + 1
    BY <1>2, <2>1
  <2>6. \A k \in 1 .. Len(list) : Holdable("hash", list[k])
    BY <1>2, <2>1, <2>2, <2>5
  <2> QED BY <1>1, <1>3, <1>9, <2>1, <2>3, <2>4, <2>6, HoldsTyped
<1> QED BY <1>1, <1>7, <1>8, <1>9

-----------------------------------------------------------------------------
(* Bytes, and no more elements than were announced *)

\* A new packer.
LEMMA InitTyped == Init => Typed
<1> SUFFICES ASSUME Init PROVE Typed
  OBVIOUS
<1>1. heap \in Heaps /\ todo = <<>> /\ buffer = <<>> /\ sent = <<>> /\ mark = 0 /\ damaged = FALSE
  BY DEF Init
<1>2. BytesOK /\ Counted(todo, heap)
  BY <1>1, EmptySeq, NoneWait DEF BytesOK
<1>3. ASSUME NEW o \in Object
      PROVE  /\ Len(Contained(heap, o)) \in Lengths
             /\ \A k \in 1 .. Len(Contained(heap, o)) :
                  LET e == Contained(heap, o)[k]
                  IN /\ heap[o][1] = "array" => e \in Values
                     /\ heap[o][1] = "hash" /\ e # Gone => e[1] \in Values /\ e[2] \in Values
  <2> DEFINE c == heap[o][2]
  <2>1. c \in Seq(Range(c))
    BY <1>1, HeapsAssumption
  <2>2. Len(c) \in Lengths
    BY <1>1, LengthAssumption
  <2>3. \A e \in Range(c) : IF heap[o][1] = "hash" THEN {e[1], e[2]} \subseteq Values ELSE e \in Values
    BY <1>1, ValueAssumption
  <2>4. c = Contained(heap, o)
    BY DEF Contained
  <2> HIDE DEF c
  <2>5. \A k \in 1 .. Len(c) : c[k] \in Range(c)
    BY <2>1, ElementOfSeq
  <2> QED BY <2>2, <2>3, <2>4, <2>5
<1>4. StoreOK(heap)
  BY <1>3 DEF StoreOK
<1> QED BY <1>2, <1>4 DEF Typed

\* Every step keeps the types.
LEMMA NextTyped == TypeInv /\ [Next]_vars => TypeInv'
<1> SUFFICES ASSUME TypeInv, [Next]_vars PROVE TypeInv'
  OBVIOUS
<1>1. Inv /\ Typed
  BY DEF TypeInv
<1>2. Inv'
  BY <1>1, NextInv
<1>3. Next => Typed'
  <2>1. WriteLeaf \/ WriteTagged => Typed'
    BY <1>1, LeafTyped
  <2>2. WriteArray \/ WriteHash => Typed'
    BY <1>1, OpensTyped
  <2>3. NextElement \/ NextEntry \/ NextValue => Typed'
    BY <1>1, ElementTyped, EntryTyped, ValueTyped
  <2>4. WriteForeign => Typed'
    BY <1>1, ForeignTyped
  <2>5. TagEnds \/ ArrayEnds \/ HashEnds \/ ForeignReturns \/ HeaderEnds => Typed'
    BY <1>1, EndsTyped
  <2>6. Refuses \/ IoRaises \/ CallbackRaises => Typed'
    BY <1>1, RaisesTyped
  <2>7. (\E v \in Arguments : Write(v) \/ Encode(v)) => Typed'
    BY <1>1, WriteTyped
  <2>8. (\E header \in Headers : WriteHeader(header[1], header[2])) => Typed'
    BY <1>1, HeaderTyped
  <2>9. Flush \/ Clear \/ EncodeReturns => Typed'
    BY <1>1, EmptiesTyped
  <2>10. (\E o \in Object : ArrayChanges(o) \/ HashChanges(o)) => Typed'
    BY <1>1, ArrayChangesTyped, HashChangesTyped
  <2> QED BY <2>1, <2>2, <2>3, <2>4, <2>5, <2>6, <2>7, <2>8, <2>9, <2>10, Zenon DEF Next
<1>4. UNCHANGED vars => Typed'
  BY <1>1 DEF vars, Typed, BytesOK
<1> QED BY <1>2, <1>3, <1>4, Zenon DEF TypeInv

\* The packer writes nothing but bytes, whatever it is given, in whatever order
\* its methods are called, and whichever of them raise; and no array, tag or
\* header that is under way has more elements than it says.
THEOREM BytesAndCounts == Spec => []TypeOK
<1>1. TypeInv => TypeOK
  <2> SUFFICES ASSUME TypeInv PROVE TypeOK
    OBVIOUS
  <2>1. DOMAIN heap = Object
    BY DEF TypeInv, Inv, HeapOK
  <2>2. DOMAIN todo = 1 .. Len(todo)
    BY LengthOf DEF TypeInv, Typed, Counted
  <2>3. ASSUME NEW k \in 1 .. Len(todo)
        PROVE  todo[k].kind \in Kinds /\ (todo[k].kind # "hash" => Len(todo[k].seen) <= todo[k].need)
    <3> DEFINE f == todo[k]
               m == Len(todo)
    <3>1. Plain(f, heap) /\ (OnTop(f) \/ Waits(f))
      <4>1. m \in Nat
        BY LengthOf DEF TypeInv, Typed, Counted
      <4>2. k = m \/ k < m
        BY <4>1
      <4> QED BY <4>2 DEF TypeInv, Typed, Counted
    <3> HIDE DEF f
    <3>2. Len(f.seen) \in Nat /\ f.need \in Nat /\ f.kind \in Kinds
      BY <3>1, LengthOf DEF Plain
    <3>3. f.kind # "hash" => Len(f.seen) <= f.need
      BY <3>1, <3>2 DEF OnTop, Waits
    <3> QED BY <3>2, <3>3 DEF f
  <2> QED BY <2>1, <2>2, <2>3, Zenon DEF TypeOK, TypeInv, Typed, BytesOK, Kinds
<1>2. Init => TypeInv
  BY InitInv, InitTyped DEF TypeInv
<1>3. TypeInv /\ [Next]_vars => TypeInv'
  BY NextTyped
<1> QED BY <1>1, <1>2, <1>3, PTL DEF Spec

-----------------------------------------------------------------------------
(* Strings of bytes that consist of items in their shortest form *)

\* The head at k is such a one, and the next one is in C or at the end.
FormAt(s, C, k) ==
  /\ Shortest(s[k], ArgAt(s, k))
  /\ k + ArgWidth(s[k]) <= Len(s)
  /\ NextHead(s, k) \in C \cup {Len(s) + 1}

\* C are positions of heads, one of which begins the string.
HeadsIn(s, C) ==
  /\ C \subseteq 1 .. Len(s) /\ (s # <<>> => 1 \in C)
  /\ \A k \in C : FormAt(s, C, k)

Good(s) == s \in Seq(Byte) /\ \E C \in SUBSET (1 .. Len(s)) : HeadsIn(s, C)

\* The bytes of one head, and of the string behind it.
Whole(x) ==
  /\ x \in Seq(Byte) /\ x # <<>> /\ 1 + ArgWidth(x[1]) <= Len(x)
  /\ Extent(x[1], ArgAt(x, 1)) = Len(x) /\ Shortest(x[1], ArgAt(x, 1))

\* No bytes.
LEMMA NothingGood == Good(<<>>)
<1>1. <<>> \in Seq(Byte) /\ Len(<<>>) = 0
  BY EmptySeq
<1>2. HeadsIn(<<>>, {})
  BY DEF HeadsIn
<1> QED BY <1>1, <1>2 DEF Good

\* One item more.
LEMMA GoodGrows ==
  ASSUME NEW s, NEW x, Good(s), Whole(x)
  PROVE  Good(s \o x)
<1> DEFINE r == s \o x
           n == Len(s)
<1>1. s \in Seq(Byte) /\ x \in Seq(Byte) /\ n \in Nat /\ Len(x) \in Nat
  BY LenProperties DEF Good, Whole
<1>2. r = s \o x
  OBVIOUS
<1> HIDE DEF r
<1>3. r \in Seq(Byte) /\ Len(r) = n + Len(x) /\ Len(x) >= 1
  <2>1. IsJoin(s, x, r)
    BY <1>1, <1>2, JoinedIs
  <2>2. Len(x) # 0
    BY EmptySeq DEF Whole
  <2> QED BY <1>1, <2>1, <2>2 DEF IsJoin
<1>4. PICK C \in SUBSET (1 .. n) : HeadsIn(s, C)
  BY DEF Good
<1> DEFINE D == C \cup {n + 1}
<1>5. ASSUME NEW k \in C PROVE FormAt(r, D, k)
  <2>1. FormAt(s, C, k) /\ k \in 1 .. n
    BY <1>4 DEF HeadsIn
  <2>2. SameAt(r, k, s, k)
    <3>1. k + ArgWidth(s[k]) <= Len(s)
      BY <2>1 DEF FormAt
    <3> QED BY <1>1, <1>2, <2>1, <3>1, HeadBefore
  <2>3. Shortest(r[k], ArgAt(r, k)) /\ NextHead(r, k) \in D
    BY <2>1, <2>2 DEF FormAt, SameAt, NextHead
  <2>4. k + ArgWidth(r[k]) <= Len(r)
    <3>1. ArgWidth(r[k]) = ArgWidth(s[k]) /\ ArgWidth(s[k]) \in Nat
      BY <2>2, WidthAt DEF SameAt
    <3> QED BY <1>1, <1>3, <2>1, <3>1 DEF FormAt
  <2> HIDE DEF D
  <2> QED BY <2>3, <2>4 DEF FormAt
<1>6. FormAt(r, D, n + 1)
  <2>1. SameAt(r, n + 1, x, 1)
    <3>1. x # <<>> /\ 1 + ArgWidth(x[1]) <= Len(x)
      BY DEF Whole
    <3> QED BY <1>1, <1>2, <3>1, HeadBehind
  <2>2. Shortest(r[n + 1], ArgAt(r, n + 1)) /\ Extent(r[n + 1], ArgAt(r, n + 1)) = Len(x)
    BY <2>1 DEF Whole, SameAt
  <2>3. n + 1 + ArgWidth(r[n + 1]) <= Len(r)
    <3>1. ArgWidth(r[n + 1]) = ArgWidth(x[1]) /\ ArgWidth(x[1]) \in Nat /\ 1 + ArgWidth(x[1]) <= Len(x)
      BY <2>1, WidthAt DEF SameAt, Whole
    <3> QED BY <1>1, <1>3, <3>1
  <2>4. NextHead(r, n + 1) = Len(r) + 1
    BY <1>1, <1>3, <2>2 DEF NextHead
  <2> QED BY <2>2, <2>3, <2>4 DEF FormAt
<1>7. HeadsIn(r, D) /\ D \in SUBSET (1 .. Len(r))
  <2>1. D \subseteq 1 .. Len(r)
    <3>1. ASSUME NEW k \in C PROVE k \in 1 .. Len(r)
      <4>1. k \in 1 .. n
        OBVIOUS
      <4> QED BY <1>1, <1>3, <4>1
    <3>2. n + 1 \in 1 .. Len(r)
      BY <1>1, <1>3
    <3> QED BY <3>1, <3>2
  <2>2. 1 \in D
    <3>1. s = <<>> => n + 1 = 1
      BY EmptySeq
    <3>2. s # <<>> => 1 \in C
      BY <1>4 DEF HeadsIn
    <3> QED BY <3>1, <3>2
  <2>3. \A k \in D : FormAt(r, D, k)
    BY <1>5, <1>6
  <2> HIDE DEF D
  <2> QED BY <2>1, <2>2, <2>3 DEF HeadsIn
<1> QED BY <1>3, <1>7 DEF Good, r

-----------------------------------------------------------------------------
(* The heads of such a string, one after the other *)

\* The function that Heads takes the last value of, up to n.
IsWalk(f, s, n) == f = [i \in 0 .. n |-> IF i = 0 THEN <<1, {}>> ELSE Onward(s, f[i - 1])]

\* There is such a function.
LEMMA WalkExists ==
  ASSUME NEW s, NEW n \in Nat
  PROVE  \E f : IsWalk(f, s, n)
<1> DEFINE T == {m \in Nat : ~ \E f : IsWalk(f, s, m)}
<1> SUFFICES ASSUME T # {} PROVE FALSE
  OBVIOUS
<1> DEFINE m == Min(T)
<1>1. m \in T /\ \A y \in T : m <= y
  <2>1. T \subseteq Nat
    OBVIOUS
  <2> HIDE DEF T
  <2> QED BY <2>1, MinOfNaturals
<1> HIDE DEF m
<1>2. m \in Nat /\ ~ \E f : IsWalk(f, s, m)
  BY <1>1
<1>3. CASE m = 0
  <2> DEFINE f == [i \in 0 .. 0 |-> <<1, {}>>]
  <2>1. IsWalk(f, s, 0)
    BY DEF IsWalk
  <2> QED BY <1>2, <1>3, <2>1
<1>4. CASE m # 0
  <2>1. m - 1 \in Nat /\ m - 1 \notin T
    BY <1>1, <1>2, <1>4
  <2>2. PICK f : IsWalk(f, s, m - 1)
    BY <2>1
  <2> DEFINE g == [i \in 0 .. m |-> IF i = 0 THEN <<1, {}>> ELSE Onward(s, f[i - 1])]
  <2>3. \A i \in 0 .. m - 1 : g[i] = f[i]
    <3> SUFFICES ASSUME NEW i \in 0 .. m - 1 PROVE g[i] = f[i]
      OBVIOUS
    <3>1. f[i] = IF i = 0 THEN <<1, {}>> ELSE Onward(s, f[i - 1])
      BY <2>2 DEF IsWalk
    <3>2. i \in 0 .. m
      BY <1>2
    <3> QED BY <3>1, <3>2
  <2>4. \A i \in 0 .. m : g[i] = IF i = 0 THEN <<1, {}>> ELSE Onward(s, g[i - 1])
    <3> SUFFICES ASSUME NEW i \in 0 .. m PROVE g[i] = IF i = 0 THEN <<1, {}>> ELSE Onward(s, g[i - 1])
      OBVIOUS
    <3>1. i # 0 => i - 1 \in 0 .. m - 1
      BY <1>2
    <3>2. i # 0 => g[i - 1] = f[i - 1]
      BY <2>3, <3>1, Zenon
    <3> QED BY <3>2
  <2>5. g = [i \in 0 .. m |-> g[i]]
    OBVIOUS
  <2> HIDE DEF g
  <2>6. g = [i \in 0 .. m |-> IF i = 0 THEN <<1, {}>> ELSE Onward(s, g[i - 1])]
    BY <2>4, <2>5
  <2> QED BY <1>2, <2>6 DEF IsWalk
<1> QED BY <1>3, <1>4

\* Heads is what its last value has collected.
LEMMA HeadsAre ==
  ASSUME NEW s, Len(s) \in Nat
  PROVE  \E f : IsWalk(f, s, Len(s)) /\ Heads(s) = f[Len(s)][2]
<1> DEFINE f == CHOOSE f : IsWalk(f, s, Len(s))
<1>1. IsWalk(f, s, Len(s))
  BY WalkExists
<1>2. Heads(s) = f[Len(s)][2]
  BY DEF Heads, IsWalk
<1> QED BY <1>1, <1>2

\* What comes next is in C or at the end, and what was passed is in C.
WalksIn(w, s, C) == w[1] \in C \cup {Len(s) + 1} /\ w[2] \subseteq C

\* The walk starts there.
LEMMA FirstIn ==
  ASSUME NEW s, NEW C, HeadsIn(s, C)
  PROVE  WalksIn(<<1, {}>>, s, C)
<1>1. s = <<>> => Len(s) = 0
  BY EmptySeq
<1>2. s # <<>> => 1 \in C
  BY DEF HeadsIn
<1> QED BY <1>1, <1>2 DEF WalksIn

\* And stays there.
LEMMA OnwardIn ==
  ASSUME NEW s, NEW C, NEW w, HeadsIn(s, C), WalksIn(w, s, C), Len(s) \in Nat
  PROVE  WalksIn(Onward(s, w), s, C)
<1>1. CASE w[1] \in 1 .. Len(s)
  <2>1. w[1] \in C
    BY <1>1 DEF WalksIn
  <2>2. NextHead(s, w[1]) \in C \cup {Len(s) + 1}
    BY <2>1 DEF HeadsIn, FormAt
  <2>3. Onward(s, w) = <<NextHead(s, w[1]), w[2] \cup {w[1]}>>
    BY <1>1 DEF Onward
  <2> QED BY <2>1, <2>2, <2>3 DEF WalksIn
<1>2. CASE w[1] \notin 1 .. Len(s)
  BY <1>2 DEF Onward
<1> QED BY <1>1, <1>2

\* So every head that is found is in its shortest form.
LEMMA GoodHeads ==
  ASSUME NEW s, Good(s)
  PROVE  \A k \in Heads(s) : Shortest(s[k], ArgAt(s, k))
<1>1. s \in Seq(Byte) /\ Len(s) \in Nat
  BY LenProperties DEF Good
<1>2. PICK C \in SUBSET (1 .. Len(s)) : HeadsIn(s, C)
  BY DEF Good
<1>3. PICK f : IsWalk(f, s, Len(s)) /\ Heads(s) = f[Len(s)][2]
  BY <1>1, HeadsAre
<1>4. \A i \in 0 .. Len(s) : f[i] = IF i = 0 THEN <<1, {}>> ELSE Onward(s, f[i - 1])
  BY <1>3 DEF IsWalk
<1>5. WalksIn(f[Len(s)], s, C)
  <2> DEFINE T == {i \in 0 .. Len(s) : ~ WalksIn(f[i], s, C)}
             j == Min(T)
  <2> SUFFICES ASSUME T # {} PROVE FALSE
    BY <1>1
  <2>1. j \in T /\ \A y \in T : j <= y
    <3>1. T \subseteq Nat
      OBVIOUS
    <3> HIDE DEF T
    <3> QED BY <3>1, MinOfNaturals
  <2> HIDE DEF j
  <2>2. j \in 0 .. Len(s) /\ ~ WalksIn(f[j], s, C)
    BY <2>1
  <2>3. CASE j = 0
    <3>1. f[j] = <<1, {}>>
      BY <1>4, <2>2, <2>3
    <3> QED BY <1>2, <2>2, <3>1, FirstIn
  <2>4. CASE j # 0
    <3>1. j - 1 \in 0 .. Len(s) /\ ~ (j <= j - 1)
      BY <1>1, <2>2, <2>4
    <3>2. WalksIn(f[j - 1], s, C)
      BY <2>1, <3>1
    <3>3. f[j] = Onward(s, f[j - 1])
      BY <1>4, <2>2, <2>4
    <3> QED BY <1>1, <1>2, <2>2, <3>2, <3>3, OnwardIn
  <2> QED BY <2>3, <2>4
<1>6. Heads(s) \subseteq C
  BY <1>3, <1>5 DEF WalksIn
<1> QED BY <1>2, <1>6 DEF HeadsIn, FormAt

-----------------------------------------------------------------------------
(* Every head and every value has that form *)

\* a head of the major type, with the number n
HeadOf(h, type, n) ==
  LET w == ArgWidth(h[1])
  IN /\ h \in Seq(Byte) /\ Len(h) = 1 + w /\ MajorType(h[1]) = type
     /\ Significant(Argument(h[1], Behind(h))) = n
     /\ (w = 1 => n[1] >= 24) /\ (w > 0 => Len(n) > w \div 2)

\* The packer writes such.
LEMMA HeadWritten ==
  ASSUME NEW type, NEW n, type \in 0 .. 7, n \in Seq(Byte), Len(n) <= 8, n # <<>> => n[1] # 0
  PROVE  HeadOf(WriteHead(type, n), type, n)
<1> DEFINE h == WriteHead(type, n)
<1>1. h \in Seq(Byte) /\ <<>> \in Seq(Byte)
  BY HeadType, EmptySeq
<1>2. h \o <<>> = h
  <2> HIDE DEF h
  <2> QED BY ONLY <1>1, ConcatEmptySeq
<1>3. LET s == h \o <<>>
          ib == s[1]
          width == ArgWidth(ib)
          argument == Argument(ib, SubSeq(s, 2, Len(s)))
      IN /\ MajorType(ib) = type
         /\ Significant(argument) = n
         /\ Len(h) = 1 + width
         /\ width = 1 => n[1] >= 24
         /\ width > 0 => Len(n) > width \div 2
  BY <1>1, HeadsReadBack
<1> HIDE DEF h
<1>4. HeadOf(h, type, n)
  BY <1>1, <1>2, <1>3 DEF HeadOf, Behind
<1> QED BY <1>4 DEF h

\* The rule of the shortest form, case by case.
LEMMA ShortestIs ==
  ASSUME NEW ib, NEW arg
  PROVE  LET width == ArgWidth(ib)
         IN /\ width = 0 => Shortest(ib, arg)
            /\ width = 1 /\ arg[1] >= 24 => Shortest(ib, arg)
            /\ /\ width > 1 /\ (MajorType(ib) = Prim => width = 2)
               /\ Len(Significant(arg)) > width \div 2
               => Shortest(ib, arg)
            /\ /\ MajorType(ib) = Prim /\ width > 1
               /\ width > 2 => Float(arg) \notin HalfValues
               /\ width = 8 => Singles(Float(arg)) = {}
               => Shortest(ib, arg)
<1> DEFINE w == ArgWidth(ib)
           prim == MajorType(ib) = Prim
           A == w > 2 => Float(arg) \notin HalfValues /\ (w = 8 => Singles(Float(arg)) = {})
           B == arg[1] >= 24
           C == Len(Significant(arg)) > w \div 2
<1>1. w \in Nat
  BY WidthAt
<1>2. Shortest(ib, arg) <=> IF prim /\ w > 1 THEN A
                           ELSE CASE w = 0 -> TRUE [] w = 1 -> B [] OTHER -> C
  BY DEF Shortest
<1> HIDE DEF w, prim, B, C
<1>3. w > 1 <=> w # 0 /\ w # 1
  BY <1>1
<1>4. w = 2 => ~(w > 2)
  OBVIOUS
<1> DEFINE D == w > 1
           E == CASE w = 0 -> TRUE [] w = 1 -> B [] OTHER -> C
<1> HIDE DEF A
<1>5. ~(0 = 1)
  OBVIOUS
<1>6. /\ w = 0 => E = TRUE
      /\ w = 1 => E = B
      /\ w # 0 /\ w # 1 => E = C
  BY <1>5
<1> HIDE DEF E
<1>7. Shortest(ib, arg) <=> IF prim /\ w > 1 THEN A ELSE E
  BY <1>2 DEF E
<1>8. w = 0 => Shortest(ib, arg)
  BY <1>3, <1>6, <1>7
<1>9. w = 1 /\ B => Shortest(ib, arg)
  BY <1>3, <1>6, <1>7
<1>10. w > 1 /\ (prim => w = 2) /\ C => Shortest(ib, arg)
  BY <1>3, <1>4, <1>6, <1>7 DEF A
<1>11. prim /\ w > 1 /\ A => Shortest(ib, arg)
  BY <1>7
<1> QED BY <1>8, <1>9, <1>10, <1>11 DEF w, prim, A, B, C

\* A head of anything but a float is as short as it can be.
LEMMA HeadShort ==
  ASSUME NEW h, NEW type, NEW n, HeadOf(h, type, n), n \in Seq(Byte), type = Prim => Len(n) <= 2
  PROVE  Shortest(h[1], ArgAt(h, 1))
<1> DEFINE ib == h[1]
           w == ArgWidth(ib)
           arg == ArgAt(h, 1)
<1>1. /\ h \in Seq(Byte) /\ Len(h) = 1 + w /\ MajorType(ib) = type
      /\ Significant(Argument(ib, Behind(h))) = n
      /\ (w = 1 => n[1] >= 24) /\ (w > 0 => Len(n) > w \div 2)
  BY DEF HeadOf
<1>2. w \in {0, 1, 2, 4, 8}
  BY WidthAt
<1>3. arg = Behind(h) /\ arg \in Seq(Byte) /\ Len(arg) = w /\ (w # 0 => Argument(ib, Behind(h)) = arg)
  BY <1>1, ArgBehind, ArgumentIs
<1>4. Len(n) \in Nat
  BY LenProperties
<1>5. Shortest(ib, arg)
  <2> HIDE DEF arg, ib, w
  <2>1. CASE w = 0
    BY <2>1, ShortestIs DEF w
  <2>2. CASE w = 1
    <3>1. arg = <<arg[1]>> /\ arg[1] \in Byte
      <4>1. 1 \in 1 .. Len(arg) /\ Len(arg) = 1
        BY <1>3, <2>2
      <4>2. arg = <<arg[1]>>
        BY <1>3, <4>1, OneElement
      <4> QED BY <1>3, <4>1, <4>2, ElementOfSeq
    <3> DEFINE x == arg[1]
    <3>2. Significant(<<x>>) = IF x = 0 THEN <<>> ELSE <<x>>
      BY <3>1, SignificantOne
    <3>3. Significant(arg) = n
      BY <1>1, <1>3, <2>2
    <3>4. n # <<>>
      BY <1>1, <1>4, <2>2, EmptySeq
    <3>5. n = <<x>>
      BY <3>1, <3>2, <3>3, <3>4
    <3>6. x >= 24
      BY <1>1, <2>2, <3>5
    <3> QED BY <2>2, <3>6, ShortestIs DEF w
  <2>3. CASE w > 1
    <3>1. Significant(arg) = n /\ Len(n) > w \div 2
      BY <1>1, <1>3, <2>3
    <3>2. type = Prim => w = 2
      BY <1>2, <1>4, <2>3, <3>1
    <3> QED BY <1>1, <2>3, <3>1, <3>2, ShortestIs DEF w
  <2> QED BY <1>2, <2>1, <2>2, <2>3
<1> QED BY <1>5

\* One that is not the head of a string stands for itself.
LEMMA HeadWhole ==
  ASSUME NEW h, NEW type, NEW n, HeadOf(h, type, n), n \in Seq(Byte),
         type \notin {ByteString, TextString}, type = Prim => Len(n) <= 2
  PROVE  Whole(h)
<1> DEFINE ib == h[1]
           w == ArgWidth(ib)
           arg == ArgAt(h, 1)
<1>1. h \in Seq(Byte) /\ Len(h) = 1 + w /\ MajorType(ib) = type
  BY DEF HeadOf
<1>2. w \in Nat
  BY WidthAt
<1>3. Shortest(ib, arg)
  BY HeadShort
<1>4. Extent(ib, arg) = Len(h)
  <2>1. Extent(ib, arg) = 1 + w + 0
    BY <1>1 DEF Extent
  <2> HIDE DEF w, ib, arg
  <2> QED BY <1>1, <1>2, <2>1
<1>5. h # <<>>
  BY <1>1, <1>2, EmptySeq
<1> QED BY <1>1, <1>3, <1>4, <1>5 DEF Whole

\* A string with its head.
LEMMA StringWhole ==
  ASSUME NEW type, NEW body, type \in {ByteString, TextString}, body \in Seq(Byte), Len(body) \in Lengths
  PROVE  Whole(WriteHead(type, Number(Len(body))) \o body)
<1> DEFINE l == Len(body)
           n == Number(l)
           h == WriteHead(type, n)
           x == h \o body
           ib == h[1]
           w == ArgWidth(ib)
           arg == ArgAt(h, 1)
<1>1. type \in 0 .. 7 /\ type # Prim
  BY DEF ByteString, TextString, Prim
<1>2. n \in Seq(Byte) /\ Len(n) <= 8 /\ (n # <<>> => n[1] # 0)
  <2> HIDE DEF l
  <2>1. l \in Lengths
    BY DEF l
  <2>2. n \in Seq(Byte) /\ Len(n) <= 3 /\ (n # <<>> => n[1] # 0)
    BY <2>1, NumberType, NumberIs
  <2> HIDE DEF n
  <2> QED BY <2>2, LenProperties
<1>3. HeadOf(h, type, n)
  <2> HIDE DEF n
  <2> QED BY <1>1, <1>2, HeadWritten
<1>4. Count(Argument(ib, Behind(h))) = l
  <2>1. h \in Seq(Byte) /\ <<>> \in Seq(Byte) /\ l \in Lengths
    BY <1>3, EmptySeq DEF HeadOf
  <2>2. LET s == h \o <<>>
        IN  Count(Argument(s[1], SubSeq(s, 2, Len(s)))) = l
    BY <1>1, <2>1, CountsReadBack
  <2> HIDE DEF h, l
  <2>3. h \o <<>> = h
    BY ONLY <2>1, ConcatEmptySeq
  <2> QED BY <2>2, <2>3 DEF Behind
<1> HIDE DEF h, n
<1>5. h \in Seq(Byte) /\ Len(h) = 1 + w /\ MajorType(ib) = type
  BY <1>3 DEF HeadOf
<1>6. w \in Nat /\ l \in Nat
  BY WidthAt, LenProperties
<1>7. Extent(ib, arg) = 1 + w + l
  BY <1>4, <1>5, ArgBehind DEF Extent
<1>8. Shortest(ib, arg)
  BY <1>1, <1>2, <1>3, HeadShort
<1>9. SameAt(x, 1, h, 1)
  <2>1. 1 \in 1 .. Len(h) /\ 1 + ArgWidth(h[1]) <= Len(h)
    BY <1>5, <1>6
  <2> QED BY <1>5, <2>1, HeadBefore
<1>10. x \in Seq(Byte) /\ Len(x) = 1 + w + l
  <2>1. x \in Seq(Byte) /\ Len(x) = Len(h) + Len(body)
    BY ONLY <1>5, body \in Seq(Byte), ConcatProperties
  <2> QED BY <1>5, <2>1
<1> HIDE DEF x, l
<1>11. x # <<>> /\ 1 + w <= Len(x)
  BY <1>6, <1>10, EmptySeq
<1>12. Whole(x)
  BY <1>7, <1>8, <1>9, <1>10, <1>11 DEF Whole, SameAt
<1> QED BY <1>12 DEF x, h, n, l

\* Initial bytes with two and more bytes of argument.
LEMMA WideIs ==
  ASSUME NEW ib, ArgWidth(ib) \in {2, 4, 8}
  PROVE  AI(ib) \in 25 .. 27
<1> DEFINE ai == AI(ib)
<1>1. ai \in 24 .. 27
  BY DEF ArgWidth
<1>2. ai # 24
  <2> SUFFICES ASSUME ai = 24 PROVE FALSE
    OBVIOUS
  <2>1. ArgWidth(ib) = <<1, 2, 4, 8>>[24 - 23]
    BY DEF ArgWidth
  <2> QED BY <2>1
<1> QED BY <1>1, <1>2

\* They are those of floats.
LEMMA FloatValueIs ==
  ASSUME NEW ai \in 25 .. 27, NEW arg
  PROVE  SimpleValue(ai, arg) = <<"float", Float(arg)>>
<1>1. ai # 20 /\ ai # 21 /\ ai # 22
  OBVIOUS
<1> QED BY <1>1, Zenon DEF SimpleValue

\* A float.
LEMMA FloatWhole ==
  ASSUME NEW d \in Doubles
  PROVE  Whole(FloatBytes(d))
<1> DEFINE h == FloatBytes(d)
           ib == h[1]
           w == ArgWidth(ib)
           arg == ArgAt(h, 1)
<1>1. h \in Seq(Byte) /\ <<>> \in Seq(Byte)
  BY FloatType, EmptySeq
<1>2. h \o <<>> = h
  <2> HIDE DEF h
  <2> QED BY ONLY <1>1, ConcatEmptySeq
<1>3. LET s == h \o <<>>
          x == s[1]
          width == ArgWidth(x)
          argument == Argument(x, SubSeq(s, 2, Len(s)))
      IN /\ MajorType(x) = Prim
         /\ SimpleValue(AI(x), argument) = <<"float", d>>
         /\ Len(h) = 1 + width /\ width \in {2, 4, 8}
         /\ width > 2 => \A n \in 0 .. 2 ^ 16 - 1 : FromHalf(n) # d
         /\ width > 4 => \A sign \in {0, 1} : \A e \in 0 .. 255, m \in Upper : Widened(sign, e, m) # d
  BY <1>1, FloatsReadBack
<1> HIDE DEF h
<1>4. /\ MajorType(ib) = Prim
      /\ SimpleValue(AI(ib), Argument(ib, Behind(h))) = <<"float", d>>
      /\ Len(h) = 1 + w /\ w \in {2, 4, 8}
  BY <1>2, <1>3 DEF Behind
<1>5. w > 2 => d \notin HalfValues
  BY <1>2, <1>3 DEF HalfValues
<1>6. w > 4 => \A sign \in {0, 1} : \A e \in 0 .. 255, m \in Upper : Widened(sign, e, m) # d
  BY <1>2, <1>3
<1>7. arg = Behind(h) /\ Argument(ib, Behind(h)) = arg
  BY <1>1, <1>4, ArgBehind, ArgumentIs
<1>8. Float(arg) = d
  <2>1. AI(ib) \in 25 .. 27
    BY <1>4, WideIs
  <2>2. SimpleValue(AI(ib), arg) = <<"float", Float(arg)>>
    BY <2>1, FloatValueIs
  <2> QED BY <1>4, <1>7, <2>2
<1>9. w > 2 => Float(arg) \notin HalfValues
  BY <1>8, <1>5
<1>10. w = 8 => Singles(Float(arg)) = {}
  <2> SUFFICES ASSUME w = 8, NEW f \in Singles(d) PROVE FALSE
    BY <1>8
  <2>1. Widened(d.sign, f.exp, f.mant) = d
    BY WidenedBack
  <2>2. f.exp \in 0 .. 255 /\ f.mant \in Upper
    BY SinglesType DEF IsSingle
  <2>3. d.sign \in {0, 1}
    BY Fields
  <2> QED BY <1>6, <2>1, <2>2, <2>3
<1>11. Shortest(ib, arg)
  <2>1. w > 1
    BY <1>4
  <2> QED BY <1>4, <1>9, <1>10, <2>1, ShortestIs
<1>12. Extent(ib, arg) = Len(h)
  <2>1. Extent(ib, arg) = 1 + w + 0
    BY <1>4 DEF Extent, Prim, ByteString, TextString
  <2> HIDE DEF w, ib, arg
  <2> QED BY <1>4, <2>1
<1>13. h # <<>>
  BY <1>4, EmptySeq
<1> HIDE DEF h
<1>14. Whole(h)
  BY <1>1, <1>4, <1>11, <1>12, <1>13 DEF Whole
<1> QED BY <1>14 DEF h

\* A byte that is all there is of an item.
LEMMA ByteWhole ==
  ASSUME NEW b, b \in {194, 195, 244, 245, 246}
  PROVE  Whole(<<b>>)
<1> DEFINE h == <<b>>
<1>1. ArgWidth(b) = 0 /\ MajorType(b) \notin {ByteString, TextString}
  <2>1. AI(b) \notin 24 .. 27
    BY DEF AI
  <2>2. MajorType(b) \in {6, 7}
    BY DEF MajorType
  <2> QED BY <2>1, <2>2 DEF ArgWidth, ByteString, TextString
<1>2. h \in Seq(Byte) /\ Len(h) = 1 /\ h[1] = b /\ h # <<>>
  BY EmptySeq DEF Byte
<1> HIDE DEF h
<1>3. Extent(b, ArgAt(h, 1)) = 1
  BY <1>1 DEF Extent
<1>4. Shortest(b, ArgAt(h, 1))
  BY <1>1, ShortestIs
<1>5. Whole(h)
  BY <1>1, <1>2, <1>3, <1>4 DEF Whole
<1> QED BY <1>5 DEF h

\* Simple values that have a half's argument at most (packer.h has no wider ones).
SimplesFit == \A v \in Values : v[1] = "simple" => v[2] < 2 ^ 16

\* A number below 2^16 has no more than two bytes.
LEMMA NumberShort ==
  ASSUME NEW n \in Lengths, n < 65536
  PROVE  Len(Number(n)) <= 2
<1> DEFINE r == Number(n)
           l == Len(r)
           a == r[1]
           b == r[2]
           c == r[3]
<1>1. r \in Seq(Byte) /\ l <= 3 /\ (r # <<>> => a # 0) /\ CountOf(r) = n
  BY NumberType, NumberIs
<1> HIDE DEF r
<1>2. l \in Nat
  BY <1>1, LenProperties
<1>3. ASSUME l = 3 PROVE n = 256 * (256 * a + b) + c /\ a # 0
  <2>1. r # <<>> /\ Len(r) = 3
    BY <1>3, EmptySeq
  <2>2. ~(3 = 0) /\ ~(3 = 1) /\ ~(3 = 2)
    OBVIOUS
  <2>3. CountOf(r) = 256 * (256 * r[1] + r[2]) + r[3]
    BY ONLY <2>1, <2>2, Zenon DEF CountOf
  <2> HIDE DEF l
  <2> QED BY <1>1, <2>1, <2>3
<1>4. ASSUME l = 3 PROVE a \in Nat /\ b \in Nat /\ c \in Nat
  <2>1. \A i \in 1 .. Len(r) : r[i] \in Byte
    BY <1>1, ElementOfSeq
  <2>2. 1 \in 1 .. Len(r) /\ 2 \in 1 .. Len(r) /\ 3 \in 1 .. Len(r)
    BY <1>4
  <2>3. a \in Byte
    BY <2>1, <2>2
  <2>4. b \in Byte
    BY <2>1, <2>2
  <2>5. c \in Byte
    BY <2>1, <2>2
  <2> HIDE DEF a, b, c
  <2> QED BY <2>3, <2>4, <2>5 DEF Byte
<1>5. l <= 3
  BY <1>1
<1>6. n \in Nat
  BY DEF Lengths
<1> HIDE DEF l, a, b, c
<1>7. l = 3 => n >= 65536
  BY ONLY <1>3, <1>4
<1>8. l <= 2
  BY <1>2, <1>5, <1>6, <1>7
<1> QED BY <1>8 DEF l, r

\* The head of a tag, an array or a hash stands for itself.
LEMMA CountWhole ==
  ASSUME NEW type \in {ArrayType, MapType, TagType}, NEW n \in Lengths
  PROVE  Whole(WriteHead(type, Number(n)))
<1> DEFINE q == Number(n)
<1>1. q \in Seq(Byte) /\ Len(q) <= 3 /\ (q # <<>> => q[1] # 0)
  BY NumberType, NumberIs
<1> HIDE DEF q
<1>2. /\ type \in 0 .. 7 /\ Len(q) <= 8 /\ type \notin {ByteString, TextString} /\ type # Prim
  BY <1>1, LenProperties DEF ArrayType, MapType, TagType, ByteString, TextString, Prim
<1> DEFINE h == WriteHead(type, q)
<1>3. HeadOf(h, type, q)
  BY <1>1, <1>2, HeadWritten
<1> HIDE DEF h
<1>4. Whole(h)
  BY <1>1, <1>2, <1>3, HeadWhole
<1> QED BY <1>4 DEF h, q

\* An integer of no more than 64 bits.
LEMMA IntegerWhole ==
  ASSUME NEW type \in {0, 1}, NEW n \in Seq(Byte), Len(n) <= 8, n # <<>> => n[1] # 0
  PROVE  Whole(WriteHead(type, n))
<1>1. type \in 0 .. 7 /\ type \notin {ByteString, TextString} /\ type # Prim
  BY DEF ByteString, TextString, Prim
<1> DEFINE h == WriteHead(type, n)
<1>2. HeadOf(h, type, n)
  BY <1>1, HeadWritten
<1> HIDE DEF h
<1>3. Whole(h)
  BY <1>1, <1>2, HeadWhole
<1> QED BY <1>3 DEF h

\* A simple value.
LEMMA SimpleWhole ==
  ASSUME NEW n \in Lengths, n < 65536
  PROVE  Whole(WriteHead(Prim, Number(n)))
<1> DEFINE q == Number(n)
<1>1. q \in Seq(Byte) /\ Len(q) <= 2 /\ (q # <<>> => q[1] # 0)
  BY NumberType, NumberIs, NumberShort
<1> HIDE DEF q
<1>2. /\ Prim \in 0 .. 7 /\ Len(q) <= 8 /\ Prim \notin {ByteString, TextString}
  BY <1>1, LenProperties DEF ByteString, TextString, Prim
<1> DEFINE h == WriteHead(Prim, q)
<1>3. HeadOf(h, Prim, q)
  BY <1>1, <1>2, HeadWritten
<1> HIDE DEF h
<1>4. Whole(h)
  BY <1>1, <1>2, <1>3, HeadWhole
<1> QED BY <1>4 DEF h, q

\* A number that is written with its sign.
LEMMA IntegerGood ==
  ASSUME NEW s, NEW negative, NEW n, Good(s), n \in Seq(Byte), Len(n) \in Lengths, n # <<>> => n[1] # 0
  PROVE  Good(s \o IntegerBytes(negative, n))
<1> DEFINE one == IF negative THEN 1 ELSE 0
           t == 194 + one
           l == Len(n)
           h == WriteHead(ByteString, Number(l))
           x == IntegerBytes(negative, n)
<1>1. one \in {0, 1} /\ t \in {194, 195}
  OBVIOUS
<1>2. x = IF l > 8 THEN <<t>> \o h \o n ELSE WriteHead(Unsigned + one, n)
  BY DEF IntegerBytes
<1>3. l \in Nat /\ s \in Seq(Byte)
  BY LenProperties DEF Good
<1>4. CASE l > 8
  <2>1. Whole(h \o n) /\ h \in Seq(Byte)
    <3>1. ByteString \in {ByteString, TextString}
      OBVIOUS
    <3>2. Whole(h \o n)
      BY <3>1, StringWhole
    <3>3. h \in Seq(Byte)
      <4>1. l \in Lengths
        OBVIOUS
      <4> HIDE DEF l
      <4> DEFINE q == Number(l)
      <4>2. q \in Seq(Byte) /\ Len(q) <= 3
        BY <4>1, NumberType
      <4> HIDE DEF q
      <4>3. Len(q) <= 8 /\ ByteString \in 0 .. 7
        BY <4>2, LenProperties DEF ByteString
      <4>4. WriteHead(ByteString, q) \in Seq(Byte)
        BY <4>2, <4>3, HeadType, Zenon
      <4> QED BY <4>4 DEF q
    <3> QED BY <3>2, <3>3
  <2> DEFINE y == <<t>>
             z == h \o n
  <2>2. Whole(y) /\ y \in Seq(Byte)
    <3>1. t \in {194, 195, 244, 245, 246} /\ t \in Byte
      BY <1>1 DEF Byte
    <3> HIDE DEF t
    <3> QED BY <3>1, ByteWhole, OneByte
  <2>3. x = y \o z
    BY <1>2, <1>4, <2>1, <2>2, ConcatAssociative
  <2> HIDE DEF y, x, h
  <2>4. Good(s \o y)
    BY <2>2, GoodGrows
  <2>5. z \in Seq(Byte)
    BY <2>1 DEF Whole
  <2> HIDE DEF z
  <2>6. Good((s \o y) \o z)
    BY <2>1, <2>4, GoodGrows DEF z
  <2>7. (s \o y) \o z = s \o (y \o z)
    BY ONLY <1>3, <2>2, <2>5, ConcatAssociative
  <2>8. Good(s \o x)
    BY <2>3, <2>6, <2>7
  <2> QED BY <2>8 DEF x
<1>5. CASE ~(l > 8)
  <2>1. Len(n) <= 8
    BY <1>3, <1>5
  <2>2. Unsigned + one \in {0, 1}
    BY <1>1 DEF Unsigned
  <2>3. Whole(WriteHead(Unsigned + one, n))
    <3> HIDE DEF one
    <3> QED BY <2>1, <2>2, IntegerWhole
  <2>4. Whole(x)
    BY <1>2, <1>5, <2>3
  <2> HIDE DEF x
  <2>5. Good(s \o x)
    BY <2>4, GoodGrows
  <2> QED BY <2>5 DEF x
<1> QED BY <1>4, <1>5

\* A string or symbol with its head.
LEMMA StrWhole ==
  ASSUME NEW text, NEW out, out \in Seq(Byte), Len(out) \in Lengths
  PROVE  Whole(StringBytes(Str(text, out)))
<1> DEFINE s == Str(text, out)
           type == IF s[2] THEN TextString ELSE ByteString
<1>1. s[3] = out /\ type \in {ByteString, TextString}
  BY DEF Str
<1> HIDE DEF type
<1>2. StringBytes(s) = WriteHead(type, Number(Len(out))) \o out
  BY <1>1 DEF StringBytes, type
<1>3. Whole(WriteHead(type, Number(Len(out))) \o out)
  BY <1>1, StringWhole
<1> HIDE DEF s
<1>4. Whole(StringBytes(s))
  BY <1>2, <1>3
<1> QED BY <1>4 DEF s

\* Every value without elements keeps the form.
LEMMA LeafGood ==
  ASSUME SimplesFit, NEW s, Good(s), NEW v \in Values, v[1] \in Leaves
  PROVE  Good(s \o LeafBytes(v))
<1> DEFINE k == v[1]
           x == LeafBytes(v)
           b == IF v[2] THEN 245 ELSE 244
<1>1. k \in {"nil", "bool", "int", "float", "string", "sym", "simple"}
  BY DEF Leaves
<1>2. CASE k = "nil"
  <2>1. x = <<IB_NIL>>
    BY <1>2, Zenon DEF LeafBytes
  <2>2. IB_NIL \in {194, 195, 244, 245, 246}
    BY DEF IB_NIL
  <2> HIDE DEF x
  <2>3. Whole(x)
    BY <2>1, <2>2, ByteWhole
  <2>4. Good(s \o x)
    BY <2>3, GoodGrows
  <2> QED BY <2>4 DEF x
<1>3. CASE k = "bool"
  <2>1. k # "nil" /\ k # "int" /\ k # "float" /\ k # "string" /\ k # "sym" /\ k # "simple"
    BY <1>3
  <2>2. x = <<b>>
    BY <1>3, <2>1, Zenon DEF LeafBytes
  <2>3. b \in {194, 195, 244, 245, 246}
    OBVIOUS
  <2> HIDE DEF x, b
  <2>4. Whole(x)
    BY <2>2, <2>3, ByteWhole
  <2>5. Good(s \o x)
    BY <2>4, GoodGrows
  <2> QED BY <2>5 DEF x
<1>4. CASE k = "int"
  <2>1. k # "nil" /\ k # "bool" /\ k # "float" /\ k # "string" /\ k # "sym" /\ k # "simple"
    BY <1>4
  <2>2. x = IntegerBytes(v[2], v[3])
    BY <1>4, <2>1, Zenon DEF LeafBytes
  <2>3. v[3] \in Seq(Byte) /\ Len(v[3]) \in Lengths /\ (v[3] # <<>> => v[3][1] # 0)
    BY <1>4, ValueAssumption
  <2>4. Good(s \o IntegerBytes(v[2], v[3]))
    BY <2>3, IntegerGood
  <2> QED BY <2>2, <2>4
<1>5. CASE k = "float"
  <2>1. k # "nil" /\ k # "bool" /\ k # "int" /\ k # "string" /\ k # "sym" /\ k # "simple"
    BY <1>5
  <2>2. x = FloatBytes(v[2])
    BY <1>5, <2>1, Zenon DEF LeafBytes
  <2>3. v[2] \in Doubles
    BY <1>5, ValueAssumption
  <2>4. Whole(FloatBytes(v[2]))
    BY <2>3, FloatWhole, Zenon
  <2> HIDE DEF x
  <2>5. Good(s \o x)
    BY <2>2, <2>4, GoodGrows
  <2> QED BY <2>5 DEF x
<1>6. CASE k = "string"
  <2>1. k # "nil" /\ k # "bool" /\ k # "int" /\ k # "float" /\ k # "sym" /\ k # "simple"
    BY <1>6
  <2>2. x = StringBytes(Encoded(v[2], v[3]))
    BY <1>6, <2>1, Zenon DEF LeafBytes
  <2>3. /\ v[2] \in {"binary", "utf8", "usascii", "latin1"} /\ v[3] \in Seq(Byte)
        /\ Len(Encoded(v[2], v[3])[3]) \in Lengths
    BY <1>6, ValueAssumption
  <2>4. PICK text, out : out \in Seq(Byte) /\ Encoded(v[2], v[3]) = Str(text, out)
    BY <2>3, EncodedType, Zenon
  <2>5. Str(text, out)[3] = out
    BY DEF Str
  <2>6. Len(out) \in Lengths
    BY <2>3, <2>4, <2>5, Zenon
  <2>7. Whole(StringBytes(Str(text, out)))
    BY <2>4, <2>6, StrWhole
  <2> HIDE DEF x
  <2>8. Whole(x)
    BY <2>2, <2>4, <2>7, Zenon
  <2>9. Good(s \o x)
    BY <2>8, GoodGrows
  <2> QED BY <2>9 DEF x
<1>7. CASE k = "sym"
  <2>1. k # "nil" /\ k # "bool" /\ k # "int" /\ k # "float" /\ k # "string" /\ k # "simple"
    BY <1>7
  <2>2. x = StringBytes(Str(TRUE, v[2]))
    BY <1>7, <2>1, Zenon DEF LeafBytes
  <2>3. v[2] \in Seq(Byte) /\ Len(v[2]) \in Lengths
    BY <1>7, ValueAssumption
  <2>4. Whole(StringBytes(Str(TRUE, v[2])))
    BY <2>3, StrWhole
  <2> HIDE DEF x
  <2>5. Good(s \o x)
    BY <2>2, <2>4, GoodGrows
  <2> QED BY <2>5 DEF x
<1>8. CASE k = "simple"
  <2>1. k # "nil" /\ k # "bool" /\ k # "int" /\ k # "float" /\ k # "string" /\ k # "sym"
    BY <1>8
  <2>2. x = WriteHead(Prim, Number(v[2]))
    BY <1>8, <2>1, Zenon DEF LeafBytes
  <2>3. v[2] \in Lengths /\ v[2] < 65536
    BY <1>8, ValueAssumption DEF SimplesFit
  <2>4. Whole(WriteHead(Prim, Number(v[2])))
    BY <2>3, SimpleWhole
  <2> HIDE DEF x
  <2>5. Good(s \o x)
    BY <2>2, <2>4, GoodGrows
  <2> QED BY <2>5 DEF x
<1> QED BY <1>1, <1>2, <1>3, <1>4, <1>5, <1>6, <1>7, <1>8

\* What encode has begun with is behind the bytes that were sent before; if
\* nothing more is sent, these are as they were.
SentBefore == mark <= Len(sent) /\ (mark = Len(sent) /\ ~damaged => Good(sent))

Encoding(s) == s # <<>> /\ s[1].kind = "encode"

FormInv ==
  /\ ~damaged => Good(sent \o buffer)
  /\ todo # <<>> => mark <= Total
  /\ Encoding(todo) => SentBefore

\* Bytes are only put behind others, and only in the form.
Onwards ==
  /\ Good(sent \o buffer) => Good(sent' \o buffer')
  /\ Total <= Total' /\ (sent' = sent \/ Len(sent) < Len(sent'))

\* Bytes go out.
LEMMA EmitsOnwards ==
  ASSUME BytesOK, NEW bytes, bytes \in Seq(Byte), Emits(bytes), \A s : Good(s) => Good(s \o bytes)
  PROVE  Onwards
<1>1. buffer \in Seq(Byte) /\ sent \in Seq(Byte)
  BY DEF BytesOK
<1> DEFINE n == Len(sent)
           m == Len(buffer)
           l == Len(bytes)
           out == sent \o buffer
<1>2. n \in Nat /\ m \in Nat /\ l \in Nat
  BY <1>1, LenProperties
<1>3. Good(out) => Good(out \o bytes)
  OBVIOUS
<1>4. out \o bytes = sent \o (buffer \o bytes)
  BY ONLY <1>1, bytes \in Seq(Byte), ConcatAssociative
<1>5. Len(buffer \o bytes) = m + l /\ Len(out) = n + m
  BY ONLY <1>1, bytes \in Seq(Byte), ConcatProperties
<1>6. buffer # <<>> => m > 0
  BY <1>1, <1>2, EmptySeq
<1>7. CASE buffer' = buffer \o bytes /\ sent' = sent
  <2>1. sent' \o buffer' = out \o bytes
    BY <1>4, <1>7
  <2>2. Total' = n + (m + l) /\ Total = n + m
    BY <1>5, <1>7 DEF Total
  <2> HIDE DEF out, n, m, l
  <2>3. Total <= Total'
    BY <1>2, <2>2
  <2> QED BY <1>3, <1>7, <2>1, <2>3 DEF Onwards, out
<1>8. CASE buffer # <<>> /\ sent' = sent \o buffer /\ buffer' = bytes
  <2>1. sent' \o buffer' = out \o bytes
    BY <1>8
  <2>2. Total' = n + m + l /\ Total = n + m /\ Len(sent') = n + m
    BY <1>5, <1>8 DEF Total
  <2>3. n = Len(sent)
    OBVIOUS
  <2> HIDE DEF out, n, m, l
  <2>4. Total <= Total' /\ n < Len(sent')
    BY <1>2, <1>6, <1>8, <2>2
  <2> QED BY <1>3, <2>1, <2>3, <2>4 DEF Onwards, out
<1> QED BY <1>7, <1>8 DEF Emits

\* No bytes go out.
LEMMA StaysOnwards ==
  ASSUME BytesOK, UNCHANGED <<buffer, sent>>
  PROVE  Onwards
<1>1. Len(sent) \in Nat /\ Len(buffer) \in Nat
  BY LenProperties DEF BytesOK
<1>2. Total \in Nat /\ Total' = Total
  BY <1>1 DEF Total
<1> QED BY <1>2 DEF Onwards

\* The buffer is flushed.
LEMMA FlushOnwards ==
  ASSUME BytesOK, sent' = sent \o buffer, buffer' = <<>>
  PROVE  Onwards
<1>1. buffer \in Seq(Byte) /\ sent \in Seq(Byte) /\ <<>> \in Seq(Byte) /\ Len(<<>>) = 0
  BY EmptySeq DEF BytesOK
<1> DEFINE n == Len(sent)
           m == Len(buffer)
           out == sent \o buffer
<1>2. n \in Nat /\ m \in Nat /\ n = Len(sent)
  BY <1>1, LenProperties
<1>3. out \in Seq(Byte) /\ Len(out) = n + m
  BY ONLY <1>1, ConcatProperties
<1>4. out \o <<>> = out
  <2> HIDE DEF out
  <2> QED BY ONLY <1>3, ConcatEmptySeq
<1>5. buffer = <<>> => out = sent
  BY ONLY <1>1, ConcatEmptySeq
<1>6. buffer # <<>> => m > 0
  BY <1>1, <1>2, EmptySeq
<1>7. sent' = out /\ sent' \o buffer' = out
  BY <1>4
<1>8. Total' = n + m + 0 /\ Total = n + m /\ Len(sent') = n + m
  BY <1>1, <1>3, <1>7 DEF Total
<1> HIDE DEF n, m, out
<1>9. Total <= Total' /\ (m > 0 => n < Len(sent'))
  BY <1>2, <1>8
<1> QED BY <1>2, <1>5, <1>6, <1>7, <1>9 DEF Onwards, out

-----------------------------------------------------------------------------
(* The outermost call *)

\* Whatever comes on top, the first one stays that.
LEMMA AppendedFirst ==
  ASSUME NEW s, NEW f, IsSeq(s)
  PROVE  Append(s, f)[1] = (IF s = <<>> THEN f ELSE s[1]) /\ Append(s, f) # <<>>
<1> DEFINE t == Append(s, f)
           n == Len(s)
<1>1. n \in Nat /\ (s # <<>> <=> n > 0)
  BY LengthOf
<1>2. IsSeq(t) /\ Len(t) = n + 1 /\ t[n + 1] = f /\ \A i \in 1 .. n : t[i] = s[i]
  BY AppendOf
<1>3. t # <<>>
  BY <1>1, <1>2, EmptySeq
<1> HIDE DEF t, n
<1>4. CASE s = <<>>
  <2>1. n + 1 = 1
    BY <1>1, <1>4
  <2> QED BY <1>2, <1>3, <1>4, <2>1 DEF t
<1>5. CASE s # <<>>
  <2>1. 1 \in 1 .. n
    BY <1>1, <1>5
  <2> QED BY <1>2, <1>3, <1>5, <2>1 DEF t
<1> QED BY <1>4, <1>5

\* Whatever goes from the top, too.
LEMMA FrontFirst ==
  ASSUME NEW s, IsSeq(s), s # <<>>
  PROVE  IsSeq(Front(s)) /\ (IF Front(s) = <<>> THEN Last(s) = s[1] ELSE Front(s)[1] = s[1])
<1> DEFINE t == Front(s)
           n == Len(s)
<1>1. n \in Nat /\ n > 0 /\ Last(s) = s[n]
  BY LengthOf
<1>2. IsSeq(t) /\ Len(t) = n - 1 /\ \A i \in 1 .. n - 1 : t[i] = s[i]
  BY FrontOf
<1> HIDE DEF t
<1>3. t = <<>> <=> Len(t) = 0
  BY <1>2, LengthOf, EmptySeq
<1>4. Len(s) = n
  OBVIOUS
<1> HIDE DEF n
<1>5. CASE t = <<>>
  <2>1. n = 1
    BY <1>1, <1>2, <1>3, <1>5
  <2> QED BY <1>1, <1>2, <1>5, <2>1 DEF t
<1>6. CASE t # <<>>
  <2>1. 1 \in 1 .. n - 1
    BY <1>1, <1>2, <1>3, <1>6
  <2> QED BY <1>2, <1>6, <2>1 DEF t
<1> QED BY <1>5, <1>6

\* Only encode itself begins one.
LEMMA PushedFirst ==
  ASSUME NEW s, NEW f, IsSeq(s), f.kind # "encode", Encoding(Append(s, f))
  PROVE  Encoding(s)
BY AppendedFirst DEF Encoding

\* A call that ends begins none.
LEMMA PoppedFirst ==
  ASSUME NEW s, IsSeq(s), s # <<>>, Encoding(Front(s))
  PROVE  Encoding(s)
BY FrontFirst DEF Encoding

\* Nor does one that goes on.
LEMMA ReplacedFirst ==
  ASSUME NEW s, NEW f, IsSeq(s), s # <<>>, f.kind = Last(s).kind, Encoding(Append(Front(s), f))
  PROVE  Encoding(s)
<1>1. IsSeq(Front(s)) /\ (IF Front(s) = <<>> THEN Last(s) = s[1] ELSE Front(s)[1] = s[1])
  BY FrontFirst
<1>2. Append(Front(s), f)[1] = (IF Front(s) = <<>> THEN f ELSE Front(s)[1])
  BY <1>1, AppendedFirst
<1> QED BY <1>1, <1>2 DEF Encoding

-----------------------------------------------------------------------------
(* The form is kept *)

\* How many bytes there are.
LEMMA Totals ==
  ASSUME BytesOK
  PROVE  /\ Len(sent) \in Nat /\ Len(buffer) \in Nat /\ Total \in Nat /\ mark \in Nat
         /\ Len(sent \o buffer) = Total /\ Total = Len(sent) + Len(buffer)
<1>1. sent \in Seq(Byte) /\ buffer \in Seq(Byte) /\ mark \in Nat
  BY DEF BytesOK
<1>2. Len(sent) \in Nat /\ Len(buffer) \in Nat
  BY <1>1, LenProperties
<1>3. Len(sent \o buffer) = Len(sent) + Len(buffer)
  BY ONLY <1>1, ConcatProperties
<1> QED BY <1>1, <1>2, <1>3 DEF Total

\* A step of a call that is under way.
LEMMA StepForm ==
  ASSUME BytesOK, BytesOK', FormInv, Onwards, damaged => damaged', mark' = mark, todo # <<>>,
         Encoding(todo') => Encoding(todo)
  PROVE  FormInv'
<1>1. ~damaged' => Good(sent' \o buffer')
  BY DEF FormInv, Onwards
<1> DEFINE n == Len(sent)
           l == Len(sent')
           t == Total
           u == Total'
<1>2. n \in Nat /\ mark \in Nat /\ t \in Nat /\ mark <= t
  BY Totals DEF FormInv
<1>3. l \in Nat /\ u \in Nat
  <2>1. sent' \in Seq(Byte) /\ buffer' \in Seq(Byte)
    BY DEF BytesOK
  <2>2. Len(sent') \in Nat /\ Len(buffer') \in Nat
    BY <2>1, LenProperties
  <2> QED BY <2>2 DEF Total
<1>4. t <= u /\ (sent' = sent \/ n < l)
  BY DEF Onwards
<1>5. Encoding(todo) => mark <= n /\ (mark = n /\ ~damaged => Good(sent))
  BY DEF FormInv, SentBefore
<1>6. sent' = sent => l = n
  OBVIOUS
<1> HIDE DEF n, l, t, u
<1>7. mark' <= u
  BY <1>2, <1>3, <1>4
<1>8. Encoding(todo') => mark' <= l /\ (mark' = l /\ ~damaged' => Good(sent'))
  <2>1. CASE sent' = sent
    BY <1>5, <1>6, <2>1
  <2>2. CASE n < l
    BY <1>2, <1>3, <1>5, <2>2
  <2> QED BY <1>4, <2>1, <2>2
<1> QED BY <1>1, <1>7, <1>8 DEF FormInv, SentBefore, u, l

\* Packer#write or a header, from outside or from a to_cbor.
LEMMA MarkedForm ==
  ASSUME BytesOK, BytesOK', FormInv, Onwards, damaged' = damaged, Marks, NEW f, f.kind # "encode",
         IsSeq(todo), todo' = Append(todo, f), Outside => mark' <= Total'
  PROVE  FormInv'
<1>1. Encoding(todo') => Encoding(todo)
  BY PushedFirst
<1>2. CASE Outside
  <2>1. ~Encoding(todo)
    <3> SUFFICES ASSUME Encoding(todo) PROVE FALSE
      OBVIOUS
    <3>1. todo # <<>> /\ todo[1].kind = "encode"
      BY DEF Encoding
    <3>2. Len(todo) \in Nat /\ Len(todo) > 0 /\ DOMAIN todo = 1 .. Len(todo)
      BY <3>1, LengthOf
    <3>3. 1 \in DOMAIN todo
      BY <3>2
    <3> QED BY <1>2, <3>1, <3>3 DEF Outside
  <2>2. ~damaged' => Good(sent' \o buffer')
    BY DEF FormInv, Onwards
  <2> QED BY <1>1, <1>2, <2>1, <2>2 DEF FormInv
<1>3. CASE ~Outside
  <2>1. mark' = mark
    BY <1>3 DEF Marks
  <2>2. todo # <<>>
    BY <1>3, EmptyIsSeq, LengthOf DEF Outside
  <2> QED BY <1>1, <2>1, <2>2, StepForm
<1> QED BY <1>2, <1>3

\* The calls are a sequence.
LEMMA CallsAre ==
  ASSUME Typed
  PROVE  BytesOK /\ IsSeq(todo)
BY DEF Typed, Counted

\* The value on top is written.
LEMMA CompletesFirst ==
  ASSUME Typed, todo # <<>>, NEW v, Completes(v), Encoding(todo')
  PROVE  Encoding(todo)
<1>1. IsSeq(Below) /\ (Encoding(Below) => Encoding(todo))
  BY CallsAre, FrontFirst, PoppedFirst DEF Below
<1> DEFINE b == Last(Below)
           q == Append(b.seen, v)
           f == [b EXCEPT !.seen = q]
<1>2. Below # <<>>
  BY DEF Completes, Encoding
<1>3. todo' = Append(Front(Below), f)
  BY <1>2 DEF Completes
<1>4. Plain(b, heap)
  <2>1. AllWait(Below, heap)
    BY TopCounted DEF Typed, Below
  <2> QED BY <1>2, <2>1, LastWaits
<1>5. f.kind = b.kind
  <2> HIDE DEF b, q
  <2> QED BY <1>4 DEF Plain
<1> HIDE DEF f
<1>6. Encoding(Below)
  BY <1>1, <1>2, <1>3, <1>5, ReplacedFirst
<1> QED BY <1>1, <1>6

\* A container takes the place of its value, with or without a part of it.
LEMMA OpenFirst ==
  ASSUME IsSeq(todo), todo # <<>>, NEW f, f.kind # "encode", todo' = Append(Below, f), Encoding(todo')
  PROVE  Encoding(todo)
<1>1. IsSeq(Below) /\ (Encoding(Below) => Encoding(todo))
  BY FrontFirst, PoppedFirst DEF Below
<1> QED BY <1>1, PushedFirst

\* And a part of it on top.
LEMMA PartFirst ==
  ASSUME IsSeq(todo), todo # <<>>, NEW f, NEW g, f.kind # "encode", g.kind # "encode",
         todo' = Append(Append(Below, f), g), Encoding(todo')
  PROVE  Encoding(todo)
<1>1. IsSeq(Below) /\ (Encoding(Below) => Encoding(todo))
  BY FrontFirst, PoppedFirst DEF Below
<1>2. IsSeq(Append(Below, f))
  BY <1>1, AppendOf
<1>3. Encoding(Append(Below, f))
  BY <1>2, PushedFirst
<1> QED BY <1>1, <1>3, PushedFirst

\* The values.
LEMMA LeafForm ==
  ASSUME SimplesFit, TypeInv, TypeInv', FormInv, WriteLeaf \/ WriteTagged
  PROVE  FormInv'
<1> DEFINE v == Top.value
<1>1. /\ todo # <<>> /\ v \in Values /\ UNCHANGED <<heap, mark, damaged>> /\ BytesOK /\ BytesOK'
      /\ Plain(Top, heap) /\ TopIs("item") /\ IsSeq(todo) /\ Typed
  BY TopTyped DEF WriteLeaf, WriteTagged, Typed, TypeInv, Counted
<1>2. CASE WriteLeaf
  <2> DEFINE bytes == LeafBytes(v)
  <2>1. bytes \in Seq(Byte) /\ v[1] \in Leaves
    BY <1>1, <1>2, LeafType DEF WriteLeaf
  <2>2. Emits(bytes) /\ Completes(LeafMeaning(v))
    BY <1>2 DEF WriteLeaf
  <2>3. \A s : Good(s) => Good(s \o bytes)
    BY <1>1, <2>1, LeafGood
  <2> HIDE DEF bytes
  <2>4. Onwards
    BY <1>1, <2>1, <2>2, <2>3, EmitsOnwards
  <2>5. Encoding(todo') => Encoding(todo)
    BY <1>1, <2>2, CompletesFirst
  <2> QED BY <1>1, <2>4, <2>5, StepForm
<1>3. CASE WriteTagged
  <2> DEFINE f == Frame("tag", Nil, 1, v)
             bytes == WriteHead(TagType, Number(v[2]))
             g == Item(v[3])
  <2>1. v[1] = "tagged" /\ Emits(bytes) /\ todo' = Append(Append(Below, f), g)
    BY <1>3 DEF WriteTagged
  <2>2. v[2] \in Lengths
    BY <1>1, <2>1, ValueAssumption
  <2>3. bytes \in Seq(Byte) /\ Whole(bytes)
    <3>1. TagType \in {ArrayType, MapType, TagType}
      OBVIOUS
    <3> QED BY <2>2, <3>1, CountType, CountWhole
  <2> HIDE DEF bytes
  <2>4. \A s : Good(s) => Good(s \o bytes)
    BY <2>3, GoodGrows
  <2>5. f.kind # "encode" /\ g.kind # "encode"
    BY DEF Frame, Item
  <2> HIDE DEF f, g, v
  <2>6. Onwards
    BY <1>1, <2>1, <2>3, <2>4, EmitsOnwards
  <2>7. Encoding(todo') => Encoding(todo)
    BY <1>1, <2>1, <2>5, PartFirst
  <2> QED BY <1>1, <2>6, <2>7, StepForm
<1> QED BY <1>2, <1>3

\* The headers of arrays and hashes.
LEMMA OpensForm ==
  ASSUME TypeInv, TypeInv', FormInv, WriteArray \/ WriteHash
  PROVE  FormInv'
<1> DEFINE o == Top.value[2]
<1>1. /\ todo # <<>> /\ UNCHANGED <<heap, mark, damaged>> /\ BytesOK /\ BytesOK'
      /\ IsSeq(todo) /\ Typed /\ Inv
  BY TopTyped DEF WriteArray, WriteHash, Typed, TypeInv, Counted
<1>2. PICK type \in {ArrayType, MapType}, n \in Lengths, kind \in {"array", "hash"} :
        /\ Emits(WriteHead(type, Number(n)))
        /\ todo' = Append(Below, Frame(kind, o, n, Nil))
  <2>1. CASE WriteArray
    <3> DEFINE n == Len(Contents(o))
    <3>1. /\ o \in Object /\ Emits(WriteHead(ArrayType, Number(n)))
          /\ todo' = Append(Below, Frame("array", o, n, Nil))
      BY <2>1 DEF WriteArray, IsObject
    <3>2. n \in Lengths
      BY <1>1, <3>1, SizeType
    <3> HIDE DEF n, o
    <3> QED BY <3>1, <3>2
  <2>2. CASE WriteHash
    <3> DEFINE n == Size(o)
    <3>1. /\ o \in Object /\ Emits(WriteHead(MapType, Number(n)))
          /\ todo' = Append(Below, Frame("hash", o, n, Nil))
      BY <2>2 DEF WriteHash, IsObject
    <3>2. n \in Lengths
      BY <1>1, <3>1, SizeType
    <3> HIDE DEF n, o
    <3> QED BY <3>1, <3>2
  <2> QED BY <2>1, <2>2
<1> DEFINE bytes == WriteHead(type, Number(n))
           f == Frame(kind, o, n, Nil)
<1>3. bytes \in Seq(Byte) /\ Whole(bytes)
  <2>1. type \in {ArrayType, MapType, TagType}
    OBVIOUS
  <2> QED BY <2>1, CountType, CountWhole
<1>4. f.kind # "encode"
  BY DEF Frame
<1>5. Emits(bytes) /\ todo' = Append(Below, f)
  BY <1>2
<1> HIDE DEF bytes, f
<1>6. \A s : Good(s) => Good(s \o bytes)
  BY <1>3, GoodGrows
<1>7. Onwards
  BY <1>1, <1>3, <1>5, <1>6, EmitsOnwards
<1>8. Encoding(todo') => Encoding(todo)
  BY <1>1, <1>4, <1>5, OpenFirst
<1> QED BY <1>1, <1>7, <1>8, StepForm

\* Nothing is written: an element comes on top, or a value is complete.
LEMMA SilentForm ==
  ASSUME TypeInv, TypeInv', FormInv,
         \/ NextElement \/ NextEntry \/ NextValue \/ WriteForeign
         \/ TagEnds \/ ArrayEnds \/ HashEnds \/ ForeignReturns \/ HeaderEnds
  PROVE  FormInv'
<1>1. /\ UNCHANGED <<heap, buffer, sent, mark, damaged>> /\ todo # <<>> /\ BytesOK /\ BytesOK'
      /\ IsSeq(todo) /\ Typed
  BY DEF NextElement, NextEntry, NextValue, WriteForeign, TagEnds, ArrayEnds, HashEnds,
         ForeignReturns, HeaderEnds, TopIs, Typed, TypeInv, Counted
<1>2. Onwards
  BY <1>1, StaysOnwards
<1>3. \A v : Item(v).kind # "encode"
  BY DEF Item, Frame
<1>4. NextElement => (Encoding(todo') => Encoding(todo))
  <2> SUFFICES ASSUME NextElement PROVE Encoding(todo') => Encoding(todo)
    OBVIOUS
  <2> DEFINE f == [Top EXCEPT !.i = Top.i + 1]
  <2>1. PICK v : todo' = Append(Append(Below, f), Item(v))
    BY DEF NextElement
  <2>2. TopIs("array")
    BY DEF NextElement
  <2>3. Plain(Top, heap) /\ Top.kind = "array"
    BY <1>1, <2>2, TopTyped
  <2>4. f.kind # "encode"
    BY <2>3 DEF Plain
  <2> HIDE DEF f
  <2> QED BY <1>1, <1>3, <2>1, <2>4, PartFirst
<1>5. NextEntry => (Encoding(todo') => Encoding(todo))
  <2> SUFFICES ASSUME NextEntry PROVE Encoding(todo') => Encoding(todo)
    OBVIOUS
  <2>1. PICK at, value, v : todo' = Append(Append(Below, Advanced(Top, at, value)), Item(v))
    BY Zenon DEF NextEntry, Advanced
  <2>2. TopIs("hash")
    BY DEF NextEntry
  <2>3. Plain(Top, heap) /\ Top.kind = "hash"
    BY <1>1, <2>2, TopTyped
  <2> DEFINE f == Advanced(Top, at, value)
  <2>4. f.kind # "encode"
    <3> DEFINE f1 == [Top EXCEPT !.i = Top.i + 1]
               f2 == [f1 EXCEPT !.at = at]
               f3 == [f2 EXCEPT !.value = value]
    <3>1. f = f3
      BY DEF Advanced
    <3>2. f1.kind = "hash" /\ f1 = [kind |-> f1.kind, obj |-> f1.obj, need |-> f1.need, i |-> f1.i,
                                    at |-> f1.at, value |-> f1.value, seen |-> f1.seen]
      BY <2>3 DEF Plain
    <3> HIDE DEF f1
    <3>3. f2.kind = "hash" /\ f2 = [kind |-> f2.kind, obj |-> f2.obj, need |-> f2.need, i |-> f2.i,
                                    at |-> f2.at, value |-> f2.value, seen |-> f2.seen]
      BY <3>2
    <3> HIDE DEF f2
    <3>4. f3.kind = "hash"
      BY <3>3
    <3> HIDE DEF f3, f
    <3> QED BY <3>1, <3>4
  <2> HIDE DEF f
  <2>5. todo' = Append(Append(Below, f), Item(v))
    BY <2>1 DEF f
  <2> QED BY <1>1, <1>3, <2>4, <2>5, PartFirst
<1>6. NextValue => (Encoding(todo') => Encoding(todo))
  <2> SUFFICES ASSUME NextValue PROVE Encoding(todo') => Encoding(todo)
    OBVIOUS
  <2>1. todo' = Append(todo, Item(Top.value))
    BY DEF NextValue
  <2> QED BY <1>1, <1>3, <2>1, PushedFirst
<1>7. WriteForeign => (Encoding(todo') => Encoding(todo))
  <2> SUFFICES ASSUME WriteForeign PROVE Encoding(todo') => Encoding(todo)
    OBVIOUS
  <2> DEFINE f == Frame("foreign", Nil, 1, Nil)
  <2>1. todo' = Append(Below, f) /\ f.kind # "encode"
    BY DEF WriteForeign, Frame
  <2> HIDE DEF f
  <2> QED BY <1>1, <2>1, OpenFirst
<1>8. TagEnds \/ ArrayEnds \/ HashEnds \/ ForeignReturns \/ HeaderEnds => (Encoding(todo') => Encoding(todo))
  <2> SUFFICES ASSUME TagEnds \/ ArrayEnds \/ HashEnds \/ ForeignReturns \/ HeaderEnds
               PROVE  Encoding(todo') => Encoding(todo)
    OBVIOUS
  <2>1. \E v : Completes(v)
    BY DEF TagEnds, ArrayEnds, HashEnds, ForeignReturns, HeaderEnds
  <2> QED BY <1>1, <2>1, CompletesFirst
<1>9. Encoding(todo') => Encoding(todo)
  BY <1>4, <1>5, <1>6, <1>7, <1>8
<1> QED BY <1>1, <1>2, <1>9, StepForm

\* An exception: if there are as many bytes as before the call, they are those.
LEMMA UnwindsForm ==
  ASSUME BytesOK, BytesOK', FormInv, todo # <<>>, NEW begun, begun \in Seq(Byte),
         NEW bytes, bytes = buffer \o begun, NEW n, n \in 0 .. Len(bytes), Unwinds(bytes, n)
  PROVE  FormInv'
<1> DEFINE first == todo[1]
           a == SubSeq(bytes, 1, n)
           rest == SubSeq(bytes, n + 1, Len(bytes))
           m == Len(sent)
           l == Len(bytes)
           k == Len(buffer)
           j == Len(begun)
<1>1. sent \in Seq(Byte) /\ buffer \in Seq(Byte)
  BY DEF BytesOK
<1>2. bytes \in Seq(Byte) /\ l = k + j
  BY ONLY <1>1, bytes = buffer \o begun, begun \in Seq(Byte), ConcatProperties
<1>3. m \in Nat /\ l \in Nat /\ k \in Nat /\ j \in Nat /\ mark \in Nat /\ mark <= m + k
  <2>1. m \in Nat /\ l \in Nat /\ k \in Nat /\ j \in Nat
    BY <1>1, <1>2, LenProperties
  <2> QED BY <2>1 DEF FormInv, BytesOK, Total
<1>4. a \in Seq(Byte) /\ rest \in Seq(Byte) /\ Len(a) = n /\ Len(rest) = l - n
  BY <1>2, CutOf
<1>5. a \o rest = bytes
  BY ONLY <1>2, n \in 0 .. Len(bytes), CutConcat
<1>6. /\ sent' = sent \o a /\ mark' = mark
      /\ buffer' = (IF first.kind = "encode" THEN <<>> ELSE rest)
      /\ todo' = <<>> \/ (todo' = <<first>> /\ first.kind = "header")
      /\ damaged' = (damaged \/ Len(sent') + Len(buffer') # mark)
  BY DEF Unwinds
<1>7. n \in Nat
  OBVIOUS
<1> HIDE DEF a, rest, m, l, k, j, first
<1>8. Len(sent') = m + n
  BY <1>1, <1>4, <1>6, ConcatProperties DEF m
<1>9. ~Encoding(todo')
  BY <1>6 DEF Encoding
<1>10. CASE first.kind = "encode"
  <2>1. buffer' = <<>> /\ Len(buffer') = 0 /\ todo' = <<>>
    BY <1>6, <1>10, EmptySeq
  <2>2. mark <= m /\ (mark = m /\ ~damaged => Good(sent))
    BY <1>10 DEF FormInv, Encoding, SentBefore, m, first
  <2>3. ASSUME ~damaged' PROVE Good(sent' \o buffer')
    <3>1. ~damaged /\ m + n + 0 = mark
      BY <1>6, <1>8, <2>1, <2>3
    <3>2. n = 0 /\ mark = m
      BY <1>3, <1>7, <2>2, <3>1
    <3>3. a = <<>>
      BY <1>4, <3>2, EmptySeq
    <3>4. sent \o <<>> = sent
      BY ONLY <1>1, ConcatEmptySeq
    <3>5. sent' \o buffer' = sent
      BY <1>6, <2>1, <3>3, <3>4
    <3> QED BY <2>2, <3>1, <3>2, <3>5
  <2> QED BY <1>9, <2>1, <2>3 DEF FormInv
<1>11. CASE first.kind # "encode"
  <2>1. buffer' = rest /\ Len(buffer') = l - n
    BY <1>4, <1>6, <1>11
  <2>2. sent' \o buffer' = sent \o bytes
    <3>1. (sent \o a) \o rest = sent \o (a \o rest)
      BY ONLY <1>1, <1>4, ConcatAssociative
    <3> QED BY <1>5, <1>6, <2>1, <3>1
  <2>3. ASSUME ~damaged' PROVE Good(sent' \o buffer')
    <3>1. ~damaged /\ (m + n) + (l - n) = mark
      BY <1>6, <1>8, <2>1, <2>3
    <3>2. j = 0
      BY <1>2, <1>3, <1>7, <3>1
    <3>3. begun = <<>>
      BY <3>2, EmptySeq DEF j
    <3>4. bytes = buffer
      BY ONLY <1>1, <3>3, bytes = buffer \o begun, ConcatEmptySeq
    <3> QED BY <2>2, <3>1, <3>4 DEF FormInv
  <2>4. Total' = (m + n) + (l - n)
    BY <1>8, <2>1 DEF Total
  <2>5. mark' <= Total'
    BY <1>2, <1>3, <1>6, <1>7, <2>4
  <2> QED BY <1>9, <2>3, <2>5 DEF FormInv
<1> QED BY <1>10, <1>11

\* An exception in the call that writes a value, or in a to_cbor.
LEMMA RaisesForm ==
  ASSUME TypeInv, TypeInv', FormInv, Refuses \/ IoRaises \/ CallbackRaises
  PROVE  FormInv'
<1>1. buffer \in Seq(Byte) /\ BytesOK /\ BytesOK' /\ Inv /\ Typed
  BY DEF Typed, BytesOK, TypeInv
<1>2. CASE Refuses \/ CallbackRaises
  <2>1. todo # <<>> /\ Unwinds(buffer, 0)
    BY <1>1, <1>2, InCallbackIs DEF Refuses, CallbackRaises, TopIs
  <2>2. 0 \in 0 .. Len(buffer)
    BY <1>1, LenProperties
  <2>3. <<>> \in Seq(Byte) /\ buffer = buffer \o <<>>
    <3>1. <<>> \in Seq(Byte)
      BY EmptySeq
    <3> QED BY ONLY <1>1, <3>1, ConcatEmptySeq
  <2> QED BY <1>1, <2>1, <2>2, <2>3, UnwindsForm
<1>3. CASE IoRaises
  <2> DEFINE v == Top.value
  <2>1. /\ TopIs("item") \/ TopIs("encode")
        /\ v[1] \in Leaves \cup {"tagged", "ref"}
    BY <1>3 DEF IoRaises
  <2>2. todo # <<>>
    BY <2>1 DEF TopIs
  <2>3. PICK begun \in Begun(v) :
          LET bytes == buffer \o begun
          IN \E n \in {0, Len(bytes) \div 2} : Unwinds(bytes, n)
    BY <1>3, Zenon DEF IoRaises
  <2> DEFINE bytes == buffer \o begun
  <2>4. begun \in Seq(Byte)
    <3>1. v \in Values
      BY <1>1, <2>1, TopTyped
    <3> HIDE DEF v
    <3> QED BY <2>1, <2>3, <3>1, BegunType
  <2>5. bytes \in Seq(Byte)
    BY ONLY <1>1, <2>4, Joined
  <2>6. PICK n \in {0, Len(bytes) \div 2} : Unwinds(bytes, n)
    BY <2>3
  <2>7. bytes = buffer \o begun
    OBVIOUS
  <2> HIDE DEF bytes
  <2>8. Len(bytes) \in Nat
    BY <2>5, LenProperties
  <2> DEFINE l == Len(bytes)
  <2>9. n \in 0 .. l
    <3> HIDE DEF l
    <3>1. l \in Nat /\ n \in {0, l \div 2}
      BY <2>8 DEF l
    <3> QED BY ONLY <3>1
  <2> QED BY <1>1, <2>2, <2>4, <2>6, <2>7, <2>9, UnwindsForm
<1> QED BY <1>2, <1>3

\* Packer#write.
LEMMA WriteForm ==
  ASSUME TypeInv, TypeInv', FormInv, NEW v, Write(v)
  PROVE  FormInv'
<1> DEFINE f == Item(v)
<1>1. /\ UNCHANGED <<buffer, sent, damaged>> /\ Marks /\ todo' = Append(todo, f)
      /\ IsSeq(todo) /\ BytesOK /\ BytesOK'
  BY DEF Write, TypeInv, Typed, Counted
<1>2. f.kind # "encode"
  BY DEF Item, Frame
<1> HIDE DEF f
<1>3. Onwards
  BY <1>1, StaysOnwards
<1>4. Outside => mark' <= Total'
  <2>1. Total' = Total /\ Total \in Nat
    BY <1>1, Totals DEF Total
  <2> QED BY <1>1, <2>1 DEF Marks
<1> QED BY <1>1, <1>2, <1>3, <1>4, MarkedForm

\* CBOR.encode: all there is was sent before.
LEMMA EncodeForm ==
  ASSUME TypeInv, TypeInv', FormInv, NEW v, Encode(v)
  PROVE  FormInv'
<1>1. /\ UNCHANGED <<buffer, sent, damaged>> /\ Marks /\ todo = <<>> /\ buffer = <<>>
      /\ todo' = <<Frame("encode", Nil, 1, Nil), Item(v)>> /\ BytesOK
  BY DEF Encode, TypeInv, Typed
<1>2. Outside
  BY <1>1 DEF Outside
<1>3. mark' = Total /\ Total = Len(sent) + 0 /\ Len(sent) \in Nat /\ sent \in Seq(Byte)
  BY <1>1, <1>2, EmptySeq, Totals DEF Marks, BytesOK
<1>4. sent \o buffer = sent
  BY ONLY <1>1, <1>3, ConcatEmptySeq
<1>5. ~damaged => Good(sent)
  BY <1>4 DEF FormInv
<1>6. mark' = Len(sent') /\ mark' = Total' /\ mark' \in Nat
  BY <1>1, <1>3 DEF Total
<1>7. sent' \o buffer' = sent' /\ damaged' = damaged /\ sent' = sent
  BY <1>1, <1>4
<1> QED BY <1>5, <1>6, <1>7 DEF FormInv, SentBefore

\* write_array_header and write_map_header.
LEMMA HeaderForm ==
  ASSUME TypeInv, TypeInv', FormInv, NEW header \in Headers, WriteHeader(header[1], header[2])
  PROVE  FormInv'
<1> DEFINE type == header[1]
           n == header[2]
           bytes == WriteHead(type, Number(n))
           need == IF type = MapType THEN 2 * n ELSE n
<1>1. type \in {ArrayType, MapType, TagType} /\ n \in Lengths
  BY LengthAssumption
<1>2. PICK o : /\ Emits(bytes) /\ Marks /\ UNCHANGED <<heap, damaged>>
               /\ todo' = Append(todo, Frame("header", o, need, type))
  BY Zenon DEF WriteHeader
<1> HIDE DEF type, n
<1>3. bytes \in Seq(Byte) /\ Whole(bytes)
  BY <1>1, CountType, CountWhole
<1> HIDE DEF bytes, need
<1> DEFINE f == Frame("header", o, need, type)
<1>4. todo' = Append(todo, f) /\ f.kind # "encode"
  BY <1>2 DEF Frame
<1> HIDE DEF f
<1>5. \A s : Good(s) => Good(s \o bytes)
  BY <1>3, GoodGrows
<1>6. IsSeq(todo) /\ BytesOK /\ BytesOK'
  BY DEF TypeInv, Typed, Counted
<1>7. Onwards
  BY <1>2, <1>3, <1>5, <1>6, EmitsOnwards
<1>8. Outside => mark' <= Total'
  BY <1>2, <1>7 DEF Marks, Onwards
<1> QED BY <1>2, <1>4, <1>6, <1>7, <1>8, MarkedForm

\* flush, clear, and the return of encode.
LEMMA EmptiesForm ==
  ASSUME TypeInv, TypeInv', FormInv, Flush \/ Clear \/ EncodeReturns
  PROVE  FormInv'
<1>1. BytesOK /\ BytesOK' /\ IsSeq(todo) /\ sent \in Seq(Byte) /\ buffer \in Seq(Byte)
  BY DEF TypeInv, Typed, Counted, BytesOK
<1>2. CASE Flush \/ EncodeReturns
  <2>1. Onwards /\ mark' = mark /\ damaged' = damaged
    BY <1>1, <1>2, FlushOnwards DEF Flush, EncodeReturns
  <2>2. CASE todo # <<>>
    <3>1. Encoding(todo') => Encoding(todo)
      <4>1. CASE Flush
        BY <4>1 DEF Flush
      <4>2. CASE EncodeReturns
        <5>1. Typed /\ \E v : Completes(v)
          BY <4>2 DEF EncodeReturns, TypeInv
        <5> QED BY <2>2, <5>1, CompletesFirst
      <4> QED BY <1>2, <4>1, <4>2
    <3> QED BY <1>1, <2>1, <2>2, <3>1, StepForm
  <2>3. CASE todo = <<>>
    <3>1. todo' = <<>>
      BY <1>2, <2>3 DEF Flush, EncodeReturns, TopIs
    <3> QED BY <2>1, <3>1 DEF FormInv, Onwards, Encoding
  <2> QED BY <2>2, <2>3
<1>3. CASE Clear
  <2>1. /\ sent' = sent /\ buffer' = <<>> /\ todo' = <<>>
        /\ damaged' = (sent # <<>> /\ (damaged \/ buffer # <<>> \/ todo # <<>>))
    BY <1>3 DEF Clear
  <2>2. sent \o <<>> = sent
    BY ONLY <1>1, ConcatEmptySeq
  <2>3. ASSUME ~damaged' PROVE Good(sent' \o buffer')
    <3>1. CASE sent = <<>>
      <4>1. sent' \o buffer' = <<>>
        BY <2>1, <2>2, <3>1
      <4> QED BY <4>1, NothingGood
    <3>2. CASE sent # <<>>
      <4>1. ~damaged /\ buffer = <<>>
        BY <2>1, <2>3, <3>2
      <4> QED BY <2>1, <4>1 DEF FormInv
    <3> QED BY <3>1, <3>2
  <2> QED BY <2>1, <2>3 DEF FormInv, Encoding
<1> QED BY <1>2, <1>3

\* What to_cbor does to the objects.
LEMMA ChangesForm ==
  ASSUME TypeInv, TypeInv', FormInv, NEW o \in Object, ArrayChanges(o) \/ HashChanges(o)
  PROVE  FormInv'
<1>1. UNCHANGED <<buffer, sent, todo, mark>> /\ (damaged => damaged') /\ InCallback
  <2>1. CASE ArrayChanges(o)
    BY <2>1, Zenon DEF ArrayChanges
  <2>2. CASE HashChanges(o)
    <3>1. UNCHANGED <<buffer, sent, todo, mark>> /\ InCallback
      BY <2>2, Zenon DEF HashChanges
    <3>2. damaged => damaged'
      BY <2>2, Zenon DEF HashChanges
    <3> QED BY <3>1, <3>2
  <2> QED BY <2>1, <2>2
<1>2. BytesOK /\ BytesOK' /\ todo # <<>>
  BY <1>1, InCallbackIs DEF TypeInv, Typed
<1>3. Onwards
  BY <1>1, <1>2, StaysOnwards
<1> QED BY <1>1, <1>2, <1>3, StepForm

-----------------------------------------------------------------------------
(* As short as can be *)

FormTypes == TypeInv /\ FormInv

\* Nothing is written at first.
LEMMA InitForm == Init => FormInv
<1>1. <<>> \o <<>> = <<>>
  <2>1. <<>> \in Seq(Byte)
    BY EmptySeq
  <2> QED BY ONLY <2>1, ConcatEmptySeq
<1>2. Good(<<>> \o <<>>)
  BY <1>1, NothingGood
<1> QED BY <1>2 DEF Init, FormInv, Encoding

\* Every step keeps the form.
LEMMA NextForm == SimplesFit /\ FormTypes /\ [Next]_vars => FormTypes'
<1> SUFFICES ASSUME SimplesFit, FormTypes, [Next]_vars PROVE FormTypes'
  OBVIOUS
<1>1. TypeInv /\ FormInv
  BY DEF FormTypes
<1>2. TypeInv'
  BY <1>1, NextTyped
<1>3. Next => FormInv'
  <2>1. WriteLeaf \/ WriteTagged => FormInv'
    BY <1>1, <1>2, LeafForm
  <2>2. WriteArray \/ WriteHash => FormInv'
    BY <1>1, <1>2, OpensForm
  <2>3. NextElement \/ NextEntry \/ NextValue \/ WriteForeign => FormInv'
    BY <1>1, <1>2, SilentForm
  <2>4. TagEnds \/ ArrayEnds \/ HashEnds \/ ForeignReturns \/ HeaderEnds => FormInv'
    BY <1>1, <1>2, SilentForm
  <2>5. Refuses \/ IoRaises \/ CallbackRaises => FormInv'
    BY <1>1, <1>2, RaisesForm
  <2>6. (\E v \in Arguments : Write(v) \/ Encode(v)) => FormInv'
    BY <1>1, <1>2, WriteForm, EncodeForm
  <2>7. (\E header \in Headers : WriteHeader(header[1], header[2])) => FormInv'
    BY <1>1, <1>2, HeaderForm
  <2>8. Flush \/ Clear \/ EncodeReturns => FormInv'
    BY <1>1, <1>2, EmptiesForm
  <2>9. (\E o \in Object : ArrayChanges(o) \/ HashChanges(o)) => FormInv'
    BY <1>1, <1>2, ChangesForm
  <2> QED BY <2>1, <2>2, <2>3, <2>4, <2>5, <2>6, <2>7, <2>8, <2>9, Zenon DEF Next
<1>4. UNCHANGED vars => FormInv'
  BY <1>1 DEF vars, FormInv, SentBefore, Encoding, Total
<1> QED BY <1>2, <1>3, <1>4, Zenon DEF FormTypes

\* Every integer, length, count, tag and float is written in the fewest bytes
\* that hold it, however calls, callbacks, flushes and exceptions are mixed, as
\* long as no exception has cut a value short.  Simple values of 2^16 and more,
\* which an argument of four bytes would make a float, are left out.
THEOREM ArgumentsAreShort ==
  ASSUME \A v \in Values : v[1] = "simple" => v[2] < 2 ^ 16
  PROVE  Spec => []ShortestForm
<1>0. SimplesFit
  BY DEF SimplesFit
<1>1. Init => FormTypes
  BY InitInv, InitTyped, InitForm DEF TypeInv, FormTypes
<1>2. FormTypes /\ [Next]_vars => FormTypes'
  BY <1>0, NextForm
<1>3. FormTypes => ShortestForm
  BY GoodHeads DEF FormTypes, FormInv, ShortestForm
<1> QED BY <1>1, <1>2, <1>3, PTL DEF Spec
=============================================================================
