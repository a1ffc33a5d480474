---------------------------- MODULE StreamProofs ----------------------------
(***************************************************************************)
(* Proof that what comes out of a stream is what went in, for any values,  *)
(* any nesting, any flushes, exceptions and callbacks of the packer, and   *)
(* any cut of the stream.                                                  *)
(*                                                                         *)
(* The bytes sent are a first part of what the values written read as      *)
(* (Writer!SentTypes).  The unpacker has yielded the items of a first part *)
(* of those, and what it has not yielded yet lies behind it (Between).     *)
(* Reading is a function of the bytes, so that the items are the values.   *)
(***************************************************************************)
EXTENDS Stream, ListFacts

-----------------------------------------------------------------------------
(* The reading of the packer's proof is that of the unpacker's: Writer and*)
(* Reader are instances of modules with other constants: each operator of  *)
(* CborItems and CborValue that a reading uses is the same in both.        *)

\* The parts of a head byte, and sequences.
LEMMA SameBytes ==
  /\ \A ib : Writer!AI(ib) = Reader!AI(ib) /\ Writer!MajorType(ib) = Reader!MajorType(ib)
  /\ \A b : Writer!BigEndian(b) = Reader!BigEndian(b)
  /\ \A s : Writer!Last(s) = Reader!Last(s) /\ Writer!Front(s) = Reader!Front(s)
  /\ Writer!Byte = Reader!Byte
<1>1. \A ib : Writer!AI(ib) = Reader!AI(ib) /\ Writer!MajorType(ib) = Reader!MajorType(ib)
  BY Zenon DEF Writer!AI, Reader!AI, Writer!MajorType, Reader!MajorType
<1>2. \A b : Writer!BigEndian(b) = Reader!BigEndian(b)
  BY Zenon DEF Writer!BigEndian, Reader!BigEndian
<1>3. \A s : Writer!Last(s) = Reader!Last(s) /\ Writer!Front(s) = Reader!Front(s)
  BY Zenon DEF Writer!Last, Reader!Last, Writer!Front, Reader!Front
<1>4. Writer!Byte = Reader!Byte
  BY Zenon DEF Writer!Byte, Reader!Byte
<1> QED BY <1>1, <1>2, <1>3, <1>4

\* The number of the bytes of an argument.
LEMMA SameNumbers ==
  /\ \A b : Writer!Significant(b) = Reader!Significant(b)
  /\ \A b : Writer!Count(b) = Reader!Count(b)
<1>1. \A S : Writer!Min(S) = Reader!Min(S)
  BY Zenon DEF Writer!Min, Reader!Min
<1>2. \A b : Writer!Significant(b) = Reader!Significant(b)
  BY <1>1, Zenon DEF Writer!Significant, Reader!Significant, Writer!SelectInSeq, Reader!SelectInSeq
<1>3. Writer!Huge = Reader!Huge
  BY SMT DEF Writer!Huge, Reader!Huge
<1>4. \A n : Writer!CountOf(n) = Reader!CountOf(n)
  BY <1>3, Zenon DEF Writer!CountOf, Reader!CountOf
<1> QED BY <1>2, <1>4, Zenon DEF Writer!Count, Reader!Count

\* Floats of two, four and eight bytes.
LEMMA SameFloat == \A b : Writer!Float(b) = Reader!Float(b)
<1>1. \A s, e, h, l : Writer!Double(s, e, h, l) = Reader!Double(s, e, h, l)
  BY Zenon DEF Writer!Double, Reader!Double
<1>2. \A s, m, e : Writer!Ldexp(s, m, e) = Reader!Ldexp(s, m, e)
  BY SMT DEF Writer!Ldexp, Reader!Ldexp, Writer!Double, Reader!Double
<1>3. ASSUME NEW s, NEW e, NEW m PROVE Writer!Widened(s, e, m) = Reader!Widened(s, e, m)
  <2> DEFINE low == -149
             normal == e \in 1 .. 254
             final == e = 255
             x == e + 896
             y == 2047
             widened(Ldexp(_, _, _), Double(_, _, _, _)) ==
               CASE e = 0 -> Ldexp(s, m, low)
                 [] normal -> Double(s, x, m, 0)
                 [] final -> Double(s, y, m, 0)
  <2>1. Writer!Widened(s, e, m) = widened(Writer!Ldexp, Writer!Double)
    BY Zenon DEF Writer!Widened
  <2>2. Reader!Widened(s, e, m) = widened(Reader!Ldexp, Reader!Double)
    BY Zenon DEF Reader!Widened
  <2> HIDE DEF low, normal, final, x, y
  <2> QED BY <1>1, <1>2, <2>1, <2>2, Zenon
<1>4. \A n : Writer!FromHalf(n) = Reader!FromHalf(n)
  BY <1>1, <1>2, Zenon DEF Writer!FromHalf, Reader!FromHalf
<1>5. \A b : Writer!FromSingle(b) = Reader!FromSingle(b)
  BY <1>3, SameBytes, Zenon DEF Writer!FromSingle, Reader!FromSingle
<1>6. \A b : Writer!FromDouble(b) = Reader!FromDouble(b)
  BY <1>1, SameBytes, Zenon DEF Writer!FromDouble, Reader!FromDouble
<1> QED BY <1>4, <1>5, <1>6, SameBytes, Zenon DEF Writer!Float, Reader!Float

\* The object of an item and of a container's elements.
LEMMA SameValues ==
  /\ \A negative, b : Writer!Integer(negative, b) = Reader!Integer(negative, b)
  /\ \A text, b : Writer!Str(text, b) = Reader!Str(text, b)
  /\ \A ai, b : Writer!SimpleValue(ai, b) = Reader!SimpleValue(ai, b)
  /\ \A tag, v : Writer!ProcessTag(tag, v) = Reader!ProcessTag(tag, v)
  /\ \A q : Writer!Pairs(q) = Reader!Pairs(q)
  /\ \A q : Writer!Chunks(q) = Reader!Chunks(q)
<1>1. \A negative, b : Writer!Integer(negative, b) = Reader!Integer(negative, b)
  BY SameNumbers, Zenon DEF Writer!Integer, Reader!Integer
<1>2. \A text, b : Writer!Str(text, b) = Reader!Str(text, b)
  BY Zenon DEF Writer!Str, Reader!Str
<1>3. \A ai, b : Writer!SimpleValue(ai, b) = Reader!SimpleValue(ai, b)
  BY SameBytes, SameFloat, Zenon DEF Writer!SimpleValue, Reader!SimpleValue, Writer!Nil, Reader!Nil
<1>4. \A tag : Writer!AcceptedBy(tag) = Reader!AcceptedBy(tag) /\ Writer!RubyKind(tag) = Reader!RubyKind(tag)
  BY Zenon DEF Writer!AcceptedBy, Reader!AcceptedBy, Writer!RubyKind, Reader!RubyKind
<1>5. \A tag, v : Writer!ProcessTag(tag, v) = Reader!ProcessTag(tag, v)
  BY <1>1, <1>4, Zenon DEF Writer!ProcessTag, Reader!ProcessTag, Writer!Tagged, Reader!Tagged, Writer!Raised, Reader!Raised
<1>6. \A q : Writer!Pairs(q) = Reader!Pairs(q)
  BY Zenon DEF Writer!Pairs, Reader!Pairs
<1>7. \A q : Writer!FlattenSeq(q) = Reader!FlattenSeq(q)
  BY Zenon DEF Writer!FlattenSeq, Reader!FlattenSeq
<1>8. \A q : Writer!Chunks(q) = Reader!Chunks(q)
  BY <1>7, Zenon DEF Writer!Chunks, Reader!Chunks
<1> QED BY <1>1, <1>2, <1>3, <1>5, <1>6, <1>8

\* The head at a place in the bytes.
LEMMA SameHeads ==
  /\ \A ib : Writer!ArgWidth(ib) = Reader!ArgWidth(ib)
  /\ \A ib, b : Writer!Argument(ib, b) = Reader!Argument(ib, b)
  /\ \A s, k : Writer!ArgAt(s, k) = Reader!ArgAt(s, k)
  /\ \A s, k : Writer!HeadAt(s, k) <=> Reader!HeadAt(s, k)
<1>1. \A ib : Writer!ArgWidth(ib) = Reader!ArgWidth(ib)
  BY SameBytes, Zenon DEF Writer!ArgWidth, Reader!ArgWidth
<1>2. \A ib, b : Writer!Argument(ib, b) = Reader!Argument(ib, b)
  BY <1>1, SameBytes, Zenon DEF Writer!Argument, Reader!Argument
<1>3. \A s, k : Writer!ArgAt(s, k) = Reader!ArgAt(s, k)
  BY <1>1, Zenon DEF Writer!ArgAt, Reader!ArgAt
<1>4. \A s, k : Writer!HeadAt(s, k) <=> Reader!HeadAt(s, k)
  BY <1>1, Zenon DEF Writer!HeadAt, Reader!HeadAt
<1> QED BY <1>1, <1>2, <1>3, <1>4

\* What a turn of a reading does to the open containers.
LEMMA SameMoves ==
  /\ \A type, need, tag : Writer!Container(type, need, tag) = Reader!Container(type, need, tag)
  /\ \A c : Writer!IsFull(c) <=> Reader!IsFull(c)
  /\ \A c : Writer!MayBreak(c) <=> Reader!MayBreak(c)
  /\ \A r, v : Writer!With(r, v) = Reader!With(r, v)
  /\ \A r, c : Writer!Enters(r, c) = Reader!Enters(r, c)
  /\ \A r : Writer!Closes(r) = Reader!Closes(r)
<1>1. \A type, need, tag : Writer!Container(type, need, tag) = Reader!Container(type, need, tag)
  BY Zenon DEF Writer!Container, Reader!Container
<1>2. \A c : Writer!IsFull(c) <=> Reader!IsFull(c)
  BY Zenon DEF Writer!IsFull, Reader!IsFull
<1>3. \A c : Writer!MayBreak(c) <=> Reader!MayBreak(c)
  <2> SUFFICES ASSUME NEW c PROVE Writer!MayBreak(c) <=> Reader!MayBreak(c)
    OBVIOUS
  <2> DEFINE text == c.type = 3
             endless == c.need = -1
             whole == c.type = 5 => Len(c.seen) % 2 = 0
             string == c.type \in {2, 3}
  <2>1. (\A k \in DOMAIN c.seen : c.seen[k] = Writer!Str(text, c.seen[k][3]))
        <=> (\A k \in DOMAIN c.seen : c.seen[k] = Reader!Str(text, c.seen[k][3]))
    BY SameValues, Zenon
  <2>2. Writer!MayBreak(c) <=> endless /\ whole /\ (string =>
          \A k \in DOMAIN c.seen : c.seen[k] = Writer!Str(text, c.seen[k][3]))
    BY Zenon DEF Writer!MayBreak, Writer!Endless, Writer!MapType, Writer!ByteString, Writer!TextString
  <2>3. Reader!MayBreak(c) <=> endless /\ whole /\ (string =>
          \A k \in DOMAIN c.seen : c.seen[k] = Reader!Str(text, c.seen[k][3]))
    BY Zenon DEF Reader!MayBreak, Reader!Endless, Reader!MapType, Reader!ByteString, Reader!TextString
  <2> HIDE DEF text, endless, whole, string
  <2> QED BY <2>1, <2>2, <2>3, Zenon
<1>4. \A o, v : Writer!Put(o, v) = Reader!Put(o, v)
  BY SameBytes, Zenon DEF Writer!Put, Reader!Put
<1>5. \A r, v : Writer!With(r, v) = Reader!With(r, v)
  BY <1>4, Zenon DEF Writer!With, Reader!With
<1>6. \A r, c : Writer!Enters(r, c) = Reader!Enters(r, c)
  BY Zenon DEF Writer!Enters, Reader!Enters
<1>7. \A c : Writer!ObjectOf(c) = Reader!ObjectOf(c)
  <2>1. \A c : Writer!Str(c.type = 3, Writer!Chunks(c.seen)) = Reader!Str(c.type = 3, Reader!Chunks(c.seen))
    BY SameValues, Zenon
  <2>2. \A c : Writer!Pairs(c.seen) = Reader!Pairs(c.seen)
    BY SameValues, Zenon
  <2>3. \A c : Writer!ProcessTag(c.tag, c.seen[1]) = Reader!ProcessTag(c.tag, c.seen[1])
    BY SameValues, Zenon
  <2> QED BY <2>1, <2>2, <2>3, Zenon DEF Writer!ObjectOf, Reader!ObjectOf, Writer!MapType, Reader!MapType,
     Writer!ByteString, Reader!ByteString, Writer!TextString, Reader!TextString,
     Writer!ArrayType, Reader!ArrayType, Writer!TagType, Reader!TagType
<1>8. \A r : Writer!Closes(r) = Reader!Closes(r)
  <2> SUFFICES ASSUME NEW r PROVE Writer!Closes(r) = Reader!Closes(r)
    OBVIOUS
  <2>1. Writer!Last(r.open) = Reader!Last(r.open) /\ Writer!Front(r.open) = Reader!Front(r.open)
    BY SameBytes
  <2>2. Writer!ObjectOf(Writer!Last(r.open)) = Reader!ObjectOf(Reader!Last(r.open))
    BY <1>7, <2>1
  <2> DEFINE v == Reader!ObjectOf(Reader!Last(r.open))
             q == [r EXCEPT !.open = Reader!Front(r.open)]
  <2>3. Writer!Closes(r) = Writer!With(q, v)
    BY <2>1, <2>2, Zenon DEF Writer!Closes
  <2>4. Reader!Closes(r) = Reader!With(q, v)
    BY Zenon DEF Reader!Closes
  <2> HIDE DEF q, v
  <2> QED BY <1>5, <2>3, <2>4
<1> QED BY <1>1, <1>2, <1>3, <1>5, <1>6, <1>8

\* A turn of a reading.
LEMMA SameTurn == \A s, r : Writer!Turn(s, r) = Reader!Turn(s, r)
<1>1. ASSUME NEW s, NEW r PROVE Writer!DefiniteItem(s, r) = Reader!DefiniteItem(s, r)
  <2> DEFINE ib == s[r.at]
             arg == Reader!Argument(ib, Reader!ArgAt(s, r.at))
             body == r.at + 1 + Reader!ArgWidth(ib)
             n == Reader!Count(arg)
             behind == [r EXCEPT !.at = body]
             type == Reader!MajorType(ib)
  <2>1. /\ Writer!MajorType(ib) = type /\ Writer!ArgWidth(ib) = Reader!ArgWidth(ib)
        /\ Writer!Argument(ib, Writer!ArgAt(s, r.at)) = arg /\ Writer!AI(ib) = Reader!AI(ib)
    BY SameBytes, SameHeads, Zenon
  <2>2. Writer!Count(arg) = n
    BY SameNumbers, Zenon
  <2> DEFINE item(With(_, _), Enters(_, _), Container(_, _, _), Integer(_, _), SimpleValue(_, _), Str(_, _)) ==
               CASE type = 0 -> With(behind, Integer(FALSE, arg))
                 [] type = 1 -> With(behind, Integer(TRUE, arg))
                 [] type \in {2, 3} ->
                      IF body + n - 1 > Len(s) THEN r
                      ELSE With([r EXCEPT !.at = body + n], Str(type = 3, SubSeq(s, body, body + n - 1)))
                 [] type = 4 -> Enters(behind, Container(type, n, 0))
                 [] type = 5 -> Enters(behind, Container(type, 2 * n, 0))
                 [] type = 6 -> Enters(behind, Container(type, 1, n))
                 [] type = 7 -> With(behind, SimpleValue(Reader!AI(ib), arg))
  <2>3. Reader!DefiniteItem(s, r) =
          item(Reader!With, Reader!Enters, Reader!Container, Reader!Integer, Reader!SimpleValue, Reader!Str)
    BY Zenon DEF Reader!DefiniteItem, Reader!MapType, Reader!ByteString, Reader!TextString, Reader!ArrayType,
       Reader!TagType, Reader!Prim, Reader!Unsigned, Reader!Negative
  <2>4. Writer!DefiniteItem(s, r) =
          item(Writer!With, Writer!Enters, Writer!Container, Writer!Integer, Writer!SimpleValue, Writer!Str)
    BY <2>1, <2>2, Zenon DEF Writer!DefiniteItem, Writer!MapType, Writer!ByteString, Writer!TextString,
       Writer!ArrayType, Writer!TagType, Writer!Prim, Writer!Unsigned, Writer!Negative
  <2> HIDE DEF arg, body, n, behind, type
  <2> QED BY <2>3, <2>4, SameValues, SameMoves, Zenon
<1>2. \A s, r : Writer!IndefiniteItem(s, r) = Reader!IndefiniteItem(s, r)
  BY SameBytes, SameMoves, Zenon
  DEF Writer!IndefiniteItem, Reader!IndefiniteItem, Writer!MapType, Reader!MapType,
     Writer!ByteString, Reader!ByteString, Writer!TextString, Reader!TextString,
     Writer!ArrayType, Reader!ArrayType, Writer!Prim, Reader!Prim, Writer!Endless, Reader!Endless
<1> QED BY <1>1, <1>2, SameBytes, SameHeads, SameMoves, Zenon
  DEF Writer!Turn, Reader!Turn, Writer!AI_INDEF, Reader!AI_INDEF

\* The head of a map that a reading does not take.
LEMMA SameLongMap == \A s, r : Writer!LongMap(s, r) <=> Reader!LongMap(s, r)
<1>1. \A o : Writer!Waiting(o) <=> Reader!Waiting(o)
  BY SameBytes, SameMoves, Zenon DEF Writer!Waiting, Reader!Waiting
<1> QED BY <1>1, SameHeads, Zenon DEF Writer!LongMap, Reader!LongMap

\* Where a reading comes to.
LEMMA SameReaches == \A s, p : Reader!Reaches(s, p) => Writer!Reaches(s, p)
<1>1. \A q : Writer!IsSeq(q) <=> Reader!IsSeq(q)
  BY Zenon DEF Writer!IsSeq, Reader!IsSeq
<1>2. \A o : Writer!AreContainers(o) <=> Reader!AreContainers(o)
  BY <1>1, Zenon DEF Writer!AreContainers, Reader!AreContainers, Writer!IsContainer, Reader!IsContainer
<1>3. \A r : Writer!IsReading(r) <=> Reader!IsReading(r)
  BY <1>1, <1>2, Zenon DEF Writer!IsReading, Reader!IsReading, Writer!At, Reader!At
<1>4. \A s, r, i : Writer!InTime(s, r, i) <=> Reader!InTime(s, r, i)
  BY Zenon DEF Writer!InTime, Reader!InTime
<1>5. Writer!Start = Reader!Start
  BY Zenon DEF Writer!Start, Reader!Start
<1>6. ASSUME NEW f, NEW s, NEW n, Reader!IsRun(f, s, n) PROVE Writer!IsRun(f, s, n)
  <2>1. n \in Nat /\ f[0] = Writer!Start
    BY <1>5, <1>6 DEF Reader!IsRun
  <2>2. \A i \in 0 .. n : Writer!IsReading(f[i]) /\ Writer!InTime(s, f[i], i)
    BY <1>3, <1>4, <1>6, Zenon DEF Reader!IsRun
  <2>3. ASSUME NEW i \in 1 .. n
        PROVE  f[i] = Writer!Turn(s, f[i - 1]) /\ f[i] # f[i - 1] /\ ~Writer!LongMap(s, f[i - 1])
    <3>1. f[i] = Reader!Turn(s, f[i - 1]) /\ f[i] # f[i - 1] /\ ~Reader!LongMap(s, f[i - 1])
      BY <1>6, Zenon DEF Reader!IsRun
    <3> QED BY <3>1, SameLongMap, SameTurn, Zenon
  <2> QED BY <2>1, <2>2, <2>3, Zenon DEF Writer!IsRun
<1> QED BY <1>6, Zenon DEF Writer!Reaches, Reader!Reaches

-----------------------------------------------------------------------------
(* The invariant *)

\* feed_each neither skips nor looks for nil or a header.
LEMMA ReaderMethods == Reader!BreaksEnd /\ Reader!NoMark
<1>1. "skip" \notin {"feed_each"}
  OBVIOUS
<1>2. {"feed_each"} \cap {"skip_nil", "read_array_header", "read_map_header"} = {}
  OBVIOUS
<1> QED BY <1>1, <1>2 DEF Reader!BreaksEnd, Reader!NoMark, Reader!Peeks

\* The packer: what it has sent are first bytes of the values written.
WriterInv == Writer!SentTypes
\* The unpacker: its state is a place in a reading of the bytes it has.
ReaderInv == Reader!Inv /\ Reader!PendingInv /\ Reader!ReadsInv /\ Reader!Streams

\* The bytes d are the first of those sent, and of the objects that came.
Came(d) == /\ Reader!HoldsItems(d, got)
           /\ \E x \in Seq(Reader!Byte) : sent = d \o x

\* Behind them is what the unpacker has.
Follows(d) == ~lost => d \o (taken \o unread) = SubSeq(sent, 1, carried)

Between == carried \in 0 .. Len(sent) /\ \E d : Came(d) /\ Follows(d)

StreamInv == WriterInv /\ ReaderInv /\ Between

\* A reading of first bytes does not leave the values written either.
LEMMA PassesFirst ==
  ASSUME NEW s \in Seq(Reader!Byte), NEW x \in Seq(Reader!Byte), Writer!Passes(s \o x, written)
  PROVE  Writer!Passes(s, written)
BY WriterAssumptions, SameBytes, Writer!PassesLess

\* First items, element by element, are a prefix.
LEMMA LeadsPrefix ==
  ASSUME NEW p, NEW q, Writer!Leads(p, q)
  PROVE  IsPrefix(p, q)
<1>1. PICK S : p \in Seq(S)
  BY DEF Writer!Leads, Writer!IsSeq
<1>2. PICK T : q \in Seq(T)
  BY DEF Writer!Leads, Writer!IsSeq
<1> DEFINE n == Len(p)
           u == SubSeq(q, 1, n)
<1>3. n \in Nat /\ n \in 0 .. Len(q) /\ \A i \in 1 .. n : q[i] = p[i]
  BY <1>1, <1>2, LenProperties DEF Writer!Leads
<1>4. \A i \in 1 .. n : q[i] \in S
  BY <1>1, <1>3, ElementOfSeq
<1> HIDE DEF n
<1>5. u \in Seq(S) /\ Len(u) = n /\ \A i \in 1 .. n : u[i] = q[i]
  <2>1. 1 \in Int /\ n \in Int
    BY <1>3
  <2>2. /\ u \in Seq(S) /\ Len(u) = IF 1 <= n THEN n - 1 + 1 ELSE 0
        /\ \A i \in 1 .. n - 1 + 1 : u[i] = q[1 + i - 1]
    BY ONLY <1>4, <2>1, SubSeqProperties
  <2> QED BY <1>3, <2>2
<1> HIDE DEF u
<1>6. u = p
  BY <1>1, <1>3, <1>5, SeqEqual DEF n
<1>7. SubSeq(p, 1, n) = p
  BY <1>1, SubSeqFull DEF n
<1> QED BY <1>3, <1>6, <1>7, LenProperties DEF IsPrefix, n, u

-----------------------------------------------------------------------------
(* It holds *)

\* The bytes sent, and what they read as.
LEMMA WriterBytes ==
  ASSUME WriterInv
  PROVE  /\ sent \in Seq(Reader!Byte) /\ Len(sent) \in Nat
         /\ Writer!Passes(sent, written)
<1>1. Writer!Typed /\ Writer!Passes(sent, written)
  BY DEF WriterInv, Writer!SentTypes, Writer!ReadTypes, Writer!FormTypes, Writer!TypeInv, Writer!GoesOut
<1>2. sent \in Seq(Writer!Byte)
  BY <1>1 DEF Writer!Typed, Writer!BytesOK
<1> QED BY <1>1, <1>2, SameBytes, LenProperties

\* The bytes the unpacker has.
LEMMA ReaderBytes ==
  ASSUME ReaderInv
  PROVE  taken \in Seq(Reader!Byte) /\ unread \in Seq(Reader!Byte)
BY ReaderAssumptions, Reader!BytesIn DEF ReaderInv, Reader!Inv, Reader!TypeInv

\* In the beginning nothing was sent and nothing came.
LEMMA Beginning == Init => StreamInv
<1> SUFFICES ASSUME Init PROVE StreamInv
  OBVIOUS
<1>1. WriterInv
  BY WriterAssumptions, Writer!InitSent DEF Init, WriterInv
<1>2. ReaderInv
  <2>1. Reader!Inv /\ Reader!ReadsInv /\ Reader!PendingInv
    BY ReaderAssumptions, Reader!InitInv, Reader!InitReads DEF Init
  <2>2. within = "no" /\ pc = Reader!Idle /\ lost = FALSE
    BY DEF Init, Reader!Init
  <2>3. Reader!Streams
    BY <2>2 DEF Reader!Streams, Reader!Idle
  <2> QED BY <2>1, <2>3 DEF ReaderInv
<1>3. sent = <<>> /\ taken = <<>> /\ unread = <<>> /\ carried = 0 /\ got = <<>>
  BY DEF Init, Writer!Init, Reader!Init
<1>4. <<>> \in Seq(Reader!Byte) /\ Len(<<>>) = 0
  BY EmptySeq
<1>5. <<>> \o <<>> = <<>>
  BY ONLY <1>4, ConcatEmptySeq
<1>6. Reader!HoldsItems(<<>>, <<>>)
  BY ReaderAssumptions, Reader!NoneRead
<1>7. Came(<<>>)
  <2>1. \E x \in Seq(Reader!Byte) : <<>> = <<>> \o x
    BY <1>4, <1>5, Zenon
  <2> QED BY <1>3, <1>6, <2>1, Zenon DEF Came
<1>8. SubSeq(sent, 1, carried) = <<>>
  BY <1>3, SubSeqEmpty
<1>9. carried \in 0 .. Len(sent)
  BY <1>3, <1>4
<1>10. <<>> \o (taken \o unread) = SubSeq(sent, 1, carried)
  BY <1>3, <1>5, <1>8
<1>11. Follows(<<>>)
  BY <1>10 DEF Follows
<1>12. Between
  BY <1>7, <1>9, <1>11 DEF Between
<1> QED BY <1>1, <1>2, <1>12 DEF StreamInv

\* The packer only adds bytes behind those that were sent.
LEMMA WritesKeeps ==
  ASSUME Writer!PlainSimples, Writer!SimplesFit, StreamInv, Writes
  PROVE  StreamInv'
<1>1. /\ Writer!Sends /\ Writer!Next /\ UNCHANGED reader /\ carried' = carried /\ got' = got
  BY DEF Writes, Writer!Sends, Writer!Next
<1>2. WriterInv'
  BY <1>1, WriterAssumptions, Writer!SendsSent DEF StreamInv, WriterInv
<1>3. ReaderInv'
  <2>1. UNCHANGED Reader!vars
    BY <1>1 DEF reader, Reader!vars, Reader!reader
  <2>2. Reader!Inv' /\ Reader!PendingInv'
    BY <2>1, ReaderAssumptions, Reader!NextInv, Reader!NextPending DEF StreamInv, ReaderInv
  <2>3. Reader!ReadsInv'
    BY <2>1, ReaderAssumptions, Reader!StaysReads DEF StreamInv, ReaderInv
  <2>4. Reader!Streams'
    BY <1>1 DEF StreamInv, ReaderInv, Reader!Streams, reader
  <2> QED BY <2>2, <2>3, <2>4 DEF ReaderInv
<1>4. sent \in Seq(Reader!Byte) /\ Len(sent) \in Nat
  BY WriterBytes DEF StreamInv
<1>5. PICK x \in Seq(Reader!Byte) : sent' = sent \o x
  <2>1. Writer!Typed
    BY DEF StreamInv, WriterInv, Writer!SentTypes, Writer!ReadTypes, Writer!FormTypes, Writer!TypeInv
  <2>2. \E x \in Seq(Writer!Byte) : sent' = sent \o x
    BY <1>1, <2>1, WriterAssumptions, Writer!SentGrows
  <2> QED BY <2>2, SameBytes
<1>6. Len(sent') = Len(sent) + Len(x) /\ Len(x) \in Nat
  BY <1>4, <1>5, ConcatProperties, LenProperties
<1>7. PICK d : Came(d) /\ Follows(d)
  BY DEF StreamInv, Between
<1>8. Came(d)'
  <2>1. PICK y \in Seq(Reader!Byte) : sent = d \o y
    BY <1>7 DEF Came
  <2>2. d \in Seq(Reader!Byte)
    BY <1>7 DEF Came, Reader!HoldsItems
  <2>3. sent' = d \o (y \o x)
    BY <1>5, <2>1, <2>2, ConcatAssociative
  <2>4. y \o x \in Seq(Reader!Byte)
    BY ONLY <1>5, <2>1, ConcatProperties
  <2> QED BY <1>1, <1>7, <2>3, <2>4 DEF Came
<1>9. carried \in 0 .. Len(sent)
  BY DEF StreamInv, Between
<1>10. SubSeq(sent', 1, carried) = SubSeq(sent, 1, carried)
  <2>1. CASE carried = 0
    BY <2>1, SubSeqEmpty
  <2>2. CASE carried # 0
    <3>1. 1 \in 1 .. Len(sent) /\ carried \in 1 .. Len(sent)
      BY <1>4, <1>9, <2>2
    <3> QED BY <1>4, <1>5, <3>1, SubSeqOfConcat1
  <2> QED BY <2>1, <2>2
<1>11. taken' = taken /\ unread' = unread /\ lost' = lost
  BY <1>1 DEF reader
<1>12. carried' \in 0 .. Len(sent')
  BY <1>1, <1>4, <1>6, <1>9
<1>13. Follows(d)'
  BY <1>1, <1>7, <1>10, <1>11 DEF Follows
<1>14. Between'
  BY <1>8, <1>12, <1>13 DEF Between
<1> QED BY <1>2, <1>3, <1>14 DEF StreamInv

\* Steps of the reader change nothing of the packer.
LEMMA WriterStays ==
  ASSUME Writer!PlainSimples, Writer!SimplesFit, WriterInv, UNCHANGED writer
  PROVE  WriterInv'
<1>1. UNCHANGED Writer!vars
  BY DEF writer, Writer!vars
<1> QED BY <1>1, WriterAssumptions, Writer!SentStays DEF WriterInv

\* Nor do steps that move no byte change what lies between the two.
LEMMA BetweenStays ==
  ASSUME Between, UNCHANGED <<sent, taken, unread, lost, carried, got>>
  PROVE  Between'
<1>1. PICK d : Came(d) /\ Follows(d)
  BY DEF Between
<1>2. Came(d)'
  BY <1>1 DEF Came
<1>3. Follows(d)'
  BY ONLY <1>1, UNCHANGED <<sent, taken, unread, lost, carried>> DEF Follows
<1>4. carried' \in 0 .. Len(sent')
  BY DEF Between
<1> QED BY <1>2, <1>3, <1>4 DEF Between

\* feed_each appends the next bytes of the stream to what the unpacker has.
LEMMA ReceivesKeeps ==
  ASSUME Writer!PlainSimples, Writer!SimplesFit, StreamInv, NEW n \in 1 .. Len(sent) - carried, Receives(n)
  PROVE  StreamInv'
<1>1. /\ Reader!FeedEach(SubSeq(sent, carried + 1, carried + n))
      /\ carried' = carried + n /\ UNCHANGED writer /\ got' = got
  BY DEF Receives
<1>2. PICK b : b = SubSeq(sent, carried + 1, carried + n)
  OBVIOUS
<1>3. WriterInv' /\ sent' = sent
  BY <1>1, WriterStays DEF StreamInv, writer
<1>4. sent \in Seq(Reader!Byte) /\ Len(sent) \in Nat /\ carried \in 0 .. Len(sent)
  BY WriterBytes DEF StreamInv, Between
<1>5. taken \in Seq(Reader!Byte) /\ unread \in Seq(Reader!Byte)
  BY ReaderBytes DEF StreamInv
<1>6. /\ SubSeq(sent, 1, carried) \o b = SubSeq(sent, 1, carried + n)
      /\ b \in Seq(Reader!Byte) /\ carried + n \in 0 .. Len(sent)
  <2> DEFINE m == carried + n
  <2>1. /\ 1 \in 1 .. Len(sent) + 1 /\ carried \in 1 - 1 .. Len(sent) /\ m \in carried .. Len(sent)
        /\ carried + 1 \in Int /\ m \in Int /\ m \in 0 .. Len(sent)
    BY <1>4
  <2>2. \A i \in carried + 1 .. m : sent[i] \in Reader!Byte
    <3>1. \A i \in 1 .. Len(sent) : sent[i] \in Reader!Byte
      BY <1>4, ElementOfSeq
    <3> QED BY <1>4, <2>1, <3>1
  <2> HIDE DEF m
  <2>3. SubSeq(sent, 1, carried) \o SubSeq(sent, carried + 1, m) = SubSeq(sent, 1, m)
    BY <1>4, <2>1, ConcatAdjacentSubSeq
  <2>4. SubSeq(sent, carried + 1, m) \in Seq(Reader!Byte)
    BY <2>1, <2>2, SubSeqProperties
  <2> QED BY <1>2, <2>1, <2>3, <2>4 DEF m
<1>7. b \in Seq(0 .. 255)
  BY <1>6 DEF Reader!Byte
<1>8. Reader!FeedEach(b)
  BY <1>1, <1>2
<1>9. Reader!Next
  BY <1>7, <1>8, Zenon DEF Reader!Next
<1>10. /\ unread' = unread \o b /\ taken' = taken /\ lost' = lost /\ ~lost /\ within' = within
      /\ pc = Reader!Idle /\ pc' = [Reader!Idle EXCEPT !.op = "each"]
      /\ UNCHANGED Reader!reader
  BY <1>8 DEF Reader!FeedEach
<1>11. ReaderInv'
  <2>1. Reader!Inv' /\ Reader!PendingInv'
    BY <1>9, ReaderAssumptions, Reader!NextInv, Reader!NextPending DEF StreamInv, ReaderInv
  <2>2. Reader!RubyRuns /\ pc'.r \in {"start", "yield"}
    BY <1>10 DEF Reader!RubyRuns, Reader!Idle
  <2>3. Reader!ReadsInv'
    BY <1>10, <2>2, ReaderAssumptions, Reader!QuietReads DEF StreamInv, ReaderInv
  <2>4. Reader!Streams'
    BY <1>10 DEF StreamInv, ReaderInv, Reader!Streams, Reader!Idle
  <2> QED BY <2>1, <2>3, <2>4 DEF ReaderInv
<1>12. PICK d : Came(d) /\ Follows(d)
  BY DEF StreamInv, Between
<1>13. Came(d)'
  BY <1>1, <1>3, <1>12 DEF Came
<1>14. d \o (taken' \o unread') = SubSeq(sent', 1, carried')
  <2> DEFINE p == taken \o unread
  <2>1. b \in Seq(Reader!Byte)
    BY <1>6
  <2>2. taken' \o unread' = p \o b
    <3>1. (taken \o unread) \o b = taken \o (unread \o b)
      BY ONLY <1>5, <2>1, ConcatAssociative
    <3> QED BY <1>10, <3>1
  <2>3. p \in Seq(Reader!Byte) /\ d \in Seq(Reader!Byte)
    BY <1>5, <1>12, ConcatProperties DEF Came, Reader!HoldsItems
  <2>4. d \o p = SubSeq(sent, 1, carried)
    BY <1>10, <1>12, Zenon DEF Follows
  <2> HIDE DEF p
  <2>5. d \o (p \o b) = (d \o p) \o b
    BY ONLY <2>1, <2>3, ConcatAssociative
  <2>6. (d \o p) \o b = SubSeq(sent', 1, carried')
    BY <1>1, <1>3, <1>6, <2>4
  <2>7. d \o (p \o b) = SubSeq(sent', 1, carried')
    BY ONLY <2>5, <2>6
  <2> QED BY ONLY <2>2, <2>7, Zenon
<1>15. Between'
  <2>1. carried' \in 0 .. Len(sent')
    BY <1>1, <1>3, <1>6
  <2>2. Follows(d)'
    BY <1>14 DEF Follows
  <2> QED BY <1>13, <2>1, <2>2 DEF Between
<1> QED BY <1>3, <1>11, <1>15 DEF StreamInv

\* The block returns, and the next object is up.
LEMMA KeepsKeeps ==
  ASSUME Writer!PlainSimples, Writer!SimplesFit, StreamInv, Keeps
  PROVE  StreamInv'
<1>1. /\ Reader!BlockReturns /\ carried' = carried /\ UNCHANGED writer /\ got' = got
  BY DEF Keeps
<1>2. WriterInv' /\ sent' = sent
  BY <1>1, WriterStays DEF StreamInv, writer
<1>3. /\ Reader!Yields /\ pc' = [pc EXCEPT !.r = "start"] /\ UNCHANGED <<unread, taken, within, lost>>
      /\ UNCHANGED Reader!reader
  BY <1>1 DEF Reader!BlockReturns
<1>4. pc'.op = pc.op /\ pc'.r = "start" /\ pc'.inEach = pc.inEach
  <2>1. pc \in Reader!Calls
    BY DEF StreamInv, ReaderInv, Reader!Inv, Reader!TypeInv, Reader!ControlInv
  <2> QED BY <1>3, <2>1 DEF Reader!Calls
<1>5. ReaderInv'
  <2>1. Reader!Next
    BY <1>1, Zenon DEF Reader!Next
  <2>2. Reader!Inv' /\ Reader!PendingInv'
    BY <2>1, ReaderAssumptions, Reader!NextInv, Reader!NextPending DEF StreamInv, ReaderInv
  <2>3. Reader!RubyRuns /\ pc'.r \in {"start", "yield"}
    BY <1>3, <1>4 DEF Reader!RubyRuns
  <2>4. Reader!ReadsInv'
    BY <1>3, <2>3, ReaderAssumptions, Reader!QuietReads DEF StreamInv, ReaderInv
  <2>5. Reader!Streams'
    BY <1>3, <1>4 DEF StreamInv, ReaderInv, Reader!Streams
  <2> QED BY <2>2, <2>4, <2>5 DEF ReaderInv
<1>6. Between'
  BY <1>1, <1>2, <1>3, BetweenStays DEF StreamInv
<1> QED BY <1>2, <1>5, <1>6 DEF StreamInv

\* A turn of the unpacker yields the object of the bytes it has taken, which
\* join those of the objects before, or it keeps all its bytes.  It meets no
\* map with a count of eight bytes: a reading of what was sent meets none.
LEMMA ReadsKeeps ==
  ASSUME ~SymbolizeKeys, Writer!PlainSimples, Writer!SimplesFit, StreamInv, Reads
  PROVE  StreamInv'
<1>1. /\ Reader!Step /\ UNCHANGED writer /\ carried' = carried
      /\ got' = IF Yielded THEN Append(got, out'.v) ELSE got
  BY DEF Reads
<1>2. WriterInv' /\ sent' = sent
  BY <1>1, WriterStays DEF StreamInv, writer
<1>3. /\ sent \in Seq(Reader!Byte) /\ Len(sent) \in Nat /\ carried \in 0 .. Len(sent)
      /\ Writer!Passes(sent, written)
  BY WriterBytes DEF StreamInv, Between
<1>4. /\ Reader!Inv /\ Reader!PendingInv /\ Reader!ReadsInv /\ Reader!Streams
      /\ taken \in Seq(Reader!Byte) /\ unread \in Seq(Reader!Byte)
  BY ReaderBytes DEF StreamInv, ReaderInv
<1>5. /\ Reader!Streams' /\ ~lost
      /\ Yielded => ~lost' /\ taken' = <<>> /\ unread' = unread /\ Reader!HoldsItems(taken, <<out'.v>>)
      /\ ~Yielded => taken' \o unread' = taken \o unread
  BY <1>1, <1>4, ReaderAssumptions, Reader!EachReads DEF Yielded
<1>6. PICK d : Came(d) /\ d \o (taken \o unread) = SubSeq(sent, 1, carried)
  BY <1>5 DEF StreamInv, Between, Follows
<1> DEFINE z == SubSeq(sent, 1, carried)
           y == SubSeq(sent, carried + 1, Len(sent))
<1>7. d \in Seq(Reader!Byte) /\ z = d \o (taken \o unread) /\ Reader!HoldsItems(d, got)
  BY <1>6 DEF Came, Reader!HoldsItems
<1>8. z \in Seq(Reader!Byte) /\ y \in Seq(Reader!Byte) /\ sent = z \o y
  BY <1>3, CutConcat, Zenon
<1>9. Reader!NoLongMap
  <2> SUFFICES ASSUME Reader!AtHead, Reader!Ib = 187 PROVE FALSE
    BY DEF Reader!NoLongMap
  <2>1. Reader!AtHead /\ Reader!Ib = 187
    OBVIOUS
  <2> HIDE DEF z, y
  <2>2. \E q : Reader!Reaches(z, q) /\ Reader!LongMap(z, q)
    <3>1. Reader!MeetsLongMap(d \o (taken \o unread))
      BY ONLY <1>4, <1>7, <2>1, ReaderAssumptions, Reader!LongMapComes, SMT
    <3>2. Reader!MeetsLongMap(z)
      BY ONLY <1>7, <3>1, Zenon
    <3> QED BY <3>2, Zenon DEF Reader!MeetsLongMap
  <2>3. PICK q : Writer!Reaches(z, q) /\ Writer!LongMap(z, q)
    BY <2>2, SameReaches, SameLongMap
  <2>4. Writer!Passes(z, written)
    BY <1>3, <1>8, PassesFirst
  <2> QED BY <2>3, <2>4 DEF Writer!Passes
<1>10. ReaderInv'
  <2>1. Reader!Inv' /\ Reader!PendingInv'
    BY <1>1, <1>4, ReaderAssumptions, Reader!StepKeeps, Reader!StepPending
  <2>2. Reader!ReadsInv'
    BY <1>1, <1>4, <1>9, ReaderAssumptions, ReaderMethods, Reader!StepReads
  <2> QED BY <1>5, <2>1, <2>2 DEF ReaderInv
<1> HIDE DEF z, y
<1>11. CASE Yielded
  <2>1. PICK e : e = d \o taken
    OBVIOUS
  <2>2. e \in Seq(Reader!Byte) /\ Reader!HoldsItems(e, Append(got, out'.v))
    <3> DEFINE v == out'.v
    <3>1. Reader!HoldsItems(d, got) /\ Reader!HoldsItems(taken, <<v>>)
      BY <1>5, <1>7, <1>11
    <3> HIDE DEF v
    <3>2. Reader!HoldsItems(e, Append(got, v))
      BY <2>1, <3>1, ReaderAssumptions, Reader!ItemBehind
    <3> QED BY <3>2 DEF v, Reader!HoldsItems
  <2>3. e \o unread = z
    <3>1. (d \o taken) \o unread = d \o (taken \o unread)
      BY <1>4, <1>7, ConcatAssociative
    <3> QED BY ONLY <1>7, <2>1, <3>1
  <2>4. sent = e \o (unread \o y) /\ unread \o y \in Seq(Reader!Byte)
    <3>1. (e \o unread) \o y = e \o (unread \o y) /\ unread \o y \in Seq(Reader!Byte)
      BY ONLY <1>4, <1>8, <2>2, ConcatAssociative, ConcatProperties
    <3> QED BY ONLY <1>8, <2>3, <3>1
  <2>5. Came(e)'
    <3>1. got' = Append(got, out'.v) /\ sent' = sent
      BY <1>1, <1>2, <1>11
    <3>2. \E x \in Seq(Reader!Byte) : sent = e \o x
      <4>1. PICK x : x = unread \o y
        OBVIOUS
      <4> QED BY ONLY <2>4, <4>1, Zenon
    <3> QED BY ONLY <2>2, <3>1, <3>2 DEF Came
  <2>6. taken' \o unread' = unread
    BY <1>4, <1>5, <1>11, ConcatEmptySeq
  <2>7. e \o (taken' \o unread') = SubSeq(sent', 1, carried')
    <3>1. z = SubSeq(sent', 1, carried')
      BY <1>1, <1>2 DEF z
    <3> QED BY ONLY <2>3, <2>6, <3>1, Zenon
  <2>8. Between'
    <3>1. carried' \in 0 .. Len(sent')
      BY <1>1, <1>2, <1>3
    <3>2. Follows(e)'
      BY <2>7 DEF Follows
    <3> QED BY <2>5, <3>1, <3>2 DEF Between
  <2> QED BY <1>2, <1>10, <2>8 DEF StreamInv
<1>12. CASE ~Yielded
  <2>1. Came(d)'
    BY <1>1, <1>2, <1>6, <1>12 DEF Came
  <2>2. d \o (taken' \o unread') = SubSeq(sent', 1, carried')
    <3>1. d \o (taken \o unread) = SubSeq(sent', 1, carried')
      BY <1>1, <1>2, <1>6
    <3>2. taken' \o unread' = taken \o unread
      BY <1>5, <1>12
    <3> QED BY ONLY <3>1, <3>2, Zenon
  <2>3. Between'
    <3>1. carried' \in 0 .. Len(sent')
      BY <1>1, <1>2, <1>3
    <3>2. Follows(d)'
      BY <2>2 DEF Follows
    <3> QED BY <2>1, <3>1, <3>2 DEF Between
  <2> QED BY <1>2, <1>10, <2>3 DEF StreamInv
<1> QED BY <1>11, <1>12

\* Every step keeps the invariant.
LEMMA NextStream ==
  ASSUME ~SymbolizeKeys, Writer!PlainSimples, Writer!SimplesFit, StreamInv, [Next]_vars
  PROVE  StreamInv'
<1>1. CASE UNCHANGED vars
  <2>1. UNCHANGED <<writer, carried, got>> /\ UNCHANGED Reader!vars
    BY <1>1 DEF vars, reader, Reader!vars
  <2>2. WriterInv'
    BY <2>1, WriterStays DEF StreamInv
  <2>3. ReaderInv'
    <3>1. Reader!Inv' /\ Reader!PendingInv'
      BY <2>1, ReaderAssumptions, Reader!NextInv, Reader!NextPending DEF StreamInv, ReaderInv
    <3>2. Reader!ReadsInv'
      BY <2>1, ReaderAssumptions, Reader!StaysReads DEF StreamInv, ReaderInv
    <3>3. Reader!Streams'
      BY <2>1 DEF StreamInv, ReaderInv, Reader!Streams, Reader!vars
    <3> QED BY <3>1, <3>2, <3>3 DEF ReaderInv
  <2>4. Between'
    BY <1>1, BetweenStays DEF StreamInv, vars, writer, reader
  <2> QED BY <2>2, <2>3, <2>4 DEF StreamInv
<1>2. CASE Next
  BY <1>2, WritesKeeps, ReceivesKeeps, ReadsKeeps, KeepsKeeps DEF Next, ReceivesSome
<1> QED BY <1>1, <1>2

\* The objects that came are the items of first bytes of those sent, and a
\* reading of these comes to nothing but the values written.
LEMMA ComesInOrder == StreamInv => InOrder
<1> SUFFICES ASSUME StreamInv PROVE InOrder
  OBVIOUS
<1>1. PICK d : Came(d)
  BY DEF StreamInv, Between
<1> DEFINE q == Reader!At(Len(d) + 1, <<>>, got)
<1>2. d \in Seq(Reader!Byte) /\ Reader!Reaches(d, q)
  BY <1>1 DEF Came, Reader!HoldsItems
<1>3. PICK x \in Seq(Reader!Byte) : sent = d \o x
  BY <1>1 DEF Came
<1>4. q.items = got
  BY DEF Reader!At
<1> HIDE DEF q
<1>5. Writer!Passes(d, written)
  BY <1>2, <1>3, WriterBytes, PassesFirst DEF StreamInv
<1>6. Writer!Leads(got, written)
  BY <1>2, <1>4, <1>5, SameReaches DEF Writer!Passes
<1> QED BY <1>6, LeadsPrefix DEF InOrder

-----------------------------------------------------------------------------
(* The theorem *)

\* The objects that the unpacker yields are the values that the packer was
\* given, in order and no others: whatever the values are and however deep,
\* wherever the packer flushes, its callbacks write and its exceptions cut a
\* value short, and however the stream is cut for feed_each.  The unpacker
\* leaves the keys of maps strings; a CBOR::Simple is one that fits its byte
\* and does not stand for false, true or nil.
THEOREM ArrivesInOrder ==
  ASSUME ~SymbolizeKeys, \A v \in Values : v[1] = "simple" => v[2] \in (0 .. 255) \ {20, 21, 22}
  PROVE  Spec => []InOrder
<1>1. Writer!PlainSimples /\ Writer!SimplesFit
  BY WriterAssumptions, Writer!SimplesAre
<1>2. Init => StreamInv
  BY Beginning
<1>3. StreamInv /\ [Next]_vars => StreamInv'
  BY <1>1, NextStream
<1> QED BY <1>2, <1>3, ComesInOrder, PTL DEF Spec
=============================================================================
