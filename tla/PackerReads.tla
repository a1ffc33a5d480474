----------------------------- MODULE PackerReads -----------------------------
(***************************************************************************)
(* Proof that the bytes a packer has written read back as the values it    *)
(* was given, for any objects, any nesting of calls and any changes that   *)
(* foreign to_cbor methods make to the containers.                         *)
(***************************************************************************)
EXTENDS PackerProofs

-----------------------------------------------------------------------------
(* What a reader makes of bytes *)

\* Wherever an object may come, the bytes x are read as v.
ReadAs(x, v) ==
  \A s, o, w : Ready(s, o, w) => Reaches(s \o x, With(At(Len(s \o x) + 1, o, w), v))

\* Wherever an object may come, the bytes x are read as the beginning of c.
OpensAs(x, c) ==
  \A s, o, w : Ready(s, o, w) => Reaches(s \o x, At(Len(s \o x) + 1, Append(o, c), w))

\* a head that is complete, with the major type and the number n
Heading(h, type, n) ==
  /\ HeadFirst(h) /\ Len(h) = 1 + ArgWidth(h[1]) /\ MajorType(h[1]) = type
  /\ Significant(ArgumentAt(h, 1)) = n

\* The packer writes such.
LEMMA HeadingWritten ==
  ASSUME NEW type, NEW n, type \in 0 .. 7, n \in Seq(Byte), Len(n) <= 8, n # <<>> => n[1] # 0
  PROVE  Heading(WriteHead(type, n), type, n) /\ WriteHead(type, n)[1] = 32 * type + AiOf(n)
<1> DEFINE h == WriteHead(type, n)
           ib == 32 * type + AiOf(n)
           p == IF Width(n) = 0 THEN <<>> ELSE Padded(n, Width(n))
<1>1. HeadOf(h, type, n)
  BY HeadWritten
<1>2. AI(ib) = AiOf(n) /\ AiOf(n) \in Nat /\ AiOf(n) <= 27
  BY FirstByte, AiIs
<1>3. h = <<ib>> \o p
  BY HeadIs
<1>4. p \in Seq(Byte)
  <2>1. Width(n) \in Nat
    BY WidthOf
  <2> DEFINE k == Width(n)
  <2> HIDE DEF k
  <2>2. Padded(n, k) \in Seq(Byte) /\ <<>> \in Seq(Byte)
    BY <2>1, PaddedType, EmptySeq DEF k
  <2> QED BY <2>2 DEF k
<1>5. ib \in Byte
  <2> DEFINE a == AiOf(n)
  <2>1. a \in Nat /\ a <= 27
    BY <1>2
  <2> HIDE DEF a
  <2>2. 32 * type + a \in Byte
    BY <2>1 DEF Byte
  <2> QED BY <2>2 DEF a
<1> HIDE DEF h, ib, p
<1>6. h[1] = ib
  <2> DEFINE b == <<ib>>
  <2>1. b \in Seq(Byte) /\ Len(b) = 1 /\ b[1] = ib
    BY <1>5, OneByte
  <2> HIDE DEF b
  <2>2. 1 \in 1 .. Len(b) + Len(p) /\ 1 <= Len(b)
    BY <1>4, <2>1, LenProperties
  <2>3. (b \o p)[1] = b[1]
    BY ONLY <1>4, <2>1, <2>2, ConcatProperties
  <2> QED BY <1>3, <2>1, <2>3 DEF b
<1> DEFINE w == ArgWidth(h[1])
<1>7. h \in Seq(Byte) /\ Len(h) = 1 + w /\ MajorType(h[1]) = type
      /\ Significant(Argument(h[1], Behind(h))) = n
  BY <1>1 DEF HeadOf
<1>8. w \in Nat
  BY WidthAt
<1>9. HeadFirst(h)
  <2>1. h # <<>> /\ 1 + w <= Len(h)
    BY <1>7, <1>8, EmptySeq
  <2>2. AI(h[1]) < 28
    BY <1>2, <1>6
  <2> QED BY <1>7, <2>1, <2>2 DEF HeadFirst
<1>10. Significant(ArgumentAt(h, 1)) = n
  BY <1>7, ArgBehind DEF ArgumentAt
<1> QED BY <1>6, <1>7, <1>9, <1>10 DEF Heading, h, ib

\* Lengths, counts and tags as the packer writes them.
LEMMA CountWritten ==
  ASSUME NEW type, NEW n, type \in 0 .. 7, n \in Lengths
  PROVE  LET h == WriteHead(type, Number(n))
         IN  Heading(h, type, Number(n)) /\ Count(ArgumentAt(h, 1)) = n
             /\ h[1] = 32 * type + AiOf(Number(n))
<1> DEFINE q == Number(n)
<1>1. q \in Seq(Byte) /\ Len(q) <= 3 /\ (q # <<>> => q[1] # 0) /\ CountOf(q) = n
  BY NumberType, NumberIs
<1>2. Len(q) <= 8
  BY <1>1, LenProperties
<1> HIDE DEF q
<1> DEFINE h == WriteHead(type, q)
<1>3. Heading(h, type, q) /\ h[1] = 32 * type + AiOf(q)
  BY <1>1, <1>2, HeadingWritten
<1> HIDE DEF h
<1>4. Count(ArgumentAt(h, 1)) = n
  BY <1>1, <1>3 DEF Heading, Count
<1> QED BY <1>3, <1>4 DEF h, q

\* An integer, a simple value or a float is read by its head.
LEMMA ScalarRead ==
  ASSUME NEW x, NEW v, HeadFirst(x), Len(x) = 1 + ArgWidth(x[1]),
         MajorType(x[1]) \in {0, 1, 7},
         MajorType(x[1]) = 0 => v = Plus(ArgumentAt(x, 1)),
         MajorType(x[1]) = 1 => v = Minus(ArgumentAt(x, 1)),
         MajorType(x[1]) = 7 => v = SimpleValue(AI(x[1]), ArgumentAt(x, 1))
  PROVE  ReadAs(x, v)
BY ReadsScalar DEF ReadAs

\* The container that begins with a head of this type and number.
Opened(type, n) ==
  CASE type = ArrayType -> Container(ArrayType, n, 0)
    [] type = MapType -> Container(MapType, 2 * n, 0)
    [] type = TagType -> Container(TagType, 1, n)

\* It is entered.
LEMMA OpeningRead ==
  ASSUME NEW type, NEW n, type \in {ArrayType, MapType, TagType}, n \in Lengths
  PROVE  OpensAs(WriteHead(type, Number(n)), Opened(type, n))
<1> DEFINE h == WriteHead(type, Number(n))
           c == Opened(type, n)
<1>1. type \in {4, 5, 6} /\ type \in 0 .. 7
  BY DEF ArrayType, MapType, TagType
<1>2. Heading(h, type, Number(n)) /\ Count(ArgumentAt(h, 1)) = n
  BY <1>1, CountWritten
<1>3. /\ type = 4 => c = Container(4, n, 0)
      /\ type = 5 => c = Container(5, 2 * n, 0)
      /\ type = 6 => c = Container(6, 1, n)
  <2>1. type = 4 => c = Container(4, n, 0)
    BY DEF Opened, ArrayType, MapType, TagType
  <2>2. type = 5 => c = Container(5, 2 * n, 0)
    <3> SUFFICES ASSUME type = 5 PROVE c = Container(5, 2 * n, 0)
      OBVIOUS
    <3>1. type # ArrayType /\ type = MapType /\ type # TagType
      BY DEF ArrayType, MapType, TagType
    <3>2. c = Container(MapType, 2 * n, 0)
      BY <3>1, Zenon DEF Opened
    <3> QED BY <3>2 DEF MapType
  <2>3. type = 6 => c = Container(6, 1, n)
    <3> SUFFICES ASSUME type = 6 PROVE c = Container(6, 1, n)
      OBVIOUS
    <3>1. type # ArrayType /\ type # MapType /\ type = TagType
      BY DEF ArrayType, MapType, TagType
    <3>2. c = Container(TagType, 1, n)
      BY <3>1, Zenon DEF Opened
    <3> QED BY <3>2 DEF TagType
  <2> QED BY <2>1, <2>2, <2>3
<1> HIDE DEF h, c
<1>4. /\ HeadFirst(h) /\ Len(h) = 1 + ArgWidth(h[1]) /\ MajorType(h[1]) \in {4, 5, 6}
      /\ MajorType(h[1]) = 4 => c = Container(4, Count(ArgumentAt(h, 1)), 0)
      /\ MajorType(h[1]) = 5 => c = Container(5, 2 * Count(ArgumentAt(h, 1)), 0)
      /\ MajorType(h[1]) = 6 => c = Container(6, 1, Count(ArgumentAt(h, 1)))
  BY <1>1, <1>2, <1>3 DEF Heading
<1>6. h[1] # 187
  <2> DEFINE a == AiOf(Number(n))
  <2>1. a \in 0 .. 26
    <3> DEFINE q == Number(n)
               W == {w \in {1, 2, 4, 8} : Len(q) <= w}
    <3>1. q \in Seq(Byte) /\ Len(q) <= 3
      BY NumberType
    <3> HIDE DEF q
    <3> DEFINE l == Len(q)
    <3>5. l \in Nat /\ l <= 3
      BY <3>1, LenProperties
    <3> HIDE DEF l
    <3>2. l <= 8 /\ 4 \in W /\ W \subseteq Nat /\ W # {}
      <4>1. l <= 4 /\ l <= 8
        BY <3>5
      <4>2. 4 \in W
        BY <4>1 DEF l
      <4> QED BY <4>1, <4>2
    <3>3. Min(W) \in W /\ Min(W) <= 4
      BY <3>2, MinOfNaturals
    <3>4. Width(q) # 8
      <4> DEFINE m == Min(W)
      <4>1. m # 8 /\ Width(q) = IF Immediate(q) THEN 0 ELSE m
        BY <3>3 DEF Width
      <4> HIDE DEF m
      <4> QED BY <4>1
    <3>6. q \in Seq(Byte) /\ Len(q) <= 8
      BY <3>1, <3>2 DEF l
    <3>7. AiOf(q) \in Nat /\ AiOf(q) <= 26
      BY <3>4, <3>6, AiIs
    <3> QED BY <3>7 DEF q
  <2>2. h[1] = 32 * type + a
    BY <1>1, CountWritten DEF h
  <2> HIDE DEF a
  <2>3. \A t \in {4, 5, 6} : 32 * t + a # 187
    BY <2>1
  <2> QED BY <1>1, <2>2, <2>3
<1>5. OpensAs(h, c)
  BY <1>4, <1>6, ReadsHead DEF OpensAs
<1> QED BY <1>5 DEF h, c

\* A string with its head.
LEMMA StringRead ==
  ASSUME NEW type, NEW b, type \in {ByteString, TextString}, b \in Seq(Byte), Len(b) \in Lengths
  PROVE  ReadAs(WriteHead(type, Number(Len(b))) \o b, StrOf(type, b))
<1> DEFINE n == Len(b)
           h == WriteHead(type, Number(n))
<1>1. type \in {2, 3} /\ type \in 0 .. 7 /\ n \in Lengths
  BY DEF ByteString, TextString
<1> HIDE DEF n
<1>2. Heading(h, type, Number(n)) /\ Count(ArgumentAt(h, 1)) = n
  BY <1>1, CountWritten
<1> HIDE DEF h
<1>3. /\ HeadFirst(h) /\ Len(h) = 1 + ArgWidth(h[1]) /\ MajorType(h[1]) = type
      /\ MajorType(h[1]) \in {2, 3} /\ Count(ArgumentAt(h, 1)) = Len(b)
  BY <1>1, <1>2 DEF Heading, n
<1>4. ReadAs(h \o b, StrOf(MajorType(h[1]), b))
  BY <1>3, ReadsString DEF ReadAs
<1> QED BY <1>3, <1>4 DEF h, n

\* A byte that says all there is of a value.
LEMMA ByteRead ==
  ASSUME NEW b, NEW a, a \in 20 .. 22, b = 224 + a
  PROVE  ReadAs(<<b>>, SimpleValue(a, <<a>>))
<1> DEFINE x == <<b>>
           v == SimpleValue(a, <<a>>)
<1>1. MajorType(b) = 7 /\ AI(b) = a /\ AI(b) \in 20 .. 22 /\ b \in Byte
  BY DEF MajorType, AI, Byte
<1>2. ArgWidth(b) = 0
  BY <1>1 DEF ArgWidth
<1>3. x \in Seq(Byte) /\ Len(x) = 1 /\ x[1] = b /\ x # <<>>
  BY <1>1, OneByte
<1> HIDE DEF x
<1>4. HeadFirst(x)
  <2>1. ArgWidth(x[1]) = 0 /\ AI(x[1]) \in 20 .. 22
    BY <1>1, <1>2, <1>3
  <2>2. 1 + ArgWidth(x[1]) <= Len(x)
    BY <1>3, <2>1
  <2>3. AI(x[1]) < 28
    BY <2>1
  <2> QED BY <1>3, <2>2, <2>3 DEF HeadFirst
<1>5. ArgumentAt(x, 1) = <<a>>
  BY <1>1, <1>2, <1>3 DEF ArgumentAt, Argument
<1>6. MajorType(x[1]) = 7 /\ v = SimpleValue(AI(x[1]), ArgumentAt(x, 1)) /\ Len(x) = 1 + ArgWidth(x[1])
  BY <1>1, <1>2, <1>3, <1>5
<1> HIDE DEF v
<1>7. MajorType(x[1]) \in {0, 1, 7} /\ MajorType(x[1]) # 0 /\ MajorType(x[1]) # 1
  BY <1>6
<1>8. ReadAs(x, v)
  BY <1>4, <1>6, <1>7, ScalarRead
<1> QED BY <1>8 DEF x, v

\* nil and the booleans.
LEMMA ConstantRead ==
  ReadAs(<<246>>, Nil) /\ ReadAs(<<245>>, <<"bool", TRUE>>) /\ ReadAs(<<244>>, <<"bool", FALSE>>)
<1>1. /\ 22 # 20 /\ 22 # 21 /\ 21 # 20 /\ 21 # 22 /\ 20 # 21 /\ 20 # 22
      /\ 20 \notin 25 .. 27 /\ 21 \notin 25 .. 27 /\ 22 \notin 25 .. 27
  OBVIOUS
<1>2. \A arg : SimpleValue(22, arg) = Nil
  BY <1>1, Zenon DEF SimpleValue
<1>3. \A arg : SimpleValue(21, arg) = <<"bool", TRUE>>
  BY <1>1, Zenon DEF SimpleValue
<1>4. \A arg : SimpleValue(20, arg) = <<"bool", FALSE>>
  BY <1>1, Zenon DEF SimpleValue
<1>5. ReadAs(<<246>>, SimpleValue(22, <<22>>))
  BY ByteRead
<1>6. ReadAs(<<245>>, SimpleValue(21, <<21>>))
  BY ByteRead
<1>7. ReadAs(<<244>>, SimpleValue(20, <<20>>))
  BY ByteRead
<1> QED BY <1>2, <1>3, <1>4, <1>5, <1>6, <1>7, Zenon

\* A float.
LEMMA FloatRead ==
  ASSUME NEW d \in Doubles
  PROVE  ReadAs(FloatBytes(d), <<"float", d>>)
<1> DEFINE h == FloatBytes(d)
           ib == h[1]
           w == ArgWidth(ib)
<1>1. h \in Seq(Byte) /\ <<>> \in Seq(Byte)
  BY FloatType, EmptySeq
<1>2. h \o <<>> = h
  <2> HIDE DEF h
  <2> QED BY ONLY <1>1, ConcatEmptySeq
<1>3. LET s == h \o <<>>
          x == s[1]
          width == ArgWidth(x)
          argument == Argument(x, SubSeq(s, 2, Len(s)))
      IN /\ MajorType(x) = Prim
         /\ SimpleValue(AI(x), argument) = <<"float", d>>
         /\ Len(h) = 1 + width /\ width \in {2, 4, 8}
         /\ width > 2 => \A n \in 0 .. 2 ^ 16 - 1 : FromHalf(n) # d
         /\ width > 4 => \A sign \in {0, 1} : \A e \in 0 .. 255, m \in Upper : Widened(sign, e, m) # d
  BY <1>1, FloatsReadBack
<1> HIDE DEF h
<1>4. /\ MajorType(ib) = 7
      /\ SimpleValue(AI(ib), Argument(ib, Behind(h))) = <<"float", d>>
      /\ Len(h) = 1 + w /\ w \in {2, 4, 8}
  BY <1>2, <1>3 DEF Behind, Prim
<1>5. ArgumentAt(h, 1) = Argument(ib, Behind(h))
  BY <1>1, <1>4, ArgBehind DEF ArgumentAt
<1>6. HeadFirst(h)
  <2>1. AI(ib) \in 25 .. 27
    BY <1>4, WideIs
  <2> QED BY <1>1, <1>4, <2>1, EmptySeq DEF HeadFirst
<1>7. ReadAs(h, <<"float", d>>)
  BY <1>4, <1>5, <1>6, ScalarRead
<1> QED BY <1>7 DEF h

\* An integer of 64 bits at most.
LEMMA FixnumRead ==
  ASSUME NEW n, n \in Seq(Byte), Len(n) <= 8, n # <<>> => n[1] # 0
  PROVE  /\ ReadAs(WriteHead(0, n), <<"int", FALSE, n>>)
         /\ ReadAs(WriteHead(1, n), <<"int", TRUE, n>>)
<1> SUFFICES ASSUME NEW type, type \in {0, 1}, NEW v,
                    type = 0 => v = <<"int", FALSE, n>>, type = 1 => v = <<"int", TRUE, n>>
             PROVE  ReadAs(WriteHead(type, n), v)
  <2>1. 0 \in {0, 1} /\ 1 \in {0, 1} /\ 0 # 1
    OBVIOUS
  <2>2. \A type, v : /\ type \in {0, 1} /\ (type = 0 => v = <<"int", FALSE, n>>)
                     /\ (type = 1 => v = <<"int", TRUE, n>>)
                     => ReadAs(WriteHead(type, n), v)
    OBVIOUS
  <2> QED BY <2>1, <2>2, Zenon
<1> DEFINE h == WriteHead(type, n)
           arg == ArgumentAt(h, 1)
<1>1. type \in 0 .. 7
  OBVIOUS
<1>2. Heading(h, type, n)
  BY <1>1, HeadingWritten
<1> HIDE DEF h
<1>3. HeadFirst(h) /\ Len(h) = 1 + ArgWidth(h[1]) /\ MajorType(h[1]) = type /\ Significant(arg) = n
  BY <1>2 DEF Heading
<1>4. Plus(arg) = <<"int", FALSE, n>> /\ Minus(arg) = <<"int", TRUE, n>>
  BY <1>3, Zenon DEF Plus, Minus, Integer
<1> HIDE DEF arg
<1>5. (type = 0 => v = Plus(arg)) /\ (type = 1 => v = Minus(arg))
  BY <1>4, Zenon
<1>6. MajorType(h[1]) \in {0, 1, 7} /\ MajorType(h[1]) # 7
  BY <1>3
<1>7. ReadAs(h, v)
  BY <1>3, <1>5, <1>6, ScalarRead DEF arg
<1> QED BY <1>7 DEF h

\* The tags of bignums.
LEMMA BigTagRead ==
  ASSUME NEW t, NEW n, n \in {2, 3}, t = 192 + n
  PROVE  OpensAs(<<t>>, Container(TagType, 1, n))
<1> DEFINE x == <<t>>
           c == Container(TagType, 1, n)
<1>1. MajorType(t) = 6 /\ AI(t) = n /\ AI(t) \in 2 .. 3 /\ t \in Byte /\ n \in Byte
  BY DEF MajorType, AI, Byte
<1>2. ArgWidth(t) = 0
  BY <1>1 DEF ArgWidth
<1>3. x \in Seq(Byte) /\ Len(x) = 1 /\ x[1] = t /\ x # <<>>
  BY <1>1, OneByte
<1> HIDE DEF x
<1>4. HeadFirst(x)
  <2>1. ArgWidth(x[1]) = 0 /\ AI(x[1]) \in 2 .. 3
    BY <1>1, <1>2, <1>3
  <2>2. 1 + ArgWidth(x[1]) <= Len(x)
    BY <1>3, <2>1
  <2>3. AI(x[1]) < 28
    BY <2>1
  <2> QED BY <1>3, <2>2, <2>3 DEF HeadFirst
<1>5. ArgumentAt(x, 1) = <<n>>
  BY <1>1, <1>2, <1>3 DEF ArgumentAt, Argument
<1>6. Count(<<n>>) = n
  <2>1. Significant(<<n>>) = <<n>>
    BY <1>1, SignificantOne
  <2> DEFINE b == <<n>>
  <2>2. Len(b) = 1 /\ b[1] = n /\ Len(b) # 0 /\ Len(b) # 2 /\ Len(b) # 3
    OBVIOUS
  <2> HIDE DEF b
  <2>3. CountOf(b) = b[1]
    BY <2>2, Zenon DEF CountOf
  <2> QED BY <2>1, <2>2, <2>3 DEF Count, b
<1>7. /\ MajorType(x[1]) = 6 /\ Len(x) = 1 + ArgWidth(x[1])
      /\ c = Container(6, 1, Count(ArgumentAt(x, 1)))
  BY <1>1, <1>2, <1>3, <1>5, <1>6 DEF TagType
<1> HIDE DEF c
<1>8. MajorType(x[1]) \in {4, 5, 6} /\ MajorType(x[1]) # 4 /\ MajorType(x[1]) # 5
  BY <1>7
<1>9. OpensAs(x, c)
  BY <1>4, <1>7, <1>8, LongMapHead, ReadsHead DEF OpensAs
<1> QED BY <1>9 DEF x, c

\* What comes of the byte string behind it.
LEMMA BignumIs ==
  ASSUME NEW n, n \in Seq(Byte), n # <<>>, n[1] # 0, NEW tag
  PROVE  /\ tag = 2 => ProcessTag(tag, StrOf(ByteString, n)) = <<"int", FALSE, n>>
         /\ tag = 3 => ProcessTag(tag, StrOf(ByteString, n)) = <<"int", TRUE, n>>
<1> DEFINE v == StrOf(ByteString, n)
<1>1. ByteString # TextString
  BY DEF ByteString, TextString
<1>2. v[1] = "str" /\ ~v[2] /\ v[3] = n
  <2>1. v = <<"str", ByteString = TextString, n>>
    BY Zenon DEF StrOf, Str
  <2> HIDE DEF v
  <2>2. v[1] = "str" /\ v[3] = n
    BY <2>1
  <2>3. v[2] = (ByteString = TextString)
    BY <2>1, Zenon
  <2> QED BY <1>1, <2>2, <2>3, Zenon
<1> HIDE DEF v
<1>3. Significant(n) = n
  <2>1. 1 \in 1 .. Len(n)
    BY LenProperties, EmptySeq
  <2>2. Significant(n) = SubSeq(n, 1, Len(n))
    BY <2>1, SignificantFrom
  <2> QED BY <2>2, SubSeqFull
<1>4. /\ 2 \notin {1, 32, 35} /\ 3 \notin {1, 32, 35} /\ 2 # 3 /\ 3 # 2
  OBVIOUS
<1>5. ProcessTag(2, v) = Integer(FALSE, v[3])
  BY <1>2, <1>4, Zenon DEF ProcessTag
<1>6. ProcessTag(3, v) = Integer(TRUE, v[3])
  BY <1>2, <1>4, Zenon DEF ProcessTag
<1>7. Integer(FALSE, v[3]) = <<"int", FALSE, n>> /\ Integer(TRUE, v[3]) = <<"int", TRUE, n>>
  BY <1>2, <1>3, Zenon DEF Integer
<1> QED BY <1>5, <1>6, <1>7, Zenon DEF v

\* What is read first, and then behind it, is read in a row.
LEMMA BignumRead ==
  ASSUME NEW t, NEW tag, NEW n, NEW v, tag \in {2, 3}, t = 192 + tag, n \in Seq(Byte), n # <<>>, n[1] # 0,
         Len(n) \in Lengths, v = ProcessTag(tag, StrOf(ByteString, n))
  PROVE  ReadAs(<<t>> \o (WriteHead(ByteString, Number(Len(n))) \o n), v)
<1> DEFINE y == <<t>>
           h == WriteHead(ByteString, Number(Len(n)))
           z == h \o n
           c == Container(TagType, 1, tag)
           str == StrOf(ByteString, n)
<1>1. OpensAs(y, c)
  BY BigTagRead
<1>2. ReadAs(z, str)
  <2>1. ByteString \in {ByteString, TextString}
    OBVIOUS
  <2> QED BY <2>1, StringRead
<1>3. y \in Seq(Byte) /\ z \in Seq(Byte)
  <2>1. t \in Byte
    BY DEF Byte
  <2>2. y \in Seq(Byte)
    BY <2>1, OneByte
  <2>3. h \in Seq(Byte)
    <3>1. Heading(h, ByteString, Number(Len(n)))
      <4> DEFINE l == Len(n)
      <4>1. ByteString \in 0 .. 7 /\ l \in Lengths
        BY DEF ByteString
      <4> HIDE DEF l
      <4> QED BY <4>1, CountWritten DEF l
    <3> HIDE DEF h
    <3> QED BY <3>1 DEF Heading, HeadFirst
  <2> HIDE DEF h
  <2>4. z \in Seq(Byte)
    BY ONLY <2>3, n \in Seq(Byte), Joined DEF z
  <2> QED BY <2>2, <2>4
<1>4. /\ c.need = 1 /\ c.type = TagType /\ c.tag = tag /\ c.seen = <<>>
      /\ c = [type |-> c.type, need |-> c.need, tag |-> c.tag, seen |-> c.seen]
  BY DEF Container
<1> HIDE DEF y, z, c, str
<1> SUFFICES ASSUME NEW s, NEW o, NEW w, Ready(s, o, w)
             PROVE  LET x == y \o z
                    IN  Reaches(s \o x, With(At(Len(s \o x) + 1, o, w), v))
  BY DEF ReadAs, y, z, h
<1> DEFINE a == s \o y
           k == Len(a \o z) + 1
           p == Append(o, c)
<1>5. s \in Seq(Byte) /\ IsSeq(o) /\ Reaches(s, At(Len(s) + 1, o, w)) /\ AreContainers(o)
  BY ReadyIs DEF Ready, AreContainers
<1>6. a \in Seq(Byte) /\ a \o z \in Seq(Byte) /\ a \o z = s \o (y \o z)
  BY ONLY <1>3, <1>5, Joined, ConcatAssociative
<1>7. Reaches(a, At(Len(a) + 1, p, w))
  BY <1>1 DEF OpensAs
<1> HIDE DEF a
<1>8. IsSeq(p) /\ p # <<>> /\ Last(p) = c /\ Front(p) = o
  BY <1>5, AppendedIs
<1>9. AreContainers(p)
  BY <1>7, ReadyIs
<1> HIDE DEF p
<1>10. Ready(a, p, w)
  <2>1. Waiting(p)
    BY <1>4, <1>8 DEF Waiting, IsFull
  <2> QED BY <1>6, <1>7, <2>1 DEF Ready
<1>11. Reaches(a \o z, With(At(k, p, w), str))
  BY <1>2, <1>10 DEF ReadAs
<1> DEFINE q == Put(p, str)
<1>12. With(At(k, p, w), str) = At(k, q, w)
  BY <1>8, WithIs
<1>13. /\ Front(q) = o /\ q # <<>>
       /\ Last(q) = [c EXCEPT !.seen = Append(c.seen, str)]
  BY <1>8, <1>9, PutIs
<1> HIDE DEF q
<1> DEFINE d == Last(q)
<1>14. d.seen = <<str>> /\ d.need = 1 /\ d.type = TagType /\ d.tag = tag
  BY <1>4, <1>13
<1> HIDE DEF d, k
<1>15. ~Waiting(q)
  <2>1. Len(<<str>>) = 1
    OBVIOUS
  <2> QED BY <1>13, <1>14, <2>1 DEF Waiting, IsFull, d
<1>16. ObjectOf(d) = v
  <2>1. TagType \notin {ByteString, TextString} /\ TagType # ArrayType /\ TagType # MapType
    BY DEF TagType, ByteString, TextString, ArrayType, MapType
  <2>2. <<str>>[1] = str
    OBVIOUS
  <2>3. ObjectOf(d) = ProcessTag(d.tag, d.seen[1])
    BY <1>14, <2>1, Zenon DEF ObjectOf
  <2> QED BY <1>14, <2>2, <2>3 DEF str
<1>17. Reaches(a \o z, With(At(k, Front(q), w), ObjectOf(d)))
  <2>1. Reaches(a \o z, At(k, q, w))
    BY <1>11, <1>12
  <2> QED BY <1>6, <1>15, <2>1, ReadsEnd DEF d
<1>18. Reaches(a \o z, With(At(Len(a \o z) + 1, o, w), v))
  BY <1>13, <1>16, <1>17 DEF k
<1> QED BY <1>6, <1>18

\* Integers of any size.
LEMMA IntegerRead ==
  ASSUME NEW negative, negative \in BOOLEAN, NEW n, n \in Seq(Byte), Len(n) \in Lengths,
         n # <<>> => n[1] # 0
  PROVE  ReadAs(IntegerBytes(negative, n), <<"int", negative, n>>)
<1> DEFINE l == Len(n)
           h == WriteHead(ByteString, Number(l))
<1>1. l \in Nat
  BY LenProperties
<1>2. ASSUME NEW one, one \in {0, 1}, NEW v,
             one = 0 => v = <<"int", FALSE, n>>, one = 1 => v = <<"int", TRUE, n>>
      PROVE  ReadAs(IF l > 8 THEN <<194 + one>> \o h \o n ELSE WriteHead(Unsigned + one, n), v)
  <2>1. CASE l > 8
    <3> DEFINE tag == 2 + one
               t == 194 + one
               str == StrOf(ByteString, n)
    <3>1. tag \in {2, 3} /\ t = 192 + tag /\ (tag = 2 <=> one = 0) /\ (tag = 3 <=> one = 1) /\ t \in Byte
      BY <1>2 DEF Byte
    <3>2. n # <<>> /\ n[1] # 0
      BY <2>1, EmptySeq
    <3> HIDE DEF tag, t
    <3>3. /\ tag = 2 => ProcessTag(tag, str) = <<"int", FALSE, n>>
          /\ tag = 3 => ProcessTag(tag, str) = <<"int", TRUE, n>>
      BY <3>2, BignumIs
    <3>4. v = ProcessTag(tag, str)
      BY <1>2, <3>1, <3>3, Zenon
    <3>5. ReadAs(<<t>> \o (h \o n), v)
      BY <3>1, <3>2, <3>4, BignumRead
    <3>6. h \in Seq(Byte)
      <4>1. Heading(h, ByteString, Number(l))
        <5>1. ByteString \in 0 .. 7 /\ l \in Lengths
          BY DEF ByteString
        <5> HIDE DEF l
        <5> QED BY <5>1, CountWritten
      <4> HIDE DEF h
      <4> QED BY <4>1 DEF Heading, HeadFirst
    <3>7. <<t>> \in Seq(Byte)
      BY <3>1, OneByte
    <3> HIDE DEF h
    <3>8. <<t>> \o h \o n = <<t>> \o (h \o n)
      BY ONLY <3>6, <3>7, n \in Seq(Byte), ConcatAssociative
    <3> QED BY <2>1, <3>5, <3>8 DEF t
  <2>2. CASE ~(l > 8)
    <3>1. Len(n) <= 8
      BY <1>1, <2>2
    <3>2. ReadAs(WriteHead(0, n), <<"int", FALSE, n>>) /\ ReadAs(WriteHead(1, n), <<"int", TRUE, n>>)
      BY <3>1, FixnumRead
    <3>3. Unsigned + 0 = 0 /\ Unsigned + 1 = 1
      BY DEF Unsigned
    <3>4. CASE one = 0
      <4>1. v = <<"int", FALSE, n>>
        BY <1>2, <3>4
      <4>2. ReadAs(WriteHead(Unsigned + one, n), v)
        BY <3>2, <3>3, <3>4, <4>1, Zenon
      <4> QED BY <2>2, <4>2, Zenon
    <3>5. CASE one = 1
      <4>1. v = <<"int", TRUE, n>>
        BY <1>2, <3>5
      <4>2. ReadAs(WriteHead(Unsigned + one, n), v)
        BY <3>2, <3>3, <3>5, <4>1, Zenon
      <4> QED BY <2>2, <4>2, Zenon
    <3> QED BY <1>2, <3>4, <3>5
  <2> QED BY <2>1, <2>2
<1> DEFINE x(one) == IF l > 8 THEN <<194 + one>> \o h \o n ELSE WriteHead(Unsigned + one, n)
<1>3. 0 \in {0, 1} /\ 1 \in {0, 1} /\ 0 # 1
  OBVIOUS
<1>4. ReadAs(x(0), <<"int", FALSE, n>>)
  BY <1>2, <1>3, Zenon
<1>5. ReadAs(x(1), <<"int", TRUE, n>>)
  BY <1>2, <1>3, Zenon
<1>6. CASE negative = TRUE
  <2>1. IntegerBytes(negative, n) = x(1)
    BY <1>6 DEF IntegerBytes
  <2> HIDE DEF x
  <2> QED BY <1>5, <1>6, <2>1, Zenon
<1>7. CASE negative = FALSE
  <2>1. IntegerBytes(negative, n) = x(0)
    BY <1>7 DEF IntegerBytes
  <2> HIDE DEF x
  <2> QED BY <1>4, <1>7, <2>1, Zenon
<1> QED BY <1>6, <1>7

\* A string or symbol with its head.
LEMMA StrRead ==
  ASSUME NEW text, text \in BOOLEAN, NEW out, out \in Seq(Byte), Len(out) \in Lengths
  PROVE  ReadAs(StringBytes(Str(text, out)), Str(text, out))
<1> DEFINE s == Str(text, out)
           type == IF text THEN TextString ELSE ByteString
<1>1. s[3] = out /\ s[2] = text
  BY Zenon DEF Str
<1>2. type \in {ByteString, TextString} /\ (type = TextString <=> text)
  BY DEF ByteString, TextString
<1>3. StringBytes(s) = WriteHead(type, Number(Len(out))) \o out
  BY <1>1, Zenon DEF StringBytes
<1> HIDE DEF type
<1>4. ReadAs(WriteHead(type, Number(Len(out))) \o out, StrOf(type, out))
  BY <1>2, StringRead
<1>5. (type = TextString) = text
  BY <1>2
<1>6. StrOf(type, out) = s
  BY <1>5, Zenon DEF StrOf
<1> HIDE DEF s
<1> QED BY <1>3, <1>4, <1>6, Zenon DEF s

\* A number below 2^8 has one byte at most.
LEMMA NumberTiny ==
  ASSUME NEW n, n \in Lengths, n < 256
  PROVE  Len(Number(n)) <= 1
<1> DEFINE r == Number(n)
           l == Len(r)
           a == r[1]
           b == r[2]
<1>1. r \in Seq(Byte) /\ l <= 2 /\ (r # <<>> => a # 0) /\ CountOf(r) = n
  <2>1. n < 65536
    BY DEF Lengths
  <2>2. l <= 2
    BY <2>1, NumberShort
  <2> QED BY <2>2, NumberType, NumberIs
<1> HIDE DEF r
<1>2. l \in Nat
  BY <1>1, LenProperties
<1>3. ASSUME l = 2 PROVE n = 256 * a + b /\ a # 0
  <2>1. r # <<>> /\ Len(r) = 2
    BY <1>3, EmptySeq
  <2>2. ~(2 = 0) /\ ~(2 = 1) /\ ~(2 = 3)
    OBVIOUS
  <2>3. CountOf(r) = 256 * r[1] + r[2]
    BY ONLY <2>1, <2>2, Zenon DEF CountOf
  <2> HIDE DEF l
  <2> QED BY <1>1, <2>1, <2>3
<1>4. ASSUME l = 2 PROVE a \in Nat /\ b \in Nat
  <2>1. \A i \in 1 .. Len(r) : r[i] \in Byte
    BY <1>1, ElementOfSeq
  <2>2. 1 \in 1 .. Len(r) /\ 2 \in 1 .. Len(r)
    BY <1>4
  <2>3. a \in Byte
    BY <2>1, <2>2
  <2>4. b \in Byte
    BY <2>1, <2>2
  <2> HIDE DEF a, b
  <2> QED BY <2>3, <2>4 DEF Byte
<1>5. l <= 2
  BY <1>1
<1>6. n \in Nat
  BY DEF Lengths
<1> HIDE DEF l, a, b
<1>7. l = 2 => n >= 256
  BY ONLY <1>3, <1>4
<1>8. l <= 1
  BY <1>2, <1>5, <1>6, <1>7
<1> QED BY <1>8 DEF l, r

\* A simple value of one byte that is no boolean and not nil.
LEMMA SimpleRead ==
  ASSUME NEW n, n \in 0 .. 255 \ {20, 21, 22}
  PROVE  ReadAs(WriteHead(Prim, Number(n)), <<"simple", n>>)
<1> DEFINE q == Number(n)
           h == WriteHead(Prim, q)
           ai == AI(h[1])
           arg == ArgumentAt(h, 1)
<1>1. n \in Lengths /\ n < 256
  BY DEF Lengths
<1>2. q \in Seq(Byte) /\ Len(q) <= 1 /\ Len(q) \in Nat /\ CountOf(q) = n /\ (q # <<>> => q[1] # 0)
  BY <1>1, NumberType, NumberIs, NumberTiny, LenProperties
<1> HIDE DEF q
<1>3. Len(q) <= 8
  BY <1>2
<1>4. Heading(h, Prim, q) /\ ai = AiOf(q) /\ ArgWidth(h[1]) = Width(q)
  <2>1. Prim \in 0 .. 7
    BY DEF Prim
  <2>2. Heading(h, Prim, q) /\ h[1] = 32 * Prim + AiOf(q)
    BY <1>2, <1>3, <2>1, HeadingWritten
  <2>3. AI(32 * Prim + AiOf(q)) = AiOf(q) /\ ArgWidth(32 * Prim + AiOf(q)) = Width(q)
    BY <1>2, <1>3, <2>1, FirstByte
  <2> QED BY <2>2, <2>3
<1> HIDE DEF h
<1>5. \/ Width(q) = 0 /\ ai < 24 /\ ai \in Nat
      \/ Width(q) = 1 /\ ai = 24
  <2>1. Width(q) > 1 => Len(q) > Width(q) \div 2
    BY <1>2, <1>3, NoHalf, WidthOf
  <2>2. Width(q) \notin {2, 4, 8}
    BY <1>2, <2>1
  <2> QED BY <1>2, <1>3, <1>4, <2>2, AiIs
<1>6. /\ HeadFirst(h) /\ Len(h) = 1 + ArgWidth(h[1]) /\ MajorType(h[1]) = 7
      /\ Significant(arg) = q /\ h \in Seq(Byte)
  BY <1>4 DEF Heading, Prim, HeadFirst
<1>7. \E b \in Byte : arg = <<b>> /\ (Width(q) = 0 => b = ai)
  <2>1. arg = Argument(h[1], Behind(h))
    BY <1>6, ArgBehind DEF ArgumentAt
  <2>2. CASE Width(q) = 0
    <3>1. arg = <<ai>>
      BY <1>4, <2>1, <2>2 DEF Argument
    <3>2. ai \in Byte
      BY <1>5, <2>2 DEF Byte
    <3> QED BY <3>1, <3>2
  <2>3. CASE Width(q) = 1
    <3>1. arg = Behind(h) /\ Behind(h) \in Seq(Byte) /\ Len(Behind(h)) = 1
      <4>1. ArgWidth(h[1]) = 1 /\ ArgWidth(h[1]) # 0
        BY <1>4, <2>3
      <4>2. /\ Behind(h) \in Seq(Byte) /\ Len(Behind(h)) = ArgWidth(h[1])
            /\ ArgWidth(h[1]) # 0 => Argument(h[1], Behind(h)) = Behind(h)
        BY <1>6, ArgumentIs
      <4> QED BY <2>1, <4>1, <4>2
    <3> DEFINE r == Behind(h)
    <3>2. r \in Seq(Byte) /\ Len(r) = 1
      BY <3>1
    <3> HIDE DEF r
    <3>3. r = <<r[1]>> /\ r[1] \in Byte
      <4>1. 1 \in 1 .. Len(r)
        BY <3>2
      <4>2. r[1] \in Byte
        BY <3>2, <4>1, ElementOfSeq
      <4> QED BY <3>2, <4>2
    <3> QED BY <2>3, <3>1, <3>3 DEF r
  <2> QED BY <1>5, <2>2, <2>3
<1>8. PICK b \in Byte : arg = <<b>> /\ (Width(q) = 0 => b = ai)
  BY <1>7
<1> HIDE DEF arg, ai
<1>9. b = n
  <2>1. q = IF b = 0 THEN <<>> ELSE <<b>>
    BY <1>6, <1>8, SignificantOne
  <2>2. CASE b = 0
    <3>1. Len(q) = 0
      BY <2>1, <2>2
    <3>2. CountOf(q) = 0
      <4>1. Len(q) # 1 /\ Len(q) # 2 /\ Len(q) # 3
        BY <3>1
      <4> QED BY <3>1, <4>1, Zenon DEF CountOf
    <3> QED BY <1>2, <2>2, <3>2
  <2>3. CASE b # 0
    <3>1. q = <<b>> /\ Len(q) = 1 /\ q[1] = b
      BY <2>1, <2>3
    <3>2. CountOf(q) = q[1]
      <4>1. Len(q) # 0 /\ Len(q) # 2 /\ Len(q) # 3
        BY <3>1
      <4> QED BY <3>1, <4>1, Zenon DEF CountOf
    <3> QED BY <1>2, <3>1, <3>2
  <2> QED BY <2>2, <2>3
<1>10. ai # 20 /\ ai # 21 /\ ai # 22 /\ ai \notin 25 .. 27
  BY <1>5, <1>8, <1>9
<1>11. SimpleValue(ai, arg) = <<"simple", BigEndian(arg)>>
  BY <1>10, Zenon DEF SimpleValue
<1>12. BigEndian(arg) = n
  <2>1. BigEndian(<<b>>) = 0 + 0 + 0 + b
    <3> DEFINE r == <<b>>
    <3>1. Len(r) = 1 /\ r[1] = b
      OBVIOUS
    <3> HIDE DEF r
    <3>2. BigEndian(r) = 0 * 2 ^ 24 + 0 * 2 ^ 16 + 0 * 2 ^ 8 + r[1]
      BY <3>1 DEF BigEndian
    <3> QED BY <3>1, <3>2 DEF r, Byte
  <2>2. b \in Nat
    BY DEF Byte
  <2> QED BY <1>8, <1>9, <2>1, <2>2
<1> DEFINE v == <<"simple", n>>
<1>13. v = SimpleValue(AI(h[1]), ArgumentAt(h, 1))
  BY <1>11, <1>12 DEF ai, arg
<1> HIDE DEF v
<1>14. MajorType(h[1]) \in {0, 1, 7} /\ MajorType(h[1]) # 0 /\ MajorType(h[1]) # 1
  BY <1>6
<1>15. ReadAs(h, v)
  BY <1>6, <1>13, <1>14, ScalarRead
<1> QED BY <1>15 DEF v, h, q

\* A string as it goes out is a string.
LEMMA EncodedRead ==
  ASSUME NEW encoding \in {"binary", "utf8", "usascii", "latin1"}, NEW bytes \in Seq(Byte)
  PROVE  \E text \in BOOLEAN, out \in Seq(Byte) : Encoded(encoding, bytes) = Str(text, out)
<1>0. TRUE \in BOOLEAN /\ FALSE \in BOOLEAN /\ Utf8(bytes) \in Seq(Byte)
  BY Utf8Type
<1>1. CASE encoding = "binary"
  <2>1. encoding \notin {"utf8", "usascii"} /\ encoding # "latin1"
    BY <1>1
  <2>2. Encoded(encoding, bytes) = Str(FALSE, bytes)
    BY <1>1, <2>1, Zenon DEF Encoded
  <2> QED BY <1>0, <2>2, Zenon
<1>2. CASE encoding \in {"utf8", "usascii"}
  <2>1. encoding # "binary" /\ encoding # "latin1"
    BY <1>2
  <2>2. Encoded(encoding, bytes) = Str(TRUE, bytes)
    BY <1>2, <2>1, Zenon DEF Encoded
  <2> QED BY <1>0, <2>2, Zenon
<1>3. CASE encoding = "latin1"
  <2>1. encoding # "binary" /\ encoding \notin {"utf8", "usascii"}
    BY <1>3
  <2>2. Encoded(encoding, bytes) = Str(TRUE, Utf8(bytes))
    BY <1>3, <2>1, Zenon DEF Encoded
  <2> QED BY <1>0, <2>2, Zenon
<1> QED BY <1>1, <1>2, <1>3

\* Simple values that come back: of one byte, and neither booleans nor nil.
PlainSimples == \A v \in Values : v[1] = "simple" => v[2] \in (0 .. 255) \ {20, 21, 22}

\* Every value without elements is read as what it means.
LEMMA LeafRead ==
  ASSUME PlainSimples, NEW v, v \in Values, v[1] \in Leaves
  PROVE  ReadAs(LeafBytes(v), LeafMeaning(v))
<1> DEFINE k == v[1]
           x == LeafBytes(v)
           m == LeafMeaning(v)
<1>1. k \in {"nil", "bool", "int", "float", "string", "sym", "simple"}
  BY DEF Leaves
<1>2. k # "string" /\ k # "sym" => m = v
  BY Zenon DEF LeafMeaning
<1>3. CASE k = "nil"
  <2>1. k # "string" /\ k # "sym" /\ v = Nil
    BY <1>3, ValueAssumption
  <2>2. x = <<246>>
    BY <1>3, Zenon DEF LeafBytes, IB_NIL
  <2> QED BY <1>2, <2>1, <2>2, ConstantRead, Zenon
<1>4. CASE k = "bool"
  <2>1. k # "nil" /\ k # "string" /\ k # "sym" /\ k # "int" /\ k # "float" /\ k # "simple"
    BY <1>4
  <2>2. v[2] \in BOOLEAN /\ v = <<"bool", v[2]>>
    BY <1>4, ValueAssumption, Zenon
  <2>3. x = <<IF v[2] THEN 245 ELSE 244>>
    BY <1>4, <2>1, Zenon DEF LeafBytes
  <2> DEFINE b == v[2]
  <2>4. m = <<"bool", b>> /\ x = <<IF b THEN 245 ELSE 244>> /\ b \in BOOLEAN
    BY <1>2, <2>1, <2>2, <2>3, Zenon
  <2> HIDE DEF b, x, m
  <2>5. CASE b = TRUE
    BY <2>4, <2>5, ConstantRead, Zenon DEF x, m
  <2>6. CASE b = FALSE
    BY <2>4, <2>6, ConstantRead, Zenon DEF x, m
  <2> QED BY <2>4, <2>5, <2>6, Zenon
<1>5. CASE k = "int"
  <2>1. k # "nil" /\ k # "string" /\ k # "sym" /\ k # "bool" /\ k # "float" /\ k # "simple"
    BY <1>5
  <2>2. /\ v[2] \in BOOLEAN /\ v = <<"int", v[2], v[3]>>
        /\ v[3] \in Seq(Byte) /\ Len(v[3]) \in Lengths /\ (v[3] # <<>> => v[3][1] # 0)
    BY <1>5, ValueAssumption, Zenon
  <2>3. x = IntegerBytes(v[2], v[3])
    BY <1>5, <2>1, Zenon DEF LeafBytes
  <2>4. ReadAs(IntegerBytes(v[2], v[3]), <<"int", v[2], v[3]>>)
    BY <2>2, IntegerRead, Zenon
  <2> QED BY <1>2, <2>1, <2>2, <2>3, <2>4, Zenon
<1>6. CASE k = "float"
  <2>1. k # "nil" /\ k # "string" /\ k # "sym" /\ k # "bool" /\ k # "int" /\ k # "simple"
    BY <1>6
  <2>2. v[2] \in Doubles /\ v = <<"float", v[2]>>
    BY <1>6, ValueAssumption, Zenon
  <2>3. x = FloatBytes(v[2])
    BY <1>6, <2>1, Zenon DEF LeafBytes
  <2>4. ReadAs(FloatBytes(v[2]), <<"float", v[2]>>)
    BY <2>2, FloatRead, Zenon
  <2> QED BY <1>2, <2>1, <2>2, <2>3, <2>4, Zenon
<1>7. CASE k = "string"
  <2>1. k # "nil" /\ k # "sym" /\ k # "bool" /\ k # "int" /\ k # "float" /\ k # "simple"
    BY <1>7
  <2>2. /\ v[2] \in {"binary", "utf8", "usascii", "latin1"} /\ v[3] \in Seq(Byte)
        /\ Len(Encoded(v[2], v[3])[3]) \in Lengths
    BY <1>7, ValueAssumption, Zenon
  <2>3. x = StringBytes(Encoded(v[2], v[3]))
    BY <1>7, <2>1, Zenon DEF LeafBytes
  <2>4. m = Encoded(v[2], v[3])
    BY <1>7, Zenon DEF LeafMeaning
  <2>5. PICK text \in BOOLEAN, out \in Seq(Byte) : Encoded(v[2], v[3]) = Str(text, out)
    BY <2>2, EncodedRead, Zenon
  <2>6. Str(text, out)[3] = out
    BY DEF Str
  <2>7. Len(out) \in Lengths
    BY <2>2, <2>5, <2>6, Zenon
  <2>8. ReadAs(StringBytes(Str(text, out)), Str(text, out))
    BY <2>5, <2>7, StrRead, Zenon
  <2> QED BY <2>3, <2>4, <2>5, <2>8, Zenon
<1>8. CASE k = "sym"
  <2>1. k # "nil" /\ k # "string" /\ k # "bool" /\ k # "int" /\ k # "float" /\ k # "simple"
    BY <1>8
  <2>2. v[2] \in Seq(Byte) /\ Len(v[2]) \in Lengths
    BY <1>8, ValueAssumption
  <2>3. x = StringBytes(Str(TRUE, v[2]))
    BY <1>8, <2>1, Zenon DEF LeafBytes
  <2>4. m = Str(TRUE, v[2])
    BY <1>8, <2>1, Zenon DEF LeafMeaning
  <2>5. TRUE \in BOOLEAN
    OBVIOUS
  <2>6. ReadAs(StringBytes(Str(TRUE, v[2])), Str(TRUE, v[2]))
    BY <2>2, <2>5, StrRead, Zenon
  <2> QED BY <2>3, <2>4, <2>6, Zenon
<1>9. CASE k = "simple"
  <2>1. k # "nil" /\ k # "string" /\ k # "bool" /\ k # "int" /\ k # "float" /\ k # "sym"
    BY <1>9
  <2>2. v[2] \in (0 .. 255) \ {20, 21, 22} /\ v = <<"simple", v[2]>>
    <3>1. v = <<"simple", v[2]>>
      BY <1>9, ValueAssumption, Zenon
    <3>2. v[2] \in (0 .. 255) \ {20, 21, 22}
      BY <1>9, Zenon DEF PlainSimples
    <3> QED BY <3>1, <3>2, Zenon
  <2>3. x = WriteHead(Prim, Number(v[2]))
    BY <1>9, <2>1, Zenon DEF LeafBytes
  <2>4. ReadAs(WriteHead(Prim, Number(v[2])), <<"simple", v[2]>>)
    BY <2>2, SimpleRead, Zenon
  <2> QED BY <1>2, <2>1, <2>2, <2>3, <2>4, Zenon
<1> QED BY <1>1, <1>3, <1>4, <1>5, <1>6, <1>7, <1>8, <1>9

-----------------------------------------------------------------------------
(* The containers a reader is in *)

\* Items, and the calls of to_cbor and encode, do not show in the bytes.
Hidden == {"item", "foreign", "encode"}

\* The container that is seen of a frame.
TypeOf(f) == CASE f.kind = "array" -> ArrayType [] f.kind = "hash" -> MapType
               [] f.kind = "tag" -> TagType [] OTHER -> f.value
NeedOf(f) == IF f.kind = "hash" THEN 2 * f.need ELSE f.need
TagOf(f) == IF f.kind = "tag" THEN f.value[2] ELSE 0
ContainerOf(f) == [type |-> TypeOf(f), need |-> NeedOf(f), tag |-> TagOf(f), seen |-> f.seen]
Shown(f) == IF f.kind \in Hidden THEN <<>> ELSE <<ContainerOf(f)>>
ShownEach(t) == [k \in 1 .. Len(t) |-> Shown(t[k])]
ShownAll(t) == FlattenSeq(ShownEach(t))

\* What is shown of frames is a sequence of sequences of containers.
LEMMA ShownType ==
  ASSUME NEW t, IsSeq(t), NEW S,
         \A k \in 1 .. Len(t) : t[k].kind \notin Hidden => ContainerOf(t[k]) \in S
  PROVE  /\ ShownEach(t) \in Seq(Seq(S)) /\ Len(ShownEach(t)) = Len(t)
         /\ \A k \in 1 .. Len(t) : ShownEach(t)[k] = Shown(t[k])
<1> DEFINE q == ShownEach(t)
           n == Len(t)
<1>1. n \in Nat
  BY LengthOf
<1>2. \A k \in 1 .. n : Shown(t[k]) \in Seq(S)
  <2> SUFFICES ASSUME NEW k \in 1 .. n PROVE Shown(t[k]) \in Seq(S)
    OBVIOUS
  <2>1. CASE t[k].kind \in Hidden
    BY <2>1, EmptySeq DEF Shown
  <2>2. CASE t[k].kind \notin Hidden
    <3> DEFINE c == ContainerOf(t[k])
    <3>1. c \in S /\ Shown(t[k]) = <<c>>
      BY <2>2 DEF Shown
    <3> HIDE DEF c
    <3>2. <<c>> \in Seq(S)
      BY <3>1
    <3> QED BY <3>1, <3>2
  <2> QED BY <2>1, <2>2
<1> DEFINE U == Seq(S)
<1>3. q \in [1 .. n -> U]
  BY <1>2 DEF ShownEach
<1> HIDE DEF U, n
<1>4. q \in Seq(U) /\ Len(q) = n
  <2>1. q \in Seq(U)
    BY <1>1, <1>3, SeqDef
  <2>2. DOMAIN q = 1 .. n
    BY <1>3
  <2>3. Len(q) \in Nat /\ DOMAIN q = 1 .. Len(q)
    BY <2>1, LenProperties
  <2> QED BY <1>1, <2>1, <2>2, <2>3
<1>5. \A k \in 1 .. n : q[k] = Shown(t[k])
  BY DEF ShownEach, n
<1> QED BY <1>4, <1>5 DEF U, n

\* No frame.
LEMMA ShownNone == ShownAll(<<>>) = <<>>
<1>1. IsSeq(<<>>) /\ Len(<<>>) = 0
  BY EmptyIsSeq
<1>2. ShownEach(<<>>) = <<>>
  <2> DEFINE t == <<>>
             S == {}
  <2>1. \A k \in 1 .. Len(t) : t[k].kind \notin Hidden => ContainerOf(t[k]) \in S
    BY <1>1
  <2>2. ShownEach(t) \in Seq(Seq(S)) /\ Len(ShownEach(t)) = Len(t)
    BY ONLY <1>1, <2>1, ShownType
  <2> DEFINE q == ShownEach(t)
  <2> HIDE DEF q
  <2>3. q \in Seq(Seq(S)) /\ Len(q) = 0
    BY <1>1, <2>2 DEF q
  <2>4. q = <<>>
    BY <2>3, EmptySeq
  <2> QED BY <2>4 DEF q
<1> QED BY <1>2, FlattenNone DEF ShownAll

\* One frame more.
LEMMA ShownAppend ==
  ASSUME NEW t, IsSeq(t), NEW f
  PROVE  ShownAll(Append(t, f)) =
           IF f.kind \in Hidden THEN ShownAll(t) ELSE Append(ShownAll(t), ContainerOf(f))
<1> DEFINE u == Append(t, f)
           n == Len(t)
           S == {ContainerOf(t[k]) : k \in 1 .. n} \cup {ContainerOf(f)}
           q == ShownEach(t)
           r == ShownEach(u)
           e == Shown(f)
<1>1. n \in Nat /\ IsSeq(u) /\ Len(u) = n + 1 /\ u[n + 1] = f /\ \A i \in 1 .. n : u[i] = t[i]
  BY LengthOf, AppendOf
<1> HIDE DEF u
<1>2. \A k \in 1 .. n : ContainerOf(t[k]) \in S
  OBVIOUS
<1>3. \A k \in 1 .. Len(u) : ContainerOf(u[k]) \in S
  <2> SUFFICES ASSUME NEW k \in 1 .. Len(u) PROVE ContainerOf(u[k]) \in S
    OBVIOUS
  <2>1. k = n + 1 \/ k \in 1 .. n
    BY <1>1
  <2> QED BY <1>1, <2>1
<1>4. ContainerOf(f) \in S
  OBVIOUS
<1> HIDE DEF S
<1>5. q \in Seq(Seq(S)) /\ Len(q) = n /\ \A k \in 1 .. n : q[k] = Shown(t[k])
  BY <1>2, ShownType
<1>6. r \in Seq(Seq(S)) /\ Len(r) = n + 1 /\ \A k \in 1 .. n + 1 : r[k] = Shown(u[k])
  BY <1>1, <1>3, ShownType
<1>7. e \in Seq(S)
  <2> DEFINE c == ContainerOf(f)
  <2>1. e = <<>> \/ e = <<c>>
    BY DEF Shown
  <2> HIDE DEF c, e
  <2>2. c \in S
    BY <1>4 DEF c
  <2>3. <<c>> \in Seq(S) /\ <<>> \in Seq(S)
    BY <2>2, EmptySeq
  <2> QED BY ONLY <2>1, <2>3
<1> HIDE DEF q, r, e
<1>8. r = Append(q, e)
  <2> DEFINE p == Append(q, e)
  <2>1. IsSeq(q) /\ IsSeq(r)
    BY <1>5, <1>6 DEF IsSeq
  <2>2. IsSeq(p) /\ Len(p) = n + 1 /\ p[n + 1] = e /\ \A i \in 1 .. n : p[i] = q[i]
    BY <1>5, <2>1, AppendOf
  <2> HIDE DEF p
  <2>3. \A i \in 1 .. Len(r) : r[i] = p[i]
    <3> SUFFICES ASSUME NEW i \in 1 .. Len(r) PROVE r[i] = p[i]
      OBVIOUS
    <3>1. i = n + 1 \/ i \in 1 .. n
      BY <1>1, <1>6
    <3>2. i \in 1 .. n + 1
      BY <1>6
    <3> QED BY <1>1, <1>5, <1>6, <2>2, <3>1, <3>2 DEF e
  <2>4. Len(r) = Len(p)
    BY <1>6, <2>2
  <2>5. r = p
    BY <2>1, <2>2, <2>3, <2>4, SameList
  <2> QED BY <2>5 DEF p
<1>9. FlattenSeq(q) \in Seq(S)
  BY <1>5, FlattenType
<1>10. FlattenSeq(r) = FlattenSeq(q) \o e
  BY <1>5, <1>7, <1>8, <1>9, FlattenAppend
<1> DEFINE a == FlattenSeq(q)
<1>11. ShownAll(t) = a /\ ShownAll(u) = a \o e
  BY <1>10 DEF ShownAll, q, r
<1> HIDE DEF a
<1>12. CASE f.kind \in Hidden
  <2>1. e = <<>>
    BY <1>12 DEF Shown, e
  <2>2. a \o <<>> = a
    BY <1>9, ConcatEmptySeq DEF a
  <2> QED BY <1>11, <1>12, <2>1, <2>2 DEF u
<1>13. CASE f.kind \notin Hidden
  <2> DEFINE c == ContainerOf(f)
  <2>1. e = <<c>> /\ c \in S
    BY <1>4, <1>13 DEF Shown, e
  <2> HIDE DEF c
  <2>2. Append(a, c) = a \o <<c>>
    BY <1>9, <2>1, AppendIsConcat DEF a
  <2> QED BY <1>11, <1>13, <2>1, <2>2 DEF u, c
<1> QED BY <1>12, <1>13

\* The containers that are shown are all frames that have room.
Room(f) == f.kind \notin Hidden => ~IsFull(ContainerOf(f))

\* If all frames have room, an object may come.
LEMMA ShownTakes ==
  ASSUME NEW t, IsSeq(t), \A k \in 1 .. Len(t) : Room(t[k])
  PROVE  Waiting(ShownAll(t))
<1> DEFINE T == {ContainerOf(t[k]) : k \in 1 .. Len(t)}
           S == {c \in T : ~IsFull(c)}
           o == ShownAll(t)
<1>1. \A k \in 1 .. Len(t) : t[k].kind \notin Hidden => ContainerOf(t[k]) \in S
  BY DEF Room
<1> HIDE DEF T
<1>2. \A c \in S : ~IsFull(c)
  OBVIOUS
<1> HIDE DEF S
<1>3. ShownEach(t) \in Seq(Seq(S))
  BY <1>1, ShownType
<1>4. o \in Seq(S)
  BY <1>3, FlattenType DEF ShownAll
<1> HIDE DEF o
<1>5. o # <<>> => Last(o) \in S
  <2>1. IsSeq(o)
    BY <1>4 DEF IsSeq
  <2>2. o # <<>> => Last(o) = o[Len(o)] /\ Len(o) \in 1 .. Len(o)
    BY <2>1, LengthOf
  <2> QED BY <1>4, <2>2, ElementOfSeq
<1> QED BY <1>2, <1>5 DEF Waiting, o

\* A stack is its last frame on the others.
LEMMA LastOnFront ==
  ASSUME NEW t, IsSeq(t), t # <<>>
  PROVE  IsSeq(Front(t)) /\ t = Append(Front(t), Last(t))
<1> DEFINE n == Len(t)
           f == Front(t)
           p == Append(f, Last(t))
<1>1. n \in Nat /\ Last(t) = t[n] /\ n \in 1 .. n
  BY LengthOf
<1>2. IsSeq(f) /\ Len(f) = n - 1 /\ \A i \in 1 .. n - 1 : f[i] = t[i]
  BY FrontOf
<1> HIDE DEF f
<1>3. IsSeq(p) /\ Len(p) = Len(f) + 1 /\ p[Len(f) + 1] = Last(t) /\ \A i \in 1 .. Len(f) : p[i] = f[i]
  BY <1>2, AppendOf
<1> HIDE DEF p
<1>4. Len(p) = n
  BY <1>1, <1>2, <1>3
<1>5. \A i \in 1 .. Len(t) : t[i] = p[i]
  <2> SUFFICES ASSUME NEW i \in 1 .. n PROVE t[i] = p[i]
    OBVIOUS
  <2>1. i = n \/ i \in 1 .. n - 1
    BY <1>1
  <2>2. Len(f) + 1 = n
    BY <1>1, <1>2
  <2> QED BY <1>1, <1>2, <1>3, <2>1, <2>2
<1>6. t = p
  BY <1>3, <1>4, <1>5, SameList
<1> QED BY <1>2, <1>6 DEF p, f

\* What is shown of it.
LEMMA ShownLast ==
  ASSUME NEW t, IsSeq(t), t # <<>>
  PROVE  ShownAll(t) = IF Last(t).kind \in Hidden THEN ShownAll(Front(t))
                       ELSE Append(ShownAll(Front(t)), ContainerOf(Last(t)))
<1> DEFINE f == Front(t)
           g == Last(t)
<1>1. IsSeq(f) /\ t = Append(f, g)
  BY LastOnFront
<1> HIDE DEF f, g
<1>2. ShownAll(Append(f, g)) = IF g.kind \in Hidden THEN ShownAll(f) ELSE Append(ShownAll(f), ContainerOf(g))
  BY <1>1, ShownAppend
<1> QED BY <1>1, <1>2 DEF f, g

\* It is a sequence.
LEMMA ShownIsSeq ==
  ASSUME NEW t, IsSeq(t)
  PROVE  IsSeq(ShownAll(t))
<1> DEFINE S == {ContainerOf(t[k]) : k \in 1 .. Len(t)}
           o == ShownAll(t)
<1>1. \A k \in 1 .. Len(t) : t[k].kind \notin Hidden => ContainerOf(t[k]) \in S
  OBVIOUS
<1> HIDE DEF S
<1>2. ShownEach(t) \in Seq(Seq(S))
  BY <1>1, ShownType
<1>3. o \in Seq(S)
  BY <1>2, FlattenType DEF ShownAll
<1> HIDE DEF o
<1>4. IsSeq(o)
  BY <1>3 DEF IsSeq
<1> QED BY <1>4 DEF o

-----------------------------------------------------------------------------
(* Where a reader stands *)

\* A foreign to_cbor or encode has its value, but has not returned yet.
Pending(t) == t # <<>> /\ Last(t).kind \in {"foreign", "encode"} /\ Last(t).seen # <<>>

\* The reading of the bytes before k, when calls t are under way and w has been
\* written before.
Stands(t, w, k) ==
  IF Pending(t) THEN With(At(k, ShownAll(t), w), Last(t).seen[1]) ELSE At(k, ShownAll(t), w)

\* Frames that wait have no value yet.
LEMMA StandsWaiting ==
  ASSUME NEW t, NEW h, AllWait(t, h), NEW w, NEW k
  PROVE  Stands(t, w, k) = At(k, ShownAll(t), w)
<1>1. ~Pending(t)
  <2> SUFFICES ASSUME Pending(t) PROVE FALSE
    OBVIOUS
  <2> DEFINE f == Last(t)
  <2>1. Plain(f, h) /\ Waits(f) /\ f.kind \in {"foreign", "encode"} /\ f.seen # <<>>
    BY LastWaits DEF Pending
  <2> HIDE DEF f
  <2>2. f.need = 1 /\ Len(f.seen) < f.need /\ IsSeq(f.seen)
    BY <2>1 DEF Plain, Waits
  <2>3. Len(f.seen) > 0 /\ Len(f.seen) \in Nat
    BY <2>1, <2>2, LengthOf
  <2> QED BY <2>2, <2>3
<1> QED BY <1>1 DEF Stands

\* Of all other frames the same is true.
LEMMA StandsOther ==
  ASSUME NEW t, NEW w, NEW k, t # <<>> => Last(t).kind \notin {"foreign", "encode"} \/ Last(t).seen = <<>>
  PROVE  Stands(t, w, k) = At(k, ShownAll(t), w)
BY DEF Stands, Pending

\* the calls u and the history v when x has been written for the calls t
Completed(t, w, x, u, v) ==
  IF t = <<>> THEN u = <<>> /\ v = Append(w, x)
  ELSE u = Append(Front(t), [Last(t) EXCEPT !.seen = Append(Last(t).seen, x)]) /\ v = w

\* A value that is written for a foreign to_cbor is one for the container around it.
LEMMA StandsCompleted ==
  ASSUME NEW t, NEW h, AllWait(t, h), NEW w, NEW x, NEW u, NEW v, Completed(t, w, x, u, v), NEW k
  PROVE  Stands(u, v, k) = With(At(k, ShownAll(t), w), x)
<1>1. IsSeq(t)
  BY DEF AllWait
<1>2. CASE t = <<>>
  <2>1. u = <<>> /\ v = Append(w, x)
    BY <1>2 DEF Completed
  <2>2. Stands(u, v, k) = At(k, <<>>, v)
    BY <2>1, ShownNone, StandsOther
  <2>3. With(At(k, <<>>, w), x) = At(k, <<>>, Append(w, x))
    BY WithIs
  <2> QED BY <1>2, <2>1, <2>2, <2>3, ShownNone
<1>3. CASE t # <<>>
  <2> DEFINE b == Last(t)
             f == Front(t)
             q == Append(b.seen, x)
             g == [b EXCEPT !.seen = q]
  <2>1. u = Append(f, g) /\ v = w
    BY <1>3 DEF Completed
  <2>2. Plain(b, h) /\ Waits(b)
    BY <1>3, LastWaits
  <2>3. IsSeq(f)
    BY <1>1, <1>3, FrontOf
  <2>4. /\ ShownAll(t) = IF b.kind \in Hidden THEN ShownAll(f) ELSE Append(ShownAll(f), ContainerOf(b))
    BY <1>1, <1>3, ShownLast
  <2> HIDE DEF b, f
  <2>5. IsSeq(b.seen) /\ IsSeq(q) /\ Len(q) = Len(b.seen) + 1 /\ q[Len(b.seen) + 1] = x
    BY <2>2, AppendOf DEF Plain
  <2> HIDE DEF q
  <2>6. /\ g.kind = b.kind /\ g.need = b.need /\ g.value = b.value /\ g.seen = q
    BY <2>2 DEF Plain
  <2> HIDE DEF g
  <2>7. ShownAll(u) = IF g.kind \in Hidden THEN ShownAll(f) ELSE Append(ShownAll(f), ContainerOf(g))
    BY <2>1, <2>3, ShownAppend
  <2>8. u # <<>> /\ Last(u) = g
    BY <2>1, <2>3, AppendedIs
  <2>9. CASE b.kind \in Hidden
    <3>1. b.kind # "item" /\ b.kind # "hash"
      BY <2>2, <2>9 DEF Waits, Hidden
    <3>2. b.kind \in {"foreign", "encode"}
      BY <2>9, <3>1 DEF Hidden
    <3>3. b.need = 1 /\ Len(b.seen) < b.need /\ Len(b.seen) \in Nat
      BY <2>2, <2>5, <3>1, <3>2, LengthOf DEF Plain, Waits
    <3>4. q[1] = x /\ Len(q) = 1
      BY <2>5, <3>3
    <3>5. q # <<>>
      BY <2>5, <3>4, EmptyIsSeq
    <3>6. Pending(u) /\ Last(u).seen[1] = x
      BY <2>6, <2>8, <3>2, <3>4, <3>5 DEF Pending
    <3>7. ShownAll(u) = ShownAll(t)
      BY <2>4, <2>6, <2>7, <2>9
    <3> QED BY <2>1, <3>6, <3>7 DEF Stands
  <2>10. CASE b.kind \notin Hidden
    <3> DEFINE c == ContainerOf(b)
               d == ContainerOf(g)
               o == ShownAll(f)
    <3>1. ShownAll(t) = Append(o, c) /\ ShownAll(u) = Append(o, d)
      BY <2>4, <2>6, <2>7, <2>10
    <3>2. d = [c EXCEPT !.seen = Append(c.seen, x)]
      <4> DEFINE y == TypeOf(b)
                 n == NeedOf(b)
                 a == TagOf(b)
      <4>1. TypeOf(g) = y
        BY <2>6 DEF TypeOf
      <4>2. NeedOf(g) = n
        BY <2>6 DEF NeedOf
      <4>3. TagOf(g) = a
        BY <2>6 DEF TagOf
      <4> HIDE DEF y, n, a
      <4>4. c = [type |-> y, need |-> n, tag |-> a, seen |-> b.seen]
        BY DEF ContainerOf, y, n, a
      <4>5. d = [type |-> y, need |-> n, tag |-> a, seen |-> q]
        BY <2>6, <4>1, <4>2, <4>3 DEF ContainerOf
      <4> HIDE DEF c, d
      <4> QED BY <4>4, <4>5 DEF q
    <3>3. IsSeq(o)
      BY <2>3, ShownIsSeq
    <3> HIDE DEF c, d, o
    <3> DEFINE p == Append(o, c)
    <3>4. p # <<>> /\ Last(p) = c /\ Front(p) = o
      BY <3>3, AppendedIs
    <3> HIDE DEF p
    <3>5. Put(p, x) = Append(o, d)
      BY <3>2, <3>4 DEF Put
    <3>6. With(At(k, p, w), x) = At(k, Put(p, x), w)
      BY <3>4, WithIs
    <3>7. Stands(u, v, k) = At(k, ShownAll(u), v)
      <4>1. g.kind \notin {"foreign", "encode"}
        BY <2>6, <2>10 DEF Hidden
      <4> QED BY <2>8, <4>1, StandsOther
    <3> QED BY <2>1, <3>1, <3>5, <3>6, <3>7 DEF p
  <2> QED BY <2>9, <2>10
<1> QED BY <1>2, <1>3

-----------------------------------------------------------------------------
(* The header that outlives an exception *)

\* A header that is the outermost call was written from outside, and no header
\* is written into it.
FirstOK(t) ==
  /\ t # <<>> => (t[1].kind = "header" => t[1].obj = "outside")
  /\ Len(t) > 1 => (t[1].kind = "header" => t[2].kind # "header")

\* It is what an exception leaves.
Caught(t) == IF t = <<>> THEN <<>> ELSE IF t[1].kind = "header" THEN <<t[1]>> ELSE <<>>

OnlyHeaders(t) == \A k \in DOMAIN t : t[k].kind = "header"

\* a frame that may come on t
MayCome(t, f) ==
  f.kind = "header" => /\ t = <<>> => f.obj = "outside"
                       /\ Len(t) = 1 => t[1].kind # "header"

\* A frame comes.
LEMMA CaughtPush ==
  ASSUME NEW t, IsSeq(t), FirstOK(t), NEW f, MayCome(t, f)
  PROVE  LET u == Append(t, f)
         IN FirstOK(u) /\ (t # <<>> \/ f.kind # "header" => Caught(u) = Caught(t))
<1> DEFINE u == Append(t, f)
           n == Len(t)
<1>1. n \in Nat /\ (t # <<>> <=> n > 0)
  BY LengthOf
<1>2. IsSeq(u) /\ Len(u) = n + 1 /\ u[n + 1] = f /\ \A i \in 1 .. n : u[i] = t[i]
  BY AppendOf
<1>3. u # <<>> /\ u[1] = (IF t = <<>> THEN f ELSE t[1])
  BY AppendedFirst
<1> HIDE DEF u
<1>4. n > 1 => u[2] = t[2]
  BY <1>1, <1>2
<1>5. n = 1 => u[2] = f
  BY <1>2
<1>6. t # <<>> => (t[1].kind = "header" => t[1].obj = "outside")
  BY DEF FirstOK
<1>7. u[1].kind = "header" => u[1].obj = "outside"
  BY <1>3, <1>6 DEF MayCome
<1>8. Len(u) > 1 => (u[1].kind = "header" => u[2].kind # "header")
  <2> SUFFICES ASSUME Len(u) > 1, u[1].kind = "header" PROVE u[2].kind # "header"
    OBVIOUS
  <2>1. n = 1 \/ n > 1
    <3> DEFINE m == Len(u)
    <3>1. n \in Nat
      BY <1>1
    <3>2. m = n + 1
      BY <1>2
    <3>3. m > 1
      OBVIOUS
    <3> HIDE DEF m, n
    <3> QED BY ONLY <3>1, <3>2, <3>3
  <2>4. t # <<>> /\ u[1] = t[1]
    BY <1>1, <1>3, <2>1
  <2>2. CASE n = 1
    <3>1. u[2] = f /\ (f.kind = "header" => t[1].kind # "header")
      BY <1>5, <2>2 DEF MayCome
    <3> QED BY <2>4, <3>1
  <2>3. CASE n > 1
    BY <1>4, <2>4, <2>3 DEF FirstOK
  <2> QED BY <2>1, <2>2, <2>3
<1>9. FirstOK(u)
  BY <1>7, <1>8 DEF FirstOK
<1>10. t # <<>> \/ f.kind # "header" => Caught(u) = Caught(t)
  BY <1>3 DEF Caught
<1> QED BY <1>9, <1>10 DEF u

\* The frame on top goes.
LEMMA CaughtPop ==
  ASSUME NEW t, IsSeq(t), FirstOK(t), t # <<>>
  PROVE  LET u == Front(t)
         IN /\ FirstOK(u) /\ MayCome(u, Last(t))
            /\ u # <<>> \/ Last(t).kind # "header" => Caught(u) = Caught(t)
<1> DEFINE u == Front(t)
           n == Len(t)
           f == Last(t)
<1>1. n \in Nat /\ n > 0 /\ f = t[n]
  BY LengthOf
<1>2. IsSeq(u) /\ Len(u) = n - 1 /\ \A i \in 1 .. n - 1 : u[i] = t[i]
  BY FrontOf
<1>3. IF u = <<>> THEN f = t[1] ELSE u[1] = t[1]
  BY FrontFirst
<1> HIDE DEF u, f
<1>4. n - 1 > 1 => u[2] = t[2]
  BY <1>1, <1>2
<1>5. u # <<>> <=> n - 1 > 0
  BY <1>1, <1>2, LengthOf
<1>6. t[1].kind = "header" => t[1].obj = "outside"
  BY DEF FirstOK
<1>7. n > 1 => (t[1].kind = "header" => t[2].kind # "header")
  BY DEF FirstOK
<1> HIDE DEF n
<1>8. FirstOK(u)
  <2>1. u # <<>> => (u[1].kind = "header" => u[1].obj = "outside")
    BY <1>3, <1>6
  <2>2. Len(u) > 1 => (u[1].kind = "header" => u[2].kind # "header")
    <3> SUFFICES ASSUME n - 1 > 1, u[1].kind = "header" PROVE u[2].kind # "header"
      BY <1>2
    <3>1. n > 1 /\ u # <<>>
      BY <1>1, <1>5
    <3> QED BY <1>3, <1>4, <1>7, <3>1
  <2> QED BY <2>1, <2>2 DEF FirstOK
<1>9. MayCome(u, f)
  <2>1. u = <<>> => (f.kind = "header" => f.obj = "outside")
    BY <1>3, <1>6
  <2>2. ASSUME Len(u) = 1, f.kind = "header" PROVE u[1].kind # "header"
    <3>1. n = 2
      <4> DEFINE m == Len(u)
      <4>1. n \in Nat
        BY <1>1
      <4>2. m = n - 1
        BY <1>2
      <4>3. m = 1
        BY <2>2
      <4> HIDE DEF m
      <4> QED BY <4>1, <4>2, <4>3
    <3>2. u # <<>>
      BY <1>5, <3>1
    <3> QED BY <1>1, <1>3, <1>7, <2>2, <3>1, <3>2
  <2> QED BY <2>1, <2>2 DEF MayCome
<1>10. u # <<>> \/ f.kind # "header" => Caught(u) = Caught(t)
  BY <1>3 DEF Caught
<1> QED BY <1>8, <1>9, <1>10 DEF u, f

\* It gives way to one of the same kind.
LEMMA CaughtReplaced ==
  ASSUME NEW t, IsSeq(t), FirstOK(t), t # <<>>, NEW f, f.kind = Last(t).kind, f.obj = Last(t).obj
  PROVE  LET u == Append(Front(t), f)
         IN FirstOK(u) /\ (Front(t) # <<>> \/ f.kind # "header" => Caught(u) = Caught(t))
<1> DEFINE s == Front(t)
           g == Last(t)
<1>1. IsSeq(s) /\ FirstOK(s) /\ MayCome(s, g) /\ (s # <<>> \/ g.kind # "header" => Caught(s) = Caught(t))
  BY CaughtPop, LastOnFront
<1>2. f.kind = g.kind /\ f.obj = g.obj
  OBVIOUS
<1> HIDE DEF s, g
<1>3. MayCome(s, f)
  BY <1>1, <1>2 DEF MayCome
<1>4. FirstOK(Append(s, f)) /\ (s # <<>> \/ f.kind # "header" => Caught(Append(s, f)) = Caught(s))
  BY <1>1, <1>3, CaughtPush
<1> QED BY <1>1, <1>2, <1>4 DEF s

\* From outside there is nothing else.
LEMMA CaughtAll ==
  ASSUME NEW t, IsSeq(t), FirstOK(t), OnlyHeaders(t)
  PROVE  Caught(t) = t /\ (t = <<>> \/ t = <<t[1]>>)
<1> DEFINE n == Len(t)
<1>1. n \in Nat /\ (t # <<>> <=> n > 0) /\ DOMAIN t = 1 .. n
  BY LengthOf
<1>2. ~(n > 1)
  <2> SUFFICES ASSUME n > 1 PROVE FALSE
    OBVIOUS
  <2>1. 1 \in DOMAIN t /\ 2 \in DOMAIN t
    BY <1>1
  <2> QED BY <2>1 DEF FirstOK, OnlyHeaders
<1>3. CASE t = <<>>
  BY <1>3 DEF Caught
<1>4. CASE t # <<>>
  <2>1. n = 1
    BY <1>1, <1>2, <1>4
  <2>2. 1 \in DOMAIN t
    BY <1>1, <2>1
  <2>3. PICK S : t \in Seq(S)
    BY DEF IsSeq
  <2>4. t = <<t[1]>>
    BY <2>1, <2>3, OneElement
  <2>5. Caught(t) = <<t[1]>>
    BY <1>4, <2>2 DEF Caught, OnlyHeaders
  <2> QED BY <2>4, <2>5
<1> QED BY <1>3, <1>4

\* A value is written for the frames that wait.
LEMMA CaughtCompleted ==
  ASSUME NEW t, NEW h, AllWait(t, h), FirstOK(t), NEW w, NEW x, NEW u, NEW v, Completed(t, w, x, u, v)
  PROVE  FirstOK(u) /\ (~OnlyHeaders(u) => t # <<>> /\ Caught(u) = Caught(t) /\ v = w)
<1>1. IsSeq(t)
  BY DEF AllWait
<1>2. CASE t = <<>>
  <2>1. u = <<>>
    BY <1>2 DEF Completed
  <2> QED BY <1>2, <2>1, EmptyIsSeq DEF OnlyHeaders
<1>3. CASE t # <<>>
  <2> DEFINE b == Last(t)
             q == Append(b.seen, x)
             g == [b EXCEPT !.seen = q]
             s == Front(t)
  <2>1. u = Append(s, g) /\ v = w
    BY <1>3 DEF Completed
  <2>2. g.kind = b.kind /\ g.obj = b.obj
    <3>1. Plain(b, h)
      BY <1>3, LastWaits
    <3> HIDE DEF b, q
    <3> QED BY <3>1 DEF Plain
  <2> HIDE DEF g
  <2>3. FirstOK(u) /\ (s # <<>> \/ g.kind # "header" => Caught(u) = Caught(t))
    BY <1>1, <1>3, <2>1, <2>2, CaughtReplaced
  <2>4. ASSUME s = <<>>, g.kind = "header" PROVE OnlyHeaders(u)
    <3>1. u = <<g>>
      BY <2>1, <2>4
    <3> QED BY <2>4, <3>1 DEF OnlyHeaders
  <2> QED BY <1>3, <2>1, <2>3, <2>4
<1> QED BY <1>2, <1>3

-----------------------------------------------------------------------------
(* Room and ends *)

\* A frame that waits has room for an object.
LEMMA WaitsRoom ==
  ASSUME NEW h, HeapOK(h), NEW f, Plain(f, h), Waits(f), Fits(f, h)
  PROVE  Room(f)
<1> SUFFICES ASSUME f.kind \notin Hidden PROVE ~IsFull(ContainerOf(f))
  BY DEF Room
<1> DEFINE n == Len(f.seen)
           need == f.need
           i == f.i
<1>1. n \in Nat /\ need \in Nat /\ i \in Nat
  BY LengthOf DEF Plain
<1>2. IsFull(ContainerOf(f)) <=> n = NeedOf(f)
  BY DEF IsFull, ContainerOf
<1>3. CASE f.kind # "hash"
  <2>1. n < need /\ NeedOf(f) = need
    BY <1>3 DEF Waits, NeedOf
  <2> HIDE DEF n, need, i
  <2> QED BY <1>1, <1>2, <2>1
<1>4. CASE f.kind = "hash"
  <2> DEFINE c == Cardinality(Live(h, f.obj, f.at))
  <2>1. c \in Nat
    BY <1>4, LiveFinite DEF Plain
  <2>2. i + c = need
    BY <1>4 DEF Fits
  <2>3. n = 2 * i - 2 \/ n = 2 * i - 1
    BY <1>4 DEF Waits
  <2>4. NeedOf(f) = 2 * need
    BY <1>4 DEF NeedOf
  <2> HIDE DEF n, need, i, c
  <2> QED BY <1>1, <1>2, <2>1, <2>2, <2>3, <2>4
<1> QED BY <1>3, <1>4

\* If all do, an object may come.
LEMMA AllTake ==
  ASSUME NEW h, HeapOK(h), NEW t, AllWait(t, h), AllFit(t, h)
  PROVE  Waiting(ShownAll(t)) /\ IsSeq(t)
<1>1. IsSeq(t)
  BY DEF AllWait
<1>2. \A k \in 1 .. Len(t) : Room(t[k])
  <2> SUFFICES ASSUME NEW k \in 1 .. Len(t) PROVE Room(t[k])
    OBVIOUS
  <2>1. Plain(t[k], h) /\ Waits(t[k]) /\ Fits(t[k], h)
    BY DEF AllWait, AllFit
  <2> QED BY <2>1, WaitsRoom
<1> QED BY <1>1, <1>2, ShownTakes

\* A container on top that is full ends.
LEMMA EndsRead ==
  ASSUME NEW t, IsSeq(t), t # <<>>, Last(t).kind \notin Hidden, IsFull(ContainerOf(Last(t))),
         NEW s, s \in Seq(Byte), NEW k, NEW w, Reaches(s, At(k, ShownAll(t), w))
  PROVE  Reaches(s, With(At(k, ShownAll(Front(t)), w), ObjectOf(ContainerOf(Last(t)))))
<1> DEFINE c == ContainerOf(Last(t))
           p == ShownAll(Front(t))
           o == ShownAll(t)
<1>1. IsSeq(Front(t)) /\ o = Append(p, c)
  BY ShownLast, LastOnFront
<1>2. IsSeq(p)
  BY <1>1, ShownIsSeq
<1>3. IsFull(c) /\ Reaches(s, At(k, o, w))
  OBVIOUS
<1> HIDE DEF c, p, o
<1>4. o # <<>> /\ Last(o) = c /\ Front(o) = p
  BY <1>1, <1>2, AppendedIs
<1>5. ~Waiting(o)
  BY <1>3, <1>4 DEF Waiting
<1>6. Reaches(s, With(At(k, Front(o), w), ObjectOf(Last(o))))
  BY <1>3, <1>5, ReadsEnd
<1> QED BY <1>4, <1>6 DEF c, p

\* what a container that the packer has ended stands for
EndsAs(f) ==
  CASE f.kind = "tag" -> ProcessTag(f.value[2], f.seen[1])
    [] f.kind = "array" -> <<"array", f.seen>>
    [] f.kind = "hash" -> <<"hash", Pairs(f.seen)>>
    [] f.kind = "header" -> IF f.value = MapType THEN <<"hash", Pairs(f.seen)>> ELSE <<"array", f.seen>>

\* The reader makes the same of it.
LEMMA ObjectIs ==
  ASSUME NEW f, f.kind \in {"tag", "array", "hash", "header"},
         f.kind = "header" => f.value \in {ArrayType, MapType}
  PROVE  ObjectOf(ContainerOf(f)) = EndsAs(f)
<1> DEFINE c == ContainerOf(f)
<1>1. c.type = TypeOf(f) /\ c.tag = TagOf(f) /\ c.seen = f.seen
  BY DEF ContainerOf
<1> HIDE DEF c
<1>2. c.type = 4 => ObjectOf(c) = <<"array", c.seen>>
  <2> SUFFICES ASSUME c.type = 4 PROVE ObjectOf(c) = <<"array", c.seen>>
    OBVIOUS
  <2>1. c.type \notin {2, 3} /\ c.type # 5 /\ c.type # 6
    OBVIOUS
  <2> QED BY <2>1, Zenon DEF ObjectOf, ByteString, TextString, ArrayType, MapType, TagType
<1>3. c.type = 5 => ObjectOf(c) = <<"hash", Pairs(c.seen)>>
  <2> SUFFICES ASSUME c.type = 5 PROVE ObjectOf(c) = <<"hash", Pairs(c.seen)>>
    OBVIOUS
  <2>1. c.type \notin {2, 3} /\ c.type # 4 /\ c.type # 6
    OBVIOUS
  <2> QED BY <2>1, Zenon DEF ObjectOf, ByteString, TextString, ArrayType, MapType, TagType
<1>4. c.type = 6 => ObjectOf(c) = ProcessTag(c.tag, c.seen[1])
  <2> SUFFICES ASSUME c.type = 6 PROVE ObjectOf(c) = ProcessTag(c.tag, c.seen[1])
    OBVIOUS
  <2>1. c.type \notin {2, 3} /\ c.type # 4 /\ c.type # 5
    OBVIOUS
  <2> QED BY <2>1, Zenon DEF ObjectOf, ByteString, TextString, ArrayType, MapType, TagType
<1>5. CASE f.kind = "tag"
  <2>1. c.type = 6 /\ c.tag = f.value[2]
    BY <1>1, <1>5 DEF TypeOf, TagOf, TagType
  <2>2. EndsAs(f) = ProcessTag(f.value[2], f.seen[1])
    BY <1>5, Zenon DEF EndsAs
  <2> QED BY <1>1, <1>4, <2>1, <2>2 DEF c
<1>6. CASE f.kind = "array"
  <2>1. c.type = 4
    BY <1>1, <1>6 DEF TypeOf, ArrayType
  <2>2. EndsAs(f) = <<"array", f.seen>>
    BY <1>6 DEF EndsAs
  <2> QED BY <1>1, <1>2, <2>1, <2>2 DEF c
<1>7. CASE f.kind = "hash"
  <2>1. c.type = 5
    BY <1>1, <1>7 DEF TypeOf, MapType
  <2>2. EndsAs(f) = <<"hash", Pairs(f.seen)>>
    BY <1>7 DEF EndsAs
  <2> QED BY <1>1, <1>3, <2>1, <2>2 DEF c
<1>8. CASE f.kind = "header"
  <2>1. c.type = f.value /\ (f.value = 4 \/ f.value = 5)
    BY <1>1, <1>8 DEF TypeOf, ArrayType, MapType
  <2>2. EndsAs(f) = IF f.value = 5 THEN <<"hash", Pairs(f.seen)>> ELSE <<"array", f.seen>>
    BY <1>8 DEF EndsAs, MapType
  <2> QED BY <1>1, <1>2, <1>3, <2>1, <2>2 DEF c
<1> QED BY <1>5, <1>6, <1>7, <1>8

-----------------------------------------------------------------------------
(* What is kept *)

\* All bytes, those sent and those in the buffer.
Out == sent \o buffer

\* Read from the first to the last, they are what has been written and the
\* containers that are open.
Stood == Reaches(Out, Stands(todo, written, Total + 1))

\* Those before the outermost call are what an exception leaves.
Before == Reaches(SubSeq(Out, 1, mark), At(mark + 1, ShownAll(Caught(todo)), written))

ReadInv == FirstOK(todo) /\ (~damaged => Stood) /\ (~damaged /\ ~Outside => Before)

\* the calls have the same outermost one
SameCall == ~Outside' => /\ ~Outside /\ mark' = mark /\ mark <= Total /\ written' = written
                         /\ Caught(todo') = Caught(todo)

\* The bytes are as many as there are.
LEMMA OutIs ==
  ASSUME BytesOK
  PROVE  Out \in Seq(Byte) /\ Len(Out) = Total /\ Total \in Nat /\ mark \in Nat
<1>1. sent \in Seq(Byte) /\ buffer \in Seq(Byte)
  BY DEF BytesOK
<1>2. Out \in Seq(Byte)
  BY ONLY <1>1, Joined DEF Out
<1> QED BY <1>2, Totals DEF Out

\* Bytes go out.
LEMMA EmitsOut ==
  ASSUME BytesOK, NEW x, x \in Seq(Byte), Emits(x)
  PROVE  Out' = Out \o x
<1>1. buffer \in Seq(Byte) /\ sent \in Seq(Byte)
  BY DEF BytesOK
<1>2. (sent \o buffer) \o x = sent \o (buffer \o x)
  BY ONLY <1>1, x \in Seq(Byte), ConcatAssociative
<1>3. Out' = sent' \o buffer'
  BY DEF Out
<1>4. CASE buffer' = buffer \o x /\ sent' = sent
  BY <1>2, <1>3, <1>4 DEF Out
<1>5. CASE sent' = sent \o buffer /\ buffer' = x
  BY <1>3, <1>5 DEF Out
<1> QED BY <1>4, <1>5 DEF Emits

\* The buffer is flushed, or nothing is written.
LEMMA StaysOut ==
  ASSUME BytesOK, UNCHANGED <<buffer, sent>> \/ (sent' = sent \o buffer /\ buffer' = <<>>)
  PROVE  Out' = Out /\ Total' = Total
<1>1. buffer \in Seq(Byte) /\ sent \in Seq(Byte) /\ <<>> \in Seq(Byte) /\ Out \in Seq(Byte)
      /\ Len(Out) = Total /\ Total \in Nat
  BY EmptySeq, OutIs DEF BytesOK
<1>2. Out' = sent' \o buffer'
  BY DEF Out
<1>3. CASE UNCHANGED <<buffer, sent>>
  BY <1>2, <1>3 DEF Out, Total
<1>4. CASE sent' = sent \o buffer /\ buffer' = <<>>
  <2>1. Out \o <<>> = Out
    BY ONLY <1>1, ConcatEmptySeq
  <2>2. sent' = Out
    BY <1>4 DEF Out
  <2>3. Total' = Len(Out) + 0
    BY <1>4, <2>2, EmptyIsSeq DEF Total
  <2>4. Total' = Total
    BY ONLY <1>1, <2>3
  <2> QED BY <1>2, <1>4, <2>1, <2>2, <2>4
<1> QED BY <1>3, <1>4

\* A step of a call that is under way.
LEMMA StepReads ==
  ASSUME BytesOK, ReadInv, damaged => damaged', SameCall, FirstOK(todo'), ~damaged' => Stood',
         NEW x, x \in Seq(Byte), Out' = Out \o x
  PROVE  ReadInv'
<1>1. Out \in Seq(Byte) /\ Len(Out) = Total /\ Total \in Nat /\ mark \in Nat
  BY OutIs
<1>2. ASSUME ~damaged', ~Outside' PROVE Before'
  <2>1. ~damaged /\ ~Outside /\ mark' = mark /\ mark <= Total /\ written' = written
        /\ Caught(todo') = Caught(todo)
    BY <1>2 DEF SameCall
  <2>2. Before
    BY <2>1 DEF ReadInv
  <2> DEFINE n == mark
  <2>3. SubSeq(Out \o x, 1, n) = SubSeq(Out, 1, n)
    <3>1. 1 + n - 1 = n /\ n <= Len(Out) /\ n \in Nat /\ 1 \in Nat \ {0}
      BY <1>1, <2>1
    <3> HIDE DEF n
    <3>2. SubSeq(Out \o x, 1, 1 + n - 1) = SubSeq(Out, 1, 1 + n - 1)
      <4>1. 1 + n - 1 <= Len(Out)
        BY <3>1
      <4> QED BY <1>1, <3>1, <4>1, CutStays
    <3> QED BY <3>1, <3>2
  <2>4. Before' = Reaches(SubSeq(Out', 1, mark'), At(mark' + 1, ShownAll(Caught(todo')), written'))
    BY DEF Before
  <2> QED BY <2>1, <2>2, <2>3, <2>4 DEF Before
<1> QED BY <1>2 DEF ReadInv

\* Nothing is written.
LEMMA SilentReads ==
  ASSUME BytesOK, ReadInv, damaged => damaged', SameCall, FirstOK(todo'), Out' = Out, Total' = Total,
         written' = written, \A k : Stands(todo', written, k) = Stands(todo, written, k)
  PROVE  ReadInv'
<1>1. Out \in Seq(Byte) /\ <<>> \in Seq(Byte)
  BY OutIs, EmptySeq
<1>2. Out \o <<>> = Out
  BY ONLY <1>1, ConcatEmptySeq
<1>3. ASSUME ~damaged' PROVE Stood'
  <2>1. Stood
    BY <1>3 DEF ReadInv
  <2>2. Stood' = Reaches(Out', Stands(todo', written', Total' + 1))
    BY DEF Stood
  <2> QED BY <2>1, <2>2 DEF Stood
<1>4. Out' = Out \o <<>>
  BY <1>2
<1> QED BY <1>1, <1>3, <1>4, StepReads

\* A call from outside begins, and nothing is written yet.
LEMMA BeginsReads ==
  ASSUME BytesOK, IsSeq(todo), ReadInv, damaged' = damaged, Outside, mark' = Total, Caught(todo') = Caught(todo),
         FirstOK(todo'), Out' = Out, Total' = Total, written' = written,
         \A k : Stands(todo', written, k) = Stands(todo, written, k)
  PROVE  ReadInv'
<1>1. Out \in Seq(Byte) /\ Len(Out) = Total
  BY OutIs
<1>2. ASSUME ~damaged' PROVE Stood' /\ Before'
  <2>1. Stood
    BY <1>2 DEF ReadInv
  <2>2. Stood' = Reaches(Out', Stands(todo', written', Total' + 1))
    BY DEF Stood
  <2>3. Stood'
    BY <2>1, <2>2 DEF Stood
  <2>4. OnlyHeaders(todo) /\ FirstOK(todo)
    BY DEF Outside, OnlyHeaders, ReadInv
  <2>5. Caught(todo) = todo /\ (todo = <<>> \/ todo = <<todo[1]>>)
    BY <2>4, CaughtAll
  <2>6. todo # <<>> => Last(todo).kind \notin {"foreign", "encode"}
    <3>1. todo # <<>> => Len(todo) \in DOMAIN todo /\ Last(todo) = todo[Len(todo)]
      BY LengthOf
    <3> QED BY <2>4, <3>1 DEF OnlyHeaders
  <2>7. Stands(todo, written, Total + 1) = At(Total + 1, ShownAll(todo), written)
    BY <2>6, StandsOther
  <2>8. SubSeq(Out, 1, Total) = Out
    BY ONLY <1>1, SubSeqFull
  <2>9. Before' = Reaches(SubSeq(Out', 1, mark'), At(mark' + 1, ShownAll(Caught(todo')), written'))
    BY DEF Before
  <2> QED BY <2>1, <2>3, <2>5, <2>7, <2>8, <2>9 DEF Stood
<1> QED BY <1>2 DEF ReadInv

-----------------------------------------------------------------------------
(* Stacks in a step *)

\* A frame that is no header changes nothing at the bottom.
LEMMA CaughtPlain ==
  ASSUME NEW t, IsSeq(t), FirstOK(t), NEW f, f.kind # "header"
  PROVE  LET u == Append(t, f) IN IsSeq(u) /\ FirstOK(u) /\ Caught(u) = Caught(t)
<1>1. MayCome(t, f)
  BY DEF MayCome
<1> QED BY <1>1, CaughtPush, AppendOf

\* The frame on top.
LEMMA TopReads ==
  ASSUME TypeInv, todo # <<>>, FirstOK(todo)
  PROVE  /\ IsSeq(todo) /\ IsSeq(Below) /\ FirstOK(Below) /\ AllWait(Below, heap)
         /\ Plain(Top, heap) /\ OnTop(Top)
         /\ Below # <<>> \/ Top.kind # "header" => Caught(Below) = Caught(todo)
         /\ Top.kind # "header" => ~Outside
         /\ ShownAll(todo) = IF Top.kind \in Hidden THEN ShownAll(Below)
                             ELSE Append(ShownAll(Below), ContainerOf(Top))
<1>1. IsSeq(todo) /\ Counted(todo, heap)
  BY DEF TypeInv, Typed, Counted
<1>2. Plain(Top, heap) /\ OnTop(Top) /\ AllWait(Below, heap)
  BY <1>1, TopCounted DEF Top, Below
<1>3. FirstOK(Below) /\ (Below # <<>> \/ Top.kind # "header" => Caught(Below) = Caught(todo))
  BY <1>1, CaughtPop DEF Top, Below
<1>4. IsSeq(Below)
  BY <1>1, LastOnFront DEF Below
<1>5. Top.kind # "header" => ~Outside
  <2>1. Len(todo) \in DOMAIN todo /\ Top = todo[Len(todo)]
    BY <1>1, LengthOf DEF Top
  <2> QED BY <2>1 DEF Outside
<1>6. ShownAll(todo) = IF Top.kind \in Hidden THEN ShownAll(Below)
                       ELSE Append(ShownAll(Below), ContainerOf(Top))
  BY <1>1, ShownLast DEF Top, Below
<1> QED BY <1>1, <1>2, <1>3, <1>4, <1>5, <1>6

\* Where the next bytes go, an object may come.
LEMMA BelowTakes ==
  ASSUME TypeInv, todo # <<>>, ~damaged
  PROVE  Waiting(ShownAll(Below))
<1>1. HeapOK(heap) /\ StackOK(todo, heap) /\ AllFit(todo, heap)
  BY DEF TypeInv, Inv
<1>2. AllFit(Below, heap)
  BY <1>1, FrontGood DEF Below
<1>3. AllWait(Below, heap)
  BY TopCounted DEF TypeInv, Typed, Below
<1> QED BY <1>1, <1>2, <1>3, AllTake

\* An item is on top.
LEMMA ItemReady ==
  ASSUME TypeInv, ReadInv, TopIs("item"), ~damaged
  PROVE  Ready(Out, ShownAll(Below), written)
<1>1. todo # <<>> /\ Top.kind = "item" /\ FirstOK(todo) /\ BytesOK
  BY DEF TopIs, ReadInv, TypeInv, Typed
<1>2. ShownAll(todo) = ShownAll(Below)
  BY <1>1, TopReads DEF Hidden
<1>3. Stands(todo, written, Total + 1) = At(Total + 1, ShownAll(todo), written)
  BY <1>1, StandsOther DEF Top
<1>4. Stood
  BY DEF ReadInv
<1>5. Waiting(ShownAll(Below))
  BY <1>1, BelowTakes
<1>6. Out \in Seq(Byte) /\ Len(Out) = Total
  BY <1>1, OutIs
<1> QED BY <1>2, <1>3, <1>4, <1>5, <1>6 DEF Stood, Ready

\* A value is complete.
LEMMA CompletesReads ==
  ASSUME TypeInv, todo # <<>>, FirstOK(todo), mark <= Total, mark' = mark, NEW v, Completes(v)
  PROVE  /\ FirstOK(todo') /\ SameCall
         /\ \A k : Stands(todo', written', k) = With(At(k, ShownAll(Below), written), v)
<1>1. /\ IsSeq(todo) /\ IsSeq(Below) /\ FirstOK(Below) /\ AllWait(Below, heap)
      /\ Below # <<>> => Caught(Below) = Caught(todo)
  BY TopReads
<1>2. Completed(Below, written, v, todo', written')
  BY DEF Completes, Completed
<1>3. \A k : Stands(todo', written', k) = With(At(k, ShownAll(Below), written), v)
  BY <1>1, <1>2, StandsCompleted
<1>4. FirstOK(todo') /\ (~OnlyHeaders(todo') => Below # <<>> /\ Caught(todo') = Caught(Below) /\ written' = written)
  BY <1>1, <1>2, CaughtCompleted
<1>5. Outside' <=> OnlyHeaders(todo')
  BY DEF Outside, OnlyHeaders
<1>6. Outside => Below = <<>>
  <2> SUFFICES ASSUME Outside PROVE Below = <<>>
    OBVIOUS
  <2>1. todo = <<todo[1]>>
    BY <1>1, CaughtAll DEF Outside, OnlyHeaders
  <2> DEFINE n == Len(todo)
             m == Len(Below)
  <2>2. n = 1
    BY <2>1
  <2>3. m = n - 1
    BY <1>1, FrontOf DEF Below
  <2>4. Below # <<>> => m > 0
    BY <1>1, LengthOf
  <2> HIDE DEF n, m
  <2> QED BY <2>2, <2>3, <2>4
<1>7. SameCall
  BY <1>1, <1>4, <1>5, <1>6 DEF SameCall
<1> QED BY <1>3, <1>4, <1>7

\* What FormTypes says of the mark.
LEMMA MarkIs ==
  ASSUME FormTypes
  PROVE  TypeInv /\ BytesOK /\ IsSeq(todo) /\ (todo # <<>> => mark <= Total)
         /\ (Encoding(todo) => mark <= Len(sent))
BY DEF FormTypes, FormInv, SentBefore, TypeInv, Typed, Counted

-----------------------------------------------------------------------------
(* The steps *)

\* A value without elements.
LEMMA LeafStep ==
  ASSUME PlainSimples, FormTypes, BytesOK', ReadInv, WriteLeaf
  PROVE  ReadInv'
<1> DEFINE v == Top.value
           x == LeafBytes(v)
           m == LeafMeaning(v)
           o == ShownAll(Below)
<1>1. TypeInv /\ BytesOK /\ TopIs("item") /\ todo # <<>> /\ FirstOK(todo) /\ mark <= Total
  BY MarkIs DEF WriteLeaf, TopIs, ReadInv
<1>2. v \in Values /\ v[1] \in Leaves
  <2>1. Typed
    BY <1>1 DEF TypeInv
  <2> QED BY <1>1, <2>1, TopTyped DEF WriteLeaf
<1>3. Emits(x) /\ Completes(m) /\ mark' = mark /\ damaged' = damaged
  BY DEF WriteLeaf
<1>4. x \in Seq(Byte) /\ ReadAs(x, m)
  BY <1>2, LeafType, LeafRead
<1> HIDE DEF v, x, m
<1>5. Out' = Out \o x
  BY <1>1, <1>3, <1>4, EmitsOut
<1>6. /\ FirstOK(todo') /\ SameCall
      /\ \A k : Stands(todo', written', k) = With(At(k, o, written), m)
  BY <1>1, <1>3, CompletesReads
<1>7. ASSUME ~damaged' PROVE Stood'
  <2>1. Ready(Out, o, written)
    BY <1>1, <1>3, <1>7, ItemReady
  <2>2. Reaches(Out \o x, With(At(Len(Out \o x) + 1, o, written), m))
    BY <1>4, <2>1 DEF ReadAs
  <2>3. Len(Out') = Total'
    BY Totals DEF Out, BytesOK, Total
  <2>4. Stood' = Reaches(Out', Stands(todo', written', Total' + 1))
    BY DEF Stood
  <2> QED BY <1>5, <1>6, <2>2, <2>3, <2>4
<1> QED BY <1>1, <1>3, <1>4, <1>5, <1>6, <1>7, StepReads

\* The head of a container on top, with or without a part of it.
LEMMA OpensStep ==
  ASSUME FormTypes, BytesOK', ReadInv, TopIs("item"),
         NEW type \in {ArrayType, MapType, TagType}, NEW n \in Lengths,
         Emits(WriteHead(type, Number(n))), UNCHANGED <<written, mark, damaged>>,
         NEW f, f.kind \in {"array", "hash", "tag"}, ContainerOf(f) = Opened(type, n),
         \/ todo' = Append(Below, f)
         \/ \E v : todo' = Append(Append(Below, f), Item(v))
  PROVE  ReadInv'
<1> DEFINE x == WriteHead(type, Number(n))
           c == Opened(type, n)
           o == ShownAll(Below)
           u == Append(Below, f)
<1>1. TypeInv /\ BytesOK /\ todo # <<>> /\ Top.kind = "item" /\ FirstOK(todo) /\ mark <= Total
  BY MarkIs DEF TopIs, ReadInv
<1>2. x \in Seq(Byte) /\ OpensAs(x, c)
  BY CountType, OpeningRead
<1>3. Emits(x) /\ ContainerOf(f) = c /\ mark' = mark /\ damaged' = damaged /\ written' = written
  OBVIOUS
<1>4. f.kind # "header" /\ f.kind \notin Hidden
  BY DEF Hidden
<1> HIDE DEF x, c
<1>5. Out' = Out \o x
  BY <1>1, <1>2, <1>3, EmitsOut
<1>6. IsSeq(Below) /\ FirstOK(Below) /\ Caught(Below) = Caught(todo) /\ ~Outside
  BY <1>1, TopReads
<1>7. IsSeq(u) /\ FirstOK(u) /\ Caught(u) = Caught(todo)
  BY <1>4, <1>6, CaughtPlain
<1>8. ShownAll(u) = Append(o, c)
  BY <1>3, <1>4, <1>6, ShownAppend
<1>9. u # <<>> /\ Last(u) = f
  BY <1>6, AppendedIs
<1>10. todo' = u \/ \E v : todo' = Append(u, Item(v))
  OBVIOUS
<1> HIDE DEF u
<1>11. FirstOK(todo') /\ Caught(todo') = Caught(todo)
       /\ \A k : Stands(todo', written', k) = At(k, Append(o, c), written')
  <2>1. CASE todo' = u
    <3>1. Last(u).kind \notin {"foreign", "encode"}
      BY <1>9
    <3> QED BY <1>7, <1>8, <2>1, <3>1, StandsOther
  <2>2. CASE \E v : todo' = Append(u, Item(v))
    <3>1. PICK v : todo' = Append(u, Item(v))
      BY <2>2
    <3> DEFINE g == Item(v)
    <3>2. g.kind = "item"
      BY DEF Item, Frame
    <3> HIDE DEF g
    <3>3. todo' = Append(u, g)
      BY <3>1 DEF g
    <3>4. FirstOK(todo') /\ Caught(todo') = Caught(todo)
      BY <1>7, <3>2, <3>3, CaughtPlain
    <3>5. ShownAll(todo') = ShownAll(u)
      BY <1>7, <3>2, <3>3, ShownAppend DEF Hidden
    <3>6. Last(todo').kind = "item"
      BY <1>7, <3>2, <3>3, AppendedIs
    <3> QED BY <1>8, <3>4, <3>5, <3>6, StandsOther
  <2> QED BY <1>10, <2>1, <2>2
<1>12. ASSUME ~damaged' PROVE Stood'
  <2>1. Ready(Out, o, written)
    BY <1>1, <1>3, <1>12, ItemReady
  <2>2. Reaches(Out \o x, At(Len(Out \o x) + 1, Append(o, c), written))
    BY <1>2, <2>1 DEF OpensAs
  <2>3. Len(Out') = Total'
    BY Totals DEF Out, BytesOK, Total
  <2>4. Stood' = Reaches(Out', Stands(todo', written', Total' + 1))
    BY DEF Stood
  <2> QED BY <1>3, <1>5, <1>11, <2>2, <2>3, <2>4
<1>13. SameCall
  BY <1>1, <1>3, <1>6, <1>11 DEF SameCall
<1> QED BY <1>1, <1>2, <1>3, <1>5, <1>11, <1>12, <1>13, StepReads

\* What the head of a new container says.
LEMMA NewContainer ==
  ASSUME NEW o, NEW n \in Nat, NEW v
  PROVE  /\ ContainerOf(Frame("array", o, n, v)) = Opened(ArrayType, n)
         /\ ContainerOf(Frame("hash", o, n, v)) = Opened(MapType, n)
         /\ ContainerOf(Frame("tag", o, 1, v)) = Opened(TagType, v[2])
<1>1. ContainerOf(Frame("array", o, n, v)) = Opened(ArrayType, n)
  <2> DEFINE f == Frame("array", o, n, v)
  <2>1. f.kind = "array" /\ f.need = n /\ f.seen = <<>>
    BY DEF Frame
  <2> HIDE DEF f
  <2>2. TypeOf(f) = ArrayType /\ NeedOf(f) = n /\ TagOf(f) = 0
    BY <2>1 DEF TypeOf, NeedOf, TagOf
  <2>3. Opened(ArrayType, n) = Container(ArrayType, n, 0)
    BY DEF Opened, ArrayType, MapType, TagType
  <2> QED BY <2>1, <2>2, <2>3 DEF ContainerOf, Container, f
<1>2. ContainerOf(Frame("hash", o, n, v)) = Opened(MapType, n)
  <2> DEFINE f == Frame("hash", o, n, v)
  <2>1. f.kind = "hash" /\ f.need = n /\ f.seen = <<>>
    BY DEF Frame
  <2> HIDE DEF f
  <2>2. TypeOf(f) = MapType /\ NeedOf(f) = 2 * n /\ TagOf(f) = 0
    BY <2>1 DEF TypeOf, NeedOf, TagOf
  <2>3. Opened(MapType, n) = Container(MapType, 2 * n, 0)
    BY DEF Opened, ArrayType, MapType, TagType
  <2> QED BY <2>1, <2>2, <2>3 DEF ContainerOf, Container, f
<1>3. ContainerOf(Frame("tag", o, 1, v)) = Opened(TagType, v[2])
  <2> DEFINE f == Frame("tag", o, 1, v)
             m == v[2]
  <2>1. f.kind = "tag" /\ f.need = 1 /\ f.seen = <<>> /\ f.value[2] = m
    BY DEF Frame
  <2> HIDE DEF f, m
  <2>2. TypeOf(f) = TagType /\ NeedOf(f) = 1 /\ TagOf(f) = m
    BY <2>1 DEF TypeOf, NeedOf, TagOf
  <2>3. Opened(TagType, m) = Container(TagType, 1, m)
    BY DEF Opened, ArrayType, MapType, TagType
  <2> QED BY <2>1, <2>2, <2>3 DEF ContainerOf, Container, f, m
<1> QED BY <1>1, <1>2, <1>3

\* A tag, an array or a hash.
LEMMA OpensReads ==
  ASSUME FormTypes, BytesOK', ReadInv, WriteTagged \/ WriteArray \/ WriteHash
  PROVE  ReadInv'
<1>1. TypeInv /\ Inv /\ Typed
  BY MarkIs DEF TypeInv
<1>2. CASE WriteTagged
  <2> DEFINE n == Top.value[2]
             f == Frame("tag", Nil, 1, Top.value)
  <2>1. /\ TopIs("item") /\ Emits(WriteHead(TagType, Number(n))) /\ UNCHANGED <<written, mark, damaged>>
        /\ todo' = Append(Append(Below, f), Item(Top.value[3])) /\ Top.value[1] = "tagged"
    BY <1>2 DEF WriteTagged
  <2>2. Top.value \in Values
    BY <1>1, <2>1, TopTyped
  <2>3. n \in Lengths
    BY <2>1, <2>2, ValueAssumption
  <2>4. f.kind = "tag" /\ ContainerOf(f) = Opened(TagType, n)
    <3>1. 1 \in Nat
      OBVIOUS
    <3> QED BY <3>1, NewContainer DEF Frame
  <2> HIDE DEF f, n
  <2>5. \E v : todo' = Append(Append(Below, f), Item(v))
    BY <2>1
  <2>6. TagType \in {ArrayType, MapType, TagType} /\ f.kind \in {"array", "hash", "tag"}
    BY <2>4
  <2> QED BY <2>1, <2>3, <2>4, <2>5, <2>6, OpensStep
<1>3. CASE WriteArray
  <2> DEFINE o == Top.value[2]
             n == Len(Contents(o))
             f == Frame("array", o, n, Nil)
  <2>1. /\ TopIs("item") /\ Emits(WriteHead(ArrayType, Number(n))) /\ UNCHANGED <<written, mark, damaged>>
        /\ todo' = Append(Below, f) /\ o \in Object
    BY <1>3 DEF WriteArray, IsObject
  <2>2. n \in Lengths /\ n \in Nat
    <3>1. n \in Lengths
      BY <1>1, <2>1, SizeType
    <3> QED BY <3>1 DEF Lengths
  <2> HIDE DEF n, o
  <2>3. f.kind = "array" /\ ContainerOf(f) = Opened(ArrayType, n)
    BY <2>2, NewContainer DEF Frame
  <2> HIDE DEF f
  <2>4. ArrayType \in {ArrayType, MapType, TagType} /\ f.kind \in {"array", "hash", "tag"}
    BY <2>3
  <2> QED BY <2>1, <2>2, <2>3, <2>4, OpensStep
<1>4. CASE WriteHash
  <2> DEFINE o == Top.value[2]
             n == Size(o)
             f == Frame("hash", o, n, Nil)
  <2>1. /\ TopIs("item") /\ Emits(WriteHead(MapType, Number(n))) /\ UNCHANGED <<written, mark, damaged>>
        /\ todo' = Append(Below, f) /\ o \in Object
    BY <1>4 DEF WriteHash, IsObject
  <2>2. n \in Lengths /\ n \in Nat
    <3>1. n \in Lengths
      BY <1>1, <2>1, SizeType
    <3> QED BY <3>1 DEF Lengths
  <2> HIDE DEF n, o
  <2>3. f.kind = "hash" /\ ContainerOf(f) = Opened(MapType, n)
    BY <2>2, NewContainer DEF Frame
  <2> HIDE DEF f
  <2>4. MapType \in {ArrayType, MapType, TagType} /\ f.kind \in {"array", "hash", "tag"}
    BY <2>3
  <2> QED BY <2>1, <2>2, <2>3, <2>4, OpensStep
<1> QED BY <1>2, <1>3, <1>4

\* A value is complete of which all parts are written.
LEMMA EndsReads ==
  ASSUME FormTypes, BytesOK', ReadInv,
         TagEnds \/ ArrayEnds \/ HashEnds \/ HeaderEnds \/ ForeignReturns \/ EncodeReturns
  PROVE  ReadInv'
<1> DEFINE o == ShownAll(Below)
<1>1. TypeInv /\ BytesOK /\ Typed /\ Inv /\ IsSeq(todo) /\ FirstOK(todo)
  BY MarkIs DEF TypeInv, ReadInv
<1>2. todo # <<>> /\ mark <= Total /\ mark' = mark /\ damaged' = damaged
  BY MarkIs DEF TagEnds, ArrayEnds, HashEnds, HeaderEnds, ForeignReturns, EncodeReturns, TopIs
<1>3. Out' = Out /\ Total' = Total
  <2>1. UNCHANGED <<buffer, sent>> \/ (sent' = sent \o buffer /\ buffer' = <<>>)
    BY DEF TagEnds, ArrayEnds, HashEnds, HeaderEnds, ForeignReturns, EncodeReturns
  <2> QED BY <1>1, <2>1, StaysOut
<1>4. \E v : Completes(v) /\ (~damaged => Reaches(Out, With(At(Total + 1, o, written), v)))
  <2>1. /\ Plain(Top, heap) /\ OnTop(Top)
        /\ ShownAll(todo) = IF Top.kind \in Hidden THEN o ELSE Append(o, ContainerOf(Top))
    BY <1>1, <1>2, TopReads
  <2>2. ASSUME Top.kind \in {"tag", "array", "hash", "header"},
               ~damaged => Len(Top.seen) = NeedOf(Top)
        PROVE  ~damaged => Reaches(Out, With(At(Total + 1, o, written), EndsAs(Top)))
    <3> SUFFICES ASSUME ~damaged
                 PROVE  Reaches(Out, With(At(Total + 1, o, written), EndsAs(Top)))
      OBVIOUS
    <3>1. Top.kind \notin Hidden /\ Top.kind \notin {"foreign", "encode"}
      BY <2>2 DEF Hidden
    <3>2. IsFull(ContainerOf(Top))
      BY <2>2 DEF IsFull, ContainerOf
    <3>3. Reaches(Out, At(Total + 1, ShownAll(todo), written))
      <4>1. Stands(todo, written, Total + 1) = At(Total + 1, ShownAll(todo), written)
        BY <3>1, StandsOther DEF Top
      <4> QED BY <4>1 DEF ReadInv, Stood
    <3>4. Out \in Seq(Byte)
      BY <1>1, OutIs
    <3>5. Reaches(Out, With(At(Total + 1, o, written), ObjectOf(ContainerOf(Top))))
      BY <1>1, <1>2, <3>1, <3>2, <3>3, <3>4, EndsRead DEF Top, Below
    <3>6. ObjectOf(ContainerOf(Top)) = EndsAs(Top)
      BY <2>1, <2>2, ObjectIs DEF Plain
    <3> QED BY <3>5, <3>6
  <2>3. CASE TagEnds
    <3>1. Top.kind = "tag" /\ Len(Top.seen) = Top.need /\ Completes(ProcessTag(Top.value[2], Top.seen[1]))
      BY <2>3 DEF TagEnds, TopIs, Complete
    <3>2. EndsAs(Top) = ProcessTag(Top.value[2], Top.seen[1])
      BY <3>1, Zenon DEF EndsAs
    <3>3. NeedOf(Top) = Top.need
      BY <3>1 DEF NeedOf
    <3> QED BY <2>2, <3>1, <3>2, <3>3
  <2>4. CASE ArrayEnds
    <3>1. Top.kind = "array" /\ ~(Top.i < Top.need) /\ Completes(<<"array", Top.seen>>)
      BY <2>4 DEF ArrayEnds, TopIs, More
    <3>2. EndsAs(Top) = <<"array", Top.seen>>
      BY <3>1 DEF EndsAs
    <3>3. NeedOf(Top) = Len(Top.seen)
      <4>1. Top.i <= Top.need /\ Len(Top.seen) = Top.i /\ Top.i \in Nat /\ Top.need \in Nat
        BY <2>1, <3>1 DEF OnTop, Plain
      <4>2. NeedOf(Top) = Top.need
        BY <3>1 DEF NeedOf
      <4> QED BY <3>1, <4>1, <4>2
    <3> QED BY <2>2, <3>1, <3>2, <3>3
  <2>5. CASE HashEnds
    <3>1. Top.kind = "hash" /\ Len(Top.seen) = 2 * Top.i /\ LiveAfter(Top.obj, Top.at) = {}
          /\ Completes(<<"hash", Pairs(Top.seen)>>)
      BY <2>5 DEF HashEnds, TopIs
    <3>2. EndsAs(Top) = <<"hash", Pairs(Top.seen)>>
      BY <3>1 DEF EndsAs
    <3>3. ~damaged => Len(Top.seen) = NeedOf(Top)
      <4> SUFFICES ASSUME ~damaged PROVE Len(Top.seen) = NeedOf(Top)
        OBVIOUS
      <4>1. Fits(Top, heap)
        BY <1>1, <1>2, TopGood DEF Inv
      <4>2. Live(heap, Top.obj, Top.at) = {}
        BY <3>1 DEF Live, LiveAfter, Contents, Contained
      <4>3. Top.i + 0 = Top.need
        BY <3>1, <4>1, <4>2, FS_EmptySet DEF Fits
      <4>4. Top.i \in Nat
        BY <2>1 DEF Plain
      <4>5. NeedOf(Top) = 2 * Top.need
        BY <3>1 DEF NeedOf
      <4> DEFINE i == Top.i
                 need == Top.need
      <4>6. i \in Nat /\ i + 0 = need /\ Len(Top.seen) = 2 * i /\ NeedOf(Top) = 2 * need
        BY <3>1, <4>3, <4>4, <4>5
      <4> HIDE DEF i, need
      <4> QED BY ONLY <4>6
    <3> QED BY <2>2, <3>1, <3>2, <3>3
  <2>6. CASE HeaderEnds
    <3>1. Top.kind = "header" /\ Len(Top.seen) = Top.need
          /\ Completes(IF Top.value = MapType THEN <<"hash", Pairs(Top.seen)>> ELSE <<"array", Top.seen>>)
      BY <2>6 DEF HeaderEnds, TopIs, Complete
    <3>2. EndsAs(Top) = IF Top.value = MapType THEN <<"hash", Pairs(Top.seen)>> ELSE <<"array", Top.seen>>
      BY <3>1 DEF EndsAs
    <3>3. NeedOf(Top) = Top.need
      BY <3>1 DEF NeedOf
    <3> QED BY <2>2, <3>1, <3>2, <3>3
  <2>7. CASE ForeignReturns \/ EncodeReturns
    <3>1. Top.kind \in {"foreign", "encode"} /\ Len(Top.seen) = Top.need /\ Completes(Top.seen[1])
      BY <2>7 DEF ForeignReturns, EncodeReturns, TopIs, Complete
    <3>2. Top.seen # <<>>
      <4>1. Top.need = 1
        BY <2>1, <3>1 DEF Plain
      <4> QED BY <3>1, <4>1, EmptyIsSeq
    <3>3. Pending(todo)
      BY <1>2, <3>1, <3>2 DEF Pending, Top
    <3>4. ShownAll(todo) = o
      BY <2>1, <3>1 DEF Hidden
    <3>5. Stands(todo, written, Total + 1) = With(At(Total + 1, o, written), Top.seen[1])
      BY <3>3, <3>4 DEF Stands, Top
    <3> QED BY <3>1, <3>5 DEF ReadInv, Stood
  <2> QED BY <2>3, <2>4, <2>5, <2>6, <2>7
<1>5. PICK v : Completes(v) /\ (~damaged => Reaches(Out, With(At(Total + 1, o, written), v)))
  BY <1>4
<1>6. /\ FirstOK(todo') /\ SameCall
      /\ \A k : Stands(todo', written', k) = With(At(k, o, written), v)
  BY <1>1, <1>2, <1>5, CompletesReads
<1>7. ~damaged' => Stood'
  <2>1. Stood' = Reaches(Out', Stands(todo', written', Total' + 1))
    BY DEF Stood
  <2> QED BY <1>2, <1>3, <1>5, <1>6, <2>1
<1>8. Out' = Out \o <<>> /\ <<>> \in Seq(Byte)
  <2>1. Out \in Seq(Byte)
    BY <1>1, OutIs
  <2>2. Out \o <<>> = Out
    BY ONLY <2>1, ConcatEmptySeq
  <2> QED BY <1>3, <2>2, EmptySeq
<1> QED BY <1>1, <1>2, <1>6, <1>7, <1>8, StepReads

\* A frame that gives way to one of which the same is shown.
LEMMA PartReads ==
  ASSUME FormTypes, ReadInv, UNCHANGED <<buffer, sent, written, mark, damaged>>,
         todo # <<>>, Top.kind \in {"array", "hash"},
         NEW f, f.kind = Top.kind, ContainerOf(f) = ContainerOf(Top),
         NEW v, todo' = Append(Append(Below, f), Item(v))
  PROVE  ReadInv'
<1> DEFINE u == Append(Below, f)
           g == Item(v)
           o == ShownAll(Below)
<1>1. TypeInv /\ BytesOK /\ FirstOK(todo) /\ mark <= Total
  BY MarkIs DEF ReadInv
<1>2. Top.kind # "header" /\ Top.kind \notin Hidden /\ f.kind # "header" /\ f.kind \notin Hidden
  BY DEF Hidden
<1>3. /\ IsSeq(Below) /\ FirstOK(Below) /\ Caught(Below) = Caught(todo) /\ ~Outside
      /\ ShownAll(todo) = Append(o, ContainerOf(Top))
  BY <1>1, <1>2, TopReads
<1>4. IsSeq(u) /\ FirstOK(u) /\ Caught(u) = Caught(todo)
  BY <1>2, <1>3, CaughtPlain
<1>5. ShownAll(u) = Append(o, ContainerOf(f))
  BY <1>2, <1>3, ShownAppend
<1>6. g.kind = "item"
  BY DEF Item, Frame
<1>7. todo' = Append(u, g)
  OBVIOUS
<1> HIDE DEF u, g
<1>8. FirstOK(todo') /\ Caught(todo') = Caught(todo)
  BY <1>4, <1>6, <1>7, CaughtPlain
<1>9. ShownAll(todo') = ShownAll(todo)
  BY <1>3, <1>4, <1>5, <1>6, <1>7, ShownAppend DEF Hidden
<1>10. Last(todo').kind = "item"
  BY <1>4, <1>6, <1>7, AppendedIs
<1>11. \A k : Stands(todo', written, k) = Stands(todo, written, k)
  <2>1. \A k : Stands(todo', written, k) = At(k, ShownAll(todo'), written)
    BY <1>10, StandsOther
  <2>2. \A k : Stands(todo, written, k) = At(k, ShownAll(todo), written)
    BY StandsOther DEF Top
  <2> QED BY <1>9, <2>1, <2>2
<1>12. SameCall
  BY <1>1, <1>3, <1>8 DEF SameCall
<1>13. Out' = Out /\ Total' = Total
  BY DEF Out, Total
<1> QED BY <1>1, <1>8, <1>11, <1>12, <1>13, SilentReads

\* An item comes on top of calls that have no value yet.
LEMMA ItemReads ==
  ASSUME FormTypes, ReadInv, UNCHANGED <<buffer, sent, written, damaged>>, Marks \/ mark' = mark,
         NEW v, todo' = Append(todo, Item(v)),
         todo # <<>> => Top.kind \notin {"foreign", "encode"} \/ Top.seen = <<>>,
         Outside => Marks
  PROVE  ReadInv'
<1> DEFINE g == Item(v)
<1>1. TypeInv /\ BytesOK /\ FirstOK(todo) /\ IsSeq(todo) /\ (todo # <<>> => mark <= Total)
  BY MarkIs DEF ReadInv
<1>2. g.kind = "item"
  BY DEF Item, Frame
<1>3. todo' = Append(todo, g)
  OBVIOUS
<1> HIDE DEF g
<1>4. FirstOK(todo') /\ Caught(todo') = Caught(todo)
  BY <1>1, <1>2, <1>3, CaughtPlain
<1>5. ShownAll(todo') = ShownAll(todo)
  BY <1>1, <1>2, <1>3, ShownAppend DEF Hidden
<1>6. Last(todo').kind = "item"
  BY <1>1, <1>2, <1>3, AppendedIs
<1>7. \A k : Stands(todo', written, k) = Stands(todo, written, k)
  <2>1. \A k : Stands(todo', written, k) = At(k, ShownAll(todo'), written)
    BY <1>6, StandsOther
  <2>2. \A k : Stands(todo, written, k) = At(k, ShownAll(todo), written)
    BY StandsOther DEF Top
  <2> QED BY <1>5, <2>1, <2>2
<1>8. Out' = Out /\ Total' = Total
  BY DEF Out, Total
<1>9. CASE Outside
  <2>1. mark' = Total
    BY <1>9 DEF Marks
  <2> QED BY <1>1, <1>4, <1>7, <1>8, <1>9, <2>1, BeginsReads
<1>10. CASE ~Outside
  <2>1. mark' = mark
    BY <1>10 DEF Marks
  <2>2. todo # <<>>
    BY <1>10, EmptyIsSeq, LengthOf DEF Outside
  <2>3. SameCall
    BY <1>1, <1>4, <1>10, <2>1, <2>2 DEF SameCall
  <2> QED BY <1>1, <1>4, <1>7, <1>8, <2>3, SilentReads
<1> QED BY <1>9, <1>10

\* The next element, the next entry and its value, and a foreign to_cbor.
LEMMA QuietReads ==
  ASSUME FormTypes, ReadInv, NextElement \/ NextEntry \/ NextValue \/ WriteForeign
  PROVE  ReadInv'
<1>1. TypeInv /\ Typed /\ BytesOK /\ FirstOK(todo) /\ IsSeq(todo) /\ (todo # <<>> => mark <= Total)
  BY MarkIs DEF ReadInv, TypeInv
<1>2. CASE NextElement
  <2> DEFINE f == [Top EXCEPT !.i = Top.i + 1]
  <2>1. TopIs("array") /\ \E v : todo' = Append(Append(Below, f), Item(v))
    BY <1>2 DEF NextElement
  <2>2. Plain(Top, heap) /\ Top.kind = "array" /\ todo # <<>>
    BY <1>1, <2>1, TopTyped
  <2>3. f.kind = Top.kind /\ f.value = Top.value /\ f.need = Top.need /\ f.seen = Top.seen
    BY <2>2 DEF Plain
  <2>4. PICK v : todo' = Append(Append(Below, f), Item(v))
    BY <2>1
  <2> HIDE DEF f
  <2>5. ContainerOf(f) = ContainerOf(Top)
    BY <2>3 DEF ContainerOf, TypeOf, NeedOf, TagOf
  <2>6. UNCHANGED <<buffer, sent, written, mark, damaged>>
    BY <1>2 DEF NextElement
  <2> QED BY <2>2, <2>3, <2>4, <2>5, <2>6, PartReads
<1>3. CASE NextEntry
  <2>1. PICK at, value, v : todo' = Append(Append(Below, Advanced(Top, at, value)), Item(v))
    BY <1>3, Zenon DEF NextEntry, Advanced
  <2>2. TopIs("hash") /\ UNCHANGED <<buffer, sent, written, mark, damaged>>
    BY <1>3 DEF NextEntry
  <2>3. Plain(Top, heap) /\ Top.kind = "hash" /\ todo # <<>>
    BY <1>1, <2>2, TopTyped
  <2> DEFINE f == Advanced(Top, at, value)
  <2>4. f.kind = "hash" /\ f.need = Top.need /\ f.seen = Top.seen
    <3> DEFINE f1 == [Top EXCEPT !.i = Top.i + 1]
               f2 == [f1 EXCEPT !.at = at]
               f3 == [f2 EXCEPT !.value = value]
    <3>1. f = f3
      BY DEF Advanced
    <3>2. f1.kind = "hash" /\ f1.need = Top.need /\ f1.seen = Top.seen
          /\ f1 = [kind |-> f1.kind, obj |-> f1.obj, need |-> f1.need, i |-> f1.i,
                   at |-> f1.at, value |-> f1.value, seen |-> f1.seen]
      BY <2>3 DEF Plain
    <3> HIDE DEF f1
    <3>3. f2.kind = "hash" /\ f2.need = Top.need /\ f2.seen = Top.seen
          /\ f2 = [kind |-> f2.kind, obj |-> f2.obj, need |-> f2.need, i |-> f2.i,
                   at |-> f2.at, value |-> f2.value, seen |-> f2.seen]
      BY <3>2
    <3> HIDE DEF f2
    <3>4. f3.kind = "hash" /\ f3.need = Top.need /\ f3.seen = Top.seen
      BY <3>3
    <3> HIDE DEF f3, f
    <3> QED BY <3>1, <3>4
  <2> HIDE DEF f
  <2>5. todo' = Append(Append(Below, f), Item(v))
    BY <2>1 DEF f
  <2>6. ContainerOf(f) = ContainerOf(Top)
    BY <2>3, <2>4 DEF ContainerOf, TypeOf, NeedOf, TagOf
  <2> QED BY <2>2, <2>3, <2>4, <2>5, <2>6, PartReads
<1>4. CASE NextValue
  <2>1. /\ TopIs("hash") /\ UNCHANGED <<buffer, sent, written, mark, damaged>>
        /\ todo' = Append(todo, Item(Top.value))
    BY <1>4 DEF NextValue
  <2>2. todo # <<>> /\ Top.kind = "hash"
    BY <2>1 DEF TopIs
  <2>3. ~Outside
    BY <1>1, <2>2, TopReads
  <2> QED BY <2>1, <2>2, <2>3, ItemReads
<1>5. CASE WriteForeign
  <2> DEFINE f == Frame("foreign", Nil, 1, Nil)
  <2>1. /\ TopIs("item") /\ UNCHANGED <<buffer, sent, written, mark, damaged>>
        /\ todo' = Append(Below, f)
    BY <1>5 DEF WriteForeign
  <2>2. todo # <<>> /\ Top.kind = "item"
    BY <2>1 DEF TopIs
  <2>3. /\ IsSeq(Below) /\ FirstOK(Below) /\ Caught(Below) = Caught(todo) /\ ~Outside
        /\ ShownAll(todo) = ShownAll(Below)
    BY <1>1, <2>2, TopReads DEF Hidden
  <2>4. f.kind = "foreign" /\ f.seen = <<>>
    BY DEF Frame
  <2> HIDE DEF f
  <2>5. FirstOK(todo') /\ Caught(todo') = Caught(todo)
    BY <2>1, <2>3, <2>4, CaughtPlain
  <2>6. ShownAll(todo') = ShownAll(todo)
    BY <2>1, <2>3, <2>4, ShownAppend DEF Hidden
  <2>7. Last(todo') = f
    BY <2>1, <2>3, AppendedIs
  <2>8. \A k : Stands(todo', written, k) = Stands(todo, written, k)
    <3>1. \A k : Stands(todo', written, k) = At(k, ShownAll(todo'), written)
      BY <2>4, <2>7, StandsOther
    <3>2. \A k : Stands(todo, written, k) = At(k, ShownAll(todo), written)
      BY <2>2, StandsOther DEF Top
    <3> QED BY <2>6, <3>1, <3>2
  <2>9. SameCall
    BY <1>1, <2>1, <2>2, <2>3, <2>5 DEF SameCall
  <2>10. Out' = Out /\ Total' = Total
    BY <2>1 DEF Out, Total
  <2> QED BY <1>1, <2>1, <2>5, <2>8, <2>9, <2>10, SilentReads
<1> QED BY <1>2, <1>3, <1>4, <1>5

\* Packer#write.
LEMMA WriteReads ==
  ASSUME FormTypes, ReadInv, NEW v, Write(v)
  PROVE  ReadInv'
<1>1. RubyRuns /\ Marks /\ UNCHANGED <<buffer, sent, written, damaged>> /\ todo' = Append(todo, Item(v))
  BY DEF Write
<1>2. todo # <<>> => Top.kind \notin {"foreign", "encode"} \/ Top.seen = <<>>
  <2> SUFFICES ASSUME todo # <<>>, Top.kind \in {"foreign", "encode"} PROVE Top.seen = <<>>
    OBVIOUS
  <2>1. AllWait(todo, heap)
    BY <1>1, MarkIs, RubyWaits DEF TypeInv
  <2>2. Plain(Top, heap) /\ Waits(Top)
    BY <2>1, LastWaits DEF Top
  <2> DEFINE q == Top.seen
             n == Len(q)
  <2>3. IsSeq(q) /\ n < 1
    BY <2>2 DEF Plain, Waits
  <2> HIDE DEF q
  <2>4. n \in Nat /\ (q # <<>> <=> n > 0)
    BY <2>3, LengthOf
  <2> HIDE DEF n
  <2> QED BY <2>3, <2>4 DEF q
<1> QED BY <1>1, <1>2, ItemReads

\* CBOR.encode.
LEMMA EncodeReads ==
  ASSUME FormTypes, ReadInv, NEW v, Encode(v)
  PROVE  ReadInv'
<1> DEFINE e == Frame("encode", Nil, 1, Nil)
           g == Item(v)
           u == Append(<<>>, e)
<1>1. /\ todo = <<>> /\ Marks /\ UNCHANGED <<buffer, sent, written, damaged>>
      /\ todo' = <<e, g>>
  BY DEF Encode
<1>2. BytesOK /\ IsSeq(todo) /\ FirstOK(todo)
  BY MarkIs DEF ReadInv
<1>3. e.kind = "encode" /\ g.kind = "item"
  BY DEF Frame, Item
<1> HIDE DEF e, g
<1>4. todo' = Append(u, g)
  BY <1>1
<1>5. IsSeq(u) /\ FirstOK(u) /\ Caught(u) = Caught(todo)
  BY <1>1, <1>2, <1>3, CaughtPlain
<1>6. ShownAll(u) = ShownAll(todo)
  BY <1>1, <1>2, <1>3, ShownAppend DEF Hidden
<1> HIDE DEF u
<1>7. FirstOK(todo') /\ Caught(todo') = Caught(todo)
  BY <1>3, <1>4, <1>5, CaughtPlain
<1>8. ShownAll(todo') = ShownAll(todo)
  BY <1>3, <1>4, <1>5, <1>6, ShownAppend DEF Hidden
<1>9. Last(todo').kind = "item"
  BY <1>3, <1>4, <1>5, AppendedIs
<1>10. \A k : Stands(todo', written, k) = Stands(todo, written, k)
  <2>1. \A k : Stands(todo', written, k) = At(k, ShownAll(todo'), written)
    BY <1>9, StandsOther
  <2>2. \A k : Stands(todo, written, k) = At(k, ShownAll(todo), written)
    BY <1>1, StandsOther
  <2> QED BY <1>8, <2>1, <2>2
<1>11. Out' = Out /\ Total' = Total
  BY <1>1 DEF Out, Total
<1>12. Outside /\ mark' = Total
  BY <1>1 DEF Outside, Marks
<1> QED BY <1>1, <1>2, <1>7, <1>10, <1>11, <1>12, BeginsReads

\* write_array_header and write_map_header.
LEMMA HeaderReads ==
  ASSUME FormTypes, BytesOK', ReadInv, NEW header \in Headers, WriteHeader(header[1], header[2])
  PROVE  ReadInv'
<1> DEFINE type == header[1]
           n == header[2]
           x == WriteHead(type, Number(n))
           need == IF type = MapType THEN 2 * n ELSE n
           c == Opened(type, n)
           o == ShownAll(todo)
           obj == IF Outside THEN "outside" ELSE "callback"
           f == Frame("header", obj, need, type)
<1>1. type \in {ArrayType, MapType} /\ n \in Lengths
  BY LengthAssumption
<1>2. /\ RubyRuns /\ Emits(x) /\ Marks /\ UNCHANGED <<heap, written, damaged>>
      /\ todo' = Append(todo, f) /\ (Outside => todo = <<>>)
  BY DEF WriteHeader
<1>3. TypeInv /\ BytesOK /\ FirstOK(todo) /\ IsSeq(todo) /\ (todo # <<>> => mark <= Total) /\ Typed
      /\ HeapOK(heap) /\ (~damaged => AllFit(todo, heap))
  BY MarkIs DEF ReadInv, TypeInv, Inv
<1>4. x \in Seq(Byte) /\ OpensAs(x, c)
  <2>1. type \in {ArrayType, MapType, TagType}
    BY <1>1
  <2> HIDE DEF type, n
  <2> QED BY <1>1, <2>1, CountType, OpeningRead
<1>5. ContainerOf(f) = c
  <2>1. f.kind = "header" /\ f.need = need /\ f.seen = <<>> /\ f.value = type
    BY DEF Frame
  <2> HIDE DEF f, type, n
  <2>2. TypeOf(f) = type /\ NeedOf(f) = need /\ TagOf(f) = 0
    BY <2>1 DEF TypeOf, NeedOf, TagOf
  <2>3. c = Container(type, need, 0)
    BY <1>1 DEF Opened, ArrayType, MapType, TagType
  <2> QED BY <2>1, <2>2, <2>3 DEF ContainerOf, Container
<1>6. f.kind = "header" /\ f.obj = obj
  BY DEF Frame
<1> HIDE DEF f, x, c, type, n, need
<1>7. MayCome(todo, f)
  <2>1. todo = <<>> => Outside
    BY DEF Outside
  <2>2. ASSUME Len(todo) = 1 PROVE todo[1].kind # "header"
    <3> SUFFICES ASSUME todo[1].kind = "header" PROVE FALSE
      OBVIOUS
    <3>1. DOMAIN todo = 1 .. Len(todo)
      BY <1>3, LengthOf
    <3>2. todo # <<>>
      <4>1. todo # <<>> <=> Len(todo) > 0
        BY <1>3, LengthOf
      <4> DEFINE m == Len(todo)
      <4>2. (todo # <<>> <=> m > 0) /\ m = 1
        BY <2>2, <4>1
      <4> HIDE DEF m
      <4> QED BY <4>2
    <3>3. DOMAIN todo = 1 .. 1
      BY <2>2, <3>1
    <3>4. \A k \in 1 .. 1 : k = 1
      OBVIOUS
    <3>5. Outside
      BY <3>3, <3>4 DEF Outside
    <3> QED BY <1>2, <3>2, <3>5
  <2> QED BY <1>6, <2>1, <2>2 DEF MayCome
<1>8. FirstOK(todo') /\ (todo # <<>> => Caught(todo') = Caught(todo))
  BY <1>2, <1>3, <1>7, CaughtPush
<1>9. ShownAll(todo') = Append(o, c)
  BY <1>2, <1>3, <1>5, <1>6, ShownAppend DEF Hidden
<1>10. Last(todo') = f
  BY <1>2, <1>3, AppendedIs
<1>11. Out' = Out \o x
  BY <1>2, <1>3, <1>4, EmitsOut
<1>12. AllWait(todo, heap)
  BY <1>2, <1>3, RubyWaits
<1>13. ASSUME ~damaged' PROVE Stood'
  <2>1. Ready(Out, o, written)
    <3>1. Waiting(o)
      BY <1>2, <1>3, <1>12, <1>13, AllTake
    <3>2. Stands(todo, written, Total + 1) = At(Total + 1, o, written)
      BY <1>12, StandsWaiting
    <3>3. Stood /\ Out \in Seq(Byte) /\ Len(Out) = Total
      BY <1>2, <1>3, <1>13, OutIs DEF ReadInv
    <3> QED BY <3>1, <3>2, <3>3 DEF Ready, Stood
  <2>2. Reaches(Out \o x, At(Len(Out \o x) + 1, Append(o, c), written))
    BY <1>4, <2>1 DEF OpensAs
  <2>3. Len(Out') = Total'
    BY Totals DEF Out, BytesOK, Total
  <2>4. Stood' = Reaches(Out', Stands(todo', written', Total' + 1))
    BY DEF Stood
  <2>5. Stands(todo', written', Total' + 1) = At(Total' + 1, Append(o, c), written)
    BY <1>2, <1>6, <1>9, <1>10, StandsOther
  <2> QED BY <1>11, <2>2, <2>3, <2>4, <2>5
<1>14. SameCall
  <2>1. CASE Outside
    <3>1. todo' = Append(<<>>, f)
      BY <1>2, <2>1
    <3>2. todo' = <<f>>
      BY <3>1
    <3>3. Outside'
      BY <1>6, <3>2 DEF Outside
    <3> QED BY <3>3 DEF SameCall
  <2>2. CASE ~Outside
    <3>1. todo # <<>>
      BY <2>2 DEF Outside
    <3> QED BY <1>2, <1>3, <1>8, <2>2, <3>1 DEF SameCall, Marks
  <2> QED BY <2>1, <2>2
<1> QED BY <1>2, <1>3, <1>4, <1>8, <1>11, <1>13, <1>14, StepReads

\* An exception: what is left is as it was before the outermost call.
LEMMA UnwindsReads ==
  ASSUME FormTypes, BytesOK', ReadInv, todo # <<>>, ~Outside, NEW begun, begun \in Seq(Byte),
         NEW bytes, bytes = buffer \o begun, NEW n, n \in 0 .. Len(bytes), Unwinds(bytes, n)
  PROVE  ReadInv'
<1> DEFINE first == todo[1]
           a == SubSeq(bytes, 1, n)
           rest == SubSeq(bytes, n + 1, Len(bytes))
           m == Len(sent)
           l == Len(bytes)
           k == Len(buffer)
           j == Len(begun)
<1>0. sent \in Seq(Byte) /\ buffer \in Seq(Byte) /\ BytesOK /\ FirstOK(todo) /\ IsSeq(todo)
  BY MarkIs DEF BytesOK, ReadInv
<1>1. Out \in Seq(Byte) /\ Len(Out) = m + k /\ Total = m + k
  BY <1>0, OutIs DEF Total
<1>2. bytes \in Seq(Byte) /\ l = k + j
  BY ONLY <1>0, bytes = buffer \o begun, begun \in Seq(Byte), ConcatProperties
<1>3. m \in Nat /\ l \in Nat /\ k \in Nat /\ j \in Nat /\ mark \in Nat /\ mark <= m + k
  <2>1. m \in Nat /\ l \in Nat /\ k \in Nat /\ j \in Nat
    BY <1>0, <1>2, LenProperties
  <2>2. mark \in Nat /\ mark <= Total
    BY <1>0, MarkIs DEF BytesOK
  <2> QED BY <1>1, <2>1, <2>2
<1>4. a \in Seq(Byte) /\ rest \in Seq(Byte) /\ Len(a) = n /\ Len(rest) = l - n
  BY <1>2, CutOf
<1>5. a \o rest = bytes
  BY ONLY <1>2, n \in 0 .. Len(bytes), CutConcat
<1>6. /\ sent' = sent \o a /\ mark' = mark /\ written' = written
      /\ buffer' = (IF first.kind = "encode" THEN <<>> ELSE rest)
      /\ todo' = IF first.kind = "header" /\ first.obj = "outside" THEN <<first>> ELSE <<>>
      /\ damaged' = (damaged \/ Len(sent') + Len(buffer') # mark)
  BY DEF Unwinds
<1>7. n \in Nat
  OBVIOUS
<1>8. todo' = Caught(todo)
  <2>1. first.kind = "header" => first.obj = "outside"
    BY <1>0 DEF FirstOK
  <2> QED BY <1>6, <2>1 DEF Caught
<1>9. Encoding(todo) => mark <= m
  BY MarkIs
<1>10. first.kind = "encode" <=> Encoding(todo)
  BY DEF Encoding
<1> HIDE DEF a, rest, m, l, k, j, first
<1>11. Len(sent') = m + n
  BY <1>0, <1>4, <1>6, ConcatProperties DEF m
<1>12. todo' = <<>> \/ (todo' = <<first>> /\ first.kind = "header")
  BY <1>6
<1>13. Outside'
  <2>1. CASE todo' = <<>>
    BY <2>1 DEF Outside
  <2>2. CASE todo' = <<first>> /\ first.kind = "header"
    BY <2>2 DEF Outside
  <2> QED BY <1>12, <2>1, <2>2
<1>14. ASSUME ~damaged' PROVE Out' = SubSeq(Out, 1, mark) /\ Total' = mark
  <2>0. ~damaged /\ Len(sent') + Len(buffer') = mark
    BY <1>6, <1>14
  <2>1. Total' = mark
    BY <2>0 DEF Total
  <2>2. CASE first.kind = "encode"
    <3>1. buffer' = <<>> /\ Len(buffer') = 0 /\ mark <= m
      BY <1>6, <1>9, <1>10, <2>2, EmptySeq
    <3>2. m + n + 0 = mark
      BY <1>11, <2>0, <3>1
    <3>3. n = 0 /\ mark = m
      BY <1>3, <1>7, <3>1, <3>2
    <3>4. a = <<>>
      BY <1>4, <3>3, EmptySeq
    <3>5. sent \o <<>> = sent
      BY ONLY <1>0, ConcatEmptySeq
    <3>6. Out' = sent
      BY <1>6, <3>1, <3>4, <3>5 DEF Out
    <3>7. SubSeq(sent \o buffer, 1, Len(sent)) = sent
      BY ONLY <1>0, ConcatCut
    <3> QED BY <2>1, <3>3, <3>6, <3>7 DEF Out, m
  <2>3. CASE first.kind # "encode"
    <3>1. buffer' = rest /\ Len(buffer') = l - n
      BY <1>4, <1>6, <2>3
    <3>2. sent' \o buffer' = sent \o bytes
      <4>1. (sent \o a) \o rest = sent \o (a \o rest)
        BY ONLY <1>0, <1>4, ConcatAssociative
      <4> QED BY <1>5, <1>6, <3>1, <4>1
    <3>3. (m + n) + (l - n) = mark
      BY <1>11, <2>0, <3>1
    <3>4. j = 0 /\ mark = m + k
      BY <1>2, <1>3, <1>7, <3>3
    <3>5. begun = <<>>
      BY <3>4, EmptySeq DEF j
    <3>6. bytes = buffer
      BY ONLY <1>0, <3>5, bytes = buffer \o begun, ConcatEmptySeq
    <3>7. Out' = Out
      BY <3>2, <3>6 DEF Out
    <3>8. SubSeq(Out, 1, Len(Out)) = Out
      BY ONLY <1>1, SubSeqFull
    <3> QED BY <1>1, <2>1, <3>4, <3>7, <3>8
  <2> QED BY <2>2, <2>3
<1>15. ASSUME ~damaged' PROVE Stood'
  <2>1. Before
    BY <1>6, <1>15 DEF ReadInv
  <2>2. todo' # <<>> => Last(todo').kind = "header"
    <3> SUFFICES ASSUME todo' = <<first>>, first.kind = "header" PROVE Last(todo').kind = "header"
      BY <1>12
    <3> QED BY DEF Last
  <2>3. Stands(todo', written, mark + 1) = At(mark + 1, ShownAll(todo'), written)
    BY <2>2, StandsOther
  <2>4. Stood' = Reaches(Out', Stands(todo', written', Total' + 1))
    BY DEF Stood
  <2> QED BY <1>6, <1>8, <1>14, <1>15, <2>1, <2>3, <2>4 DEF Before
<1>16. FirstOK(todo')
  <2>1. CASE todo' = <<>>
    BY <2>1, EmptyIsSeq DEF FirstOK
  <2>2. CASE todo' = <<first>> /\ first.kind = "header"
    <3>1. first.obj = "outside"
      BY <1>0, <2>2 DEF FirstOK, first
    <3>2. Len(<<first>>) = 1 /\ <<first>>[1] = first
      OBVIOUS
    <3> QED BY <2>2, <3>1, <3>2 DEF FirstOK
  <2> QED BY <1>12, <2>1, <2>2
<1> QED BY <1>13, <1>15, <1>16 DEF ReadInv

\* An exception in the call that writes a value, or in a to_cbor.
LEMMA RaisesReads ==
  ASSUME FormTypes, BytesOK', ReadInv, Refuses \/ IoRaises \/ CallbackRaises
  PROVE  ReadInv'
<1>1. buffer \in Seq(Byte) /\ Inv /\ Typed /\ TypeInv /\ FirstOK(todo)
  BY MarkIs DEF BytesOK, TypeInv, ReadInv
<1>2. todo # <<>> /\ ~Outside
  <2>1. CASE Refuses \/ IoRaises
    <3>1. todo # <<>> /\ Top.kind # "header"
      BY <2>1 DEF Refuses, IoRaises, TopIs
    <3> QED BY <1>1, <3>1, TopReads
  <2>2. CASE CallbackRaises
    BY <1>1, <2>2, InCallbackIs DEF CallbackRaises, InCallback
  <2> QED BY <2>1, <2>2
<1>3. CASE Refuses \/ CallbackRaises
  <2>1. Unwinds(buffer, 0)
    BY <1>3 DEF Refuses, CallbackRaises
  <2>2. 0 \in 0 .. Len(buffer)
    BY <1>1, LenProperties
  <2>3. <<>> \in Seq(Byte) /\ buffer = buffer \o <<>>
    <3>1. <<>> \in Seq(Byte)
      BY EmptySeq
    <3> QED BY ONLY <1>1, <3>1, ConcatEmptySeq
  <2> QED BY <1>2, <2>1, <2>2, <2>3, UnwindsReads
<1>4. CASE IoRaises
  <2> DEFINE v == Top.value
  <2>1. /\ TopIs("item") \/ TopIs("encode")
        /\ v[1] \in Leaves \cup {"tagged", "ref"}
    BY <1>4 DEF IoRaises
  <2>2. PICK begun \in Begun(v) :
          LET bytes == buffer \o begun
          IN \E n \in {0, Len(bytes) \div 2} : Unwinds(bytes, n)
    BY <1>4, Zenon DEF IoRaises
  <2> DEFINE bytes == buffer \o begun
  <2>3. begun \in Seq(Byte)
    <3>1. v \in Values
      BY <1>1, <2>1, TopTyped
    <3> HIDE DEF v
    <3> QED BY <2>1, <2>2, <3>1, BegunType
  <2>4. bytes \in Seq(Byte)
    BY ONLY <1>1, <2>3, Joined
  <2>5. PICK n \in {0, Len(bytes) \div 2} : Unwinds(bytes, n)
    BY <2>2
  <2>6. bytes = buffer \o begun
    OBVIOUS
  <2> HIDE DEF bytes
  <2>7. Len(bytes) \in Nat
    BY <2>4, LenProperties
  <2> DEFINE l == Len(bytes)
  <2>8. n \in 0 .. l
    <3> HIDE DEF l
    <3>1. l \in Nat /\ n \in {0, l \div 2}
      BY <2>7 DEF l
    <3> QED BY ONLY <3>1
  <2> QED BY <1>2, <2>3, <2>5, <2>6, <2>8, UnwindsReads
<1> QED BY <1>3, <1>4

\* flush and clear.
LEMMA EmptiesReads ==
  ASSUME FormTypes, ReadInv, Flush \/ Clear
  PROVE  ReadInv'
<1>1. BytesOK /\ IsSeq(todo) /\ sent \in Seq(Byte) /\ buffer \in Seq(Byte) /\ FirstOK(todo)
      /\ (todo # <<>> => mark <= Total)
  BY MarkIs DEF BytesOK, ReadInv
<1>2. CASE Flush
  <2>1. sent' = sent \o buffer /\ buffer' = <<>> /\ UNCHANGED <<todo, written, mark, damaged>>
    BY <1>2 DEF Flush
  <2>2. Out' = Out /\ Total' = Total
    BY <1>1, <2>1, StaysOut
  <2>3. SameCall
    <3>1. ~Outside => todo # <<>>
      BY <1>1, EmptyIsSeq DEF Outside
    <3>2. Outside' <=> Outside
      BY <2>1 DEF Outside
    <3> QED BY <1>1, <2>1, <3>1, <3>2 DEF SameCall
  <2>4. \A k : Stands(todo', written, k) = Stands(todo, written, k)
    BY <2>1
  <2> QED BY <1>1, <2>1, <2>2, <2>3, <2>4, SilentReads
<1>3. CASE Clear
  <2>1. /\ sent' = sent /\ buffer' = <<>> /\ todo' = <<>>
        /\ damaged' = (sent # <<>> /\ (damaged \/ buffer # <<>> \/ todo # <<>>))
        /\ written' = IF sent = <<>> THEN <<>> ELSE written
    BY <1>3 DEF Clear
  <2>2. Outside' /\ FirstOK(todo')
    BY <2>1, EmptyIsSeq DEF Outside, FirstOK
  <2>3. ASSUME ~damaged' PROVE Stood'
    <3>1. Stood' = Reaches(Out', Stands(todo', written', Total' + 1))
      BY DEF Stood
    <3>2. CASE sent = <<>>
      <4>1. <<>> \in Seq(Byte) /\ Len(<<>>) = 0
        BY EmptySeq
      <4>2. <<>> \o <<>> = <<>>
        BY ONLY <4>1, ConcatEmptySeq
      <4>3. Out' = <<>>
        BY <2>1, <3>2, <4>2 DEF Out
      <4>4. Total' + 1 = 1
        <5>1. Total' = Len(<<>>) + Len(<<>>)
          BY <2>1, <3>2 DEF Total
        <5> QED BY <4>1, <5>1
      <4>5. Stands(<<>>, <<>>, 1) = At(1, <<>>, <<>>)
        BY ShownNone, StandsOther
      <4>6. Reaches(<<>>, At(1, <<>>, <<>>))
        BY <4>1, ReachesStart
      <4> QED BY <2>1, <3>1, <3>2, <4>3, <4>4, <4>5, <4>6
    <3>3. CASE sent # <<>>
      <4>1. ~damaged /\ buffer = <<>> /\ todo = <<>> /\ written' = written
        BY <2>1, <2>3, <3>3
      <4>2. Out' = Out /\ Total' = Total
        BY <2>1, <4>1 DEF Out, Total
      <4>3. Stood
        BY <4>1 DEF ReadInv
      <4> QED BY <2>1, <3>1, <4>1, <4>2, <4>3 DEF Stood
    <3> QED BY <3>2, <3>3
  <2> QED BY <2>2, <2>3 DEF ReadInv
<1> QED BY <1>2, <1>3

\* What to_cbor does to the objects.
LEMMA ChangesReads ==
  ASSUME FormTypes, ReadInv, NEW o \in Object, ArrayChanges(o) \/ HashChanges(o)
  PROVE  ReadInv'
<1>1. UNCHANGED <<buffer, sent, todo, written, mark>> /\ (damaged => damaged')
  <2>1. CASE ArrayChanges(o)
    BY <2>1, Zenon DEF ArrayChanges
  <2>2. CASE HashChanges(o)
    <3>1. UNCHANGED <<buffer, sent, todo, written, mark>>
      BY <2>2, Zenon DEF HashChanges
    <3>2. damaged => damaged'
      BY <2>2, Zenon DEF HashChanges
    <3> QED BY <3>1, <3>2
  <2> QED BY <2>1, <2>2
<1>2. BytesOK /\ FirstOK(todo) /\ (todo # <<>> => mark <= Total)
  BY MarkIs DEF ReadInv
<1>3. SameCall
  <2>1. ~Outside => todo # <<>>
    BY DEF Outside
  <2>2. Outside' <=> Outside
    BY <1>1 DEF Outside
  <2> QED BY <1>1, <1>2, <2>1, <2>2 DEF SameCall
<1>4. Out' = Out /\ Total' = Total
  BY <1>1 DEF Out, Total
<1>5. \A k : Stands(todo', written, k) = Stands(todo, written, k)
  BY <1>1
<1> QED BY <1>1, <1>2, <1>3, <1>4, <1>5, SilentReads

-----------------------------------------------------------------------------
(* What is written is what is read *)

ReadTypes == FormTypes /\ ReadInv

\* Nothing is written at first.
LEMMA InitReads == Init => ReadInv
<1> SUFFICES ASSUME Init PROVE ReadInv
  OBVIOUS
<1>1. buffer = <<>> /\ sent = <<>> /\ todo = <<>> /\ written = <<>>
  BY DEF Init
<1>2. <<>> \in Seq(Byte) /\ Len(<<>>) = 0
  BY EmptySeq
<1>3. <<>> \o <<>> = <<>>
  BY ONLY <1>2, ConcatEmptySeq
<1>4. Total + 1 = 1
  <2>1. Total = Len(<<>>) + Len(<<>>)
    BY <1>1 DEF Total
  <2> QED BY <1>2, <2>1
<1>5. Stands(<<>>, <<>>, 1) = At(1, <<>>, <<>>)
  BY ShownNone, StandsOther
<1>6. Reaches(<<>>, At(1, <<>>, <<>>))
  BY <1>2, ReachesStart
<1>7. Stood
  BY <1>1, <1>3, <1>4, <1>5, <1>6 DEF Stood, Out
<1>8. Outside /\ FirstOK(todo)
  BY <1>1, <1>2 DEF Outside, FirstOK
<1> QED BY <1>7, <1>8 DEF ReadInv

\* Every step keeps the reading.
LEMMA NextReads == PlainSimples /\ SimplesFit /\ ReadTypes /\ [Next]_vars => ReadTypes'
<1> SUFFICES ASSUME PlainSimples, SimplesFit, ReadTypes, [Next]_vars PROVE ReadTypes'
  OBVIOUS
<1>1. FormTypes /\ ReadInv
  BY DEF ReadTypes
<1>2. FormTypes'
  BY <1>1, NextForm
<1>3. BytesOK'
  BY <1>2 DEF FormTypes, TypeInv, Typed
<1>4. Next => ReadInv'
  <2>1. WriteLeaf => ReadInv'
    BY <1>1, <1>3, LeafStep
  <2>2. WriteTagged \/ WriteArray \/ WriteHash => ReadInv'
    BY <1>1, <1>3, OpensReads
  <2>3. NextElement \/ NextEntry \/ NextValue \/ WriteForeign => ReadInv'
    BY <1>1, QuietReads
  <2>4. TagEnds \/ ArrayEnds \/ HashEnds \/ HeaderEnds \/ ForeignReturns \/ EncodeReturns => ReadInv'
    BY <1>1, <1>3, EndsReads
  <2>5. Refuses \/ IoRaises \/ CallbackRaises => ReadInv'
    BY <1>1, <1>3, RaisesReads
  <2>6. (\E v \in Arguments : Write(v) \/ Encode(v)) => ReadInv'
    BY <1>1, WriteReads, EncodeReads
  <2>7. (\E header \in Headers : WriteHeader(header[1], header[2])) => ReadInv'
    BY <1>1, <1>3, HeaderReads
  <2>8. Flush \/ Clear => ReadInv'
    BY <1>1, EmptiesReads
  <2>9. (\E o \in Object : ArrayChanges(o) \/ HashChanges(o)) => ReadInv'
    BY <1>1, ChangesReads
  <2> QED BY <2>1, <2>2, <2>3, <2>4, <2>5, <2>6, <2>7, <2>8, <2>9, Zenon DEF Next
<1>5. UNCHANGED vars => ReadInv'
  <2> SUFFICES ASSUME UNCHANGED vars PROVE ReadInv'
    OBVIOUS
  <2>1. UNCHANGED <<buffer, sent, todo, written, mark, damaged>>
    BY DEF vars
  <2> QED BY <1>1, <2>1 DEF ReadInv, Stood, Before, Out, Total, Outside
<1> QED BY <1>2, <1>4, <1>5, Zenon DEF ReadTypes

\* When no call is under way, the reading has come to the end.
LEMMA RestReads == ReadTypes => ReadsBack
<1> SUFFICES ASSUME ReadTypes, AtRest, ~damaged
             PROVE  Reading(Out) = [at |-> Len(Out) + 1, items |-> written,
                                    open |-> [k \in DOMAIN todo |-> Announced(todo[k])]]
  BY DEF ReadsBack, Out
<1>1. FormTypes /\ Stood /\ FirstOK(todo) /\ BytesOK /\ IsSeq(todo)
  BY MarkIs DEF ReadTypes, ReadInv
<1>2. OnlyHeaders(todo) /\ \A k \in DOMAIN todo : ~Complete(todo[k])
  BY DEF AtRest, Outside, OnlyHeaders
<1>3. todo = <<>> \/ todo = <<todo[1]>>
  BY <1>1, <1>2, CaughtAll
<1> DEFINE open == [k \in DOMAIN todo |-> Announced(todo[k])]
<1>4. ShownAll(todo) = open /\ Waiting(open)
      /\ Stands(todo, written, Total + 1) = At(Total + 1, ShownAll(todo), written)
  <2>1. CASE todo = <<>>
    <3>1. open = <<>>
      BY <2>1
    <3> QED BY <2>1, <3>1, ShownNone, StandsOther DEF Waiting
  <2>2. CASE todo = <<todo[1]>>
    <3> DEFINE f == todo[1]
               c == ContainerOf(f)
    <3>1. f.kind = "header" /\ ~Complete(f) /\ todo = <<f>>
      BY <1>2, <2>2 DEF OnlyHeaders
    <3>2. c = Announced(f)
      <4>1. TypeOf(f) = f.value /\ NeedOf(f) = f.need /\ TagOf(f) = 0
        BY <3>1 DEF TypeOf, NeedOf, TagOf
      <4> QED BY <4>1 DEF ContainerOf, Announced
    <3>3. ~IsFull(c)
      <4>1. NeedOf(f) = f.need
        BY <3>1 DEF NeedOf
      <4> QED BY <3>1, <4>1 DEF IsFull, ContainerOf, Complete
    <3> HIDE DEF f, c
    <3>4. open = <<c>>
      <4>1. DOMAIN todo = {1} /\ todo[1] = f
        BY <3>1
      <4>2. open = [k \in {1} |-> c]
        BY <3>2, <4>1
      <4>3. <<c>> = [k \in {1} |-> c]
        OBVIOUS
      <4> QED BY <4>2, <4>3
    <3>5. todo = Append(<<>>, f) /\ <<c>> = Append(<<>>, c)
      BY <3>1
    <3>6. IsSeq(<<>>)
      BY EmptyIsSeq
    <3>7. ShownAll(Append(<<>>, f)) = Append(ShownAll(<<>>), c)
      BY <3>1, <3>6, ShownAppend DEF Hidden, c
    <3>8. Last(<<c>>) = c /\ Last(todo) = f
      BY <3>5, <3>6, AppendedIs
    <3>9. Waiting(open)
      BY <3>3, <3>4, <3>8 DEF Waiting
    <3>10. ShownAll(todo) = open
      BY <3>4, <3>5, <3>7, ShownNone
    <3> QED BY <3>1, <3>8, <3>9, <3>10, StandsOther
  <2> QED BY <1>3, <2>1, <2>2
<1>5. Out \in Seq(Byte) /\ Len(Out) = Total
  BY <1>1, OutIs
<1> HIDE DEF open
<1>6. Ready(Out, open, written)
  BY <1>1, <1>4, <1>5 DEF Stood, Ready
<1>7. Reading(Out) = At(Len(Out) + 1, open, written)
  BY <1>6, ReadsAll
<1> QED BY <1>7 DEF At, open

\* Simple values of one byte that are not false, true and nil.
LEMMA SimplesAre ==
  ASSUME \A v \in Values : v[1] = "simple" => v[2] \in (0 .. 255) \ {20, 21, 22}
  PROVE  PlainSimples /\ SimplesFit
<1>1. PlainSimples
  BY DEF PlainSimples
<1>2. SimplesFit
  <2> SUFFICES ASSUME NEW v \in Values, v[1] = "simple" PROVE v[2] < 2 ^ 16
    BY DEF SimplesFit
  <2>1. 2 ^ 16 = 65536
    OBVIOUS
  <2>2. v[2] \in 0 .. 255
    OBVIOUS
  <2> QED BY ONLY <2>1, <2>2
<1> QED BY <1>1, <1>2

\* What a packer and CBOR.encode give out reads back as the values that were
\* written, in order and no others, and the container that the caller has not
\* filled yet: however calls, to_cbor methods that write, change containers or
\* raise, flushes and exceptions of the io are mixed, as long as no exception
\* has cut a value short and no to_cbor has deleted an entry that a header has
\* counted.  Simple values are those of one byte that are not false, true and
\* nil: the others come back as these, or as floats.
THEOREM ValuesReadBack ==
  ASSUME \A v \in Values : v[1] = "simple" => v[2] \in (0 .. 255) \ {20, 21, 22}
  PROVE  Spec => []ReadsBack
<1>1. PlainSimples /\ SimplesFit
  BY SimplesAre
<1>2. Init => ReadTypes
  BY InitInv, InitTyped, InitForm, InitReads DEF TypeInv, FormTypes, ReadTypes
<1>3. ReadTypes /\ [Next]_vars => ReadTypes'
  BY <1>1, NextReads
<1> QED BY <1>2, <1>3, RestReads, PTL DEF Spec
-----------------------------------------------------------------------------
(* What is sent *)

\* Whatever a reading of s comes to, it has read the first values of w, and no
\* others, and no map whose head has eight bytes is next.
Passes(s, w) == \A p : Reaches(s, p) => Leads(p.items, w) /\ ~LongMap(s, p)

\* Then w is a list.
LEMMA PassesList ==
  ASSUME NEW s, s \in Seq(Byte), NEW w, Passes(s, w)
  PROVE  IsSeq(w)
BY ReachesStart DEF Passes, Leads

\* Bytes that are read to their end.
LEMMA PassesReady ==
  ASSUME NEW s, NEW o, NEW w, Ready(s, o, w)
  PROVE  Passes(s, w)
BY ReadyEarlier DEF Passes

\* One value more.
LEMMA PassesMore ==
  ASSUME NEW s, s \in Seq(Byte), NEW w, Passes(s, w), NEW v
  PROVE  Passes(s, Append(w, v))
<1>1. Leads(w, Append(w, v))
  BY PassesList, LeadsAll
<1> QED BY <1>1, LeadsOn DEF Passes

\* The head of such a map stays one when bytes are appended.
LEMMA LongMapStays ==
  ASSUME NEW s, s \in Seq(Byte), NEW x, x \in Seq(Byte), NEW p, Reaches(s, p), LongMap(s, p)
  PROVE  LongMap(s \o x, p)
<1> DEFINE k == p.at
<1>1. k \in Nat \ {0}
  BY ReachedIs DEF IsReading
<1>2. Waiting(p.open) /\ HeadAt(s, k) /\ s[k] = 187
  BY DEF LongMap
<1> HIDE DEF k
<1>3. HeadAt(s \o x, k) /\ (s \o x)[k] = s[k]
  <2>1. HeadAt(s, k) /\ s \in Seq(Byte) /\ x \in Seq(Byte)
    BY <1>2
  <2> QED BY ONLY <1>1, <2>1, HeadStays
<1> QED BY <1>2, <1>3 DEF LongMap, k

\* The first of the bytes.
LEMMA PassesLess ==
  ASSUME NEW s, s \in Seq(Byte), NEW x, x \in Seq(Byte), NEW w, Passes(s \o x, w)
  PROVE  Passes(s, w)
<1> SUFFICES ASSUME NEW p, Reaches(s, p) PROVE Leads(p.items, w) /\ ~LongMap(s, p)
  BY DEF Passes
<1>1. Leads(p.items, w) /\ ~LongMap(s \o x, p)
  BY ReachesMore DEF Passes
<1>2. LongMap(s, p) => LongMap(s \o x, p)
  BY LongMapStays
<1> QED BY <1>1, <1>2

\* Some of the bytes of a value, behind those that are read to their end.
LEMMA PassesPart ==
  ASSUME NEW s, s \in Seq(Byte), NEW x, x \in Seq(Byte), x # <<>>, NEW z, z = s \o x,
         NEW o, NEW w, IsSeq(w), NEW v, Reaches(z, With(At(Len(z) + 1, o, w), v))
  PROVE  Passes(s, w)
<1> DEFINE k == Len(z) + 1
           e == With(At(k, o, w), v)
<1>1. Len(s) \in Nat /\ k \in Nat /\ Len(s) + 1 < k /\ z \in Seq(Byte)
  <2>1. Len(z) = Len(s) + Len(x) /\ z \in Seq(Byte)
    BY ONLY s \in Seq(Byte), x \in Seq(Byte), z = s \o x, ConcatProperties
  <2>2. Len(s) \in Nat /\ Len(x) \in Nat /\ Len(x) # 0
    BY LenProperties, EmptySeq
  <2> QED BY <2>1, <2>2
<1>2. Reaches(z, e)
  OBVIOUS
<1> HIDE DEF k
<1>3. /\ e.at = k
      /\ o = <<>> => e.open = <<>> /\ e.items = Append(w, v)
      /\ o # <<>> => e.items = w
  <2>1. CASE o = <<>>
    <3> DEFINE q == Append(w, v)
    <3>1. e = At(k, o, q)
      BY <2>1, WithIs
    <3> HIDE DEF e, q
    <3>2. e.at = k /\ e.open = o /\ e.items = q
      BY <3>1, AtIs
    <3> QED BY <2>1, <3>2 DEF q
  <2>2. CASE o # <<>>
    <3>1. e = At(k, Put(o, v), w)
      BY <2>2, WithIs
    <3> HIDE DEF e
    <3> QED BY <2>2, <3>1, AtIs
  <2> QED BY <2>1, <2>2
<1> HIDE DEF e
<1> SUFFICES ASSUME NEW p, Reaches(s, p) PROVE Leads(p.items, w) /\ ~LongMap(s, p)
  BY DEF Passes
<1>4. Reaches(z, p)
  BY ReachesMore
<1>5. p.at \in Nat \ {0} /\ p.at <= Len(s) + 1
  BY ReachedIs DEF IsReading
<1>6. p.at < e.at
  BY <1>1, <1>3, <1>5
<1>7. Later(p, e) /\ ~LongMap(z, p)
  BY <1>1, <1>2, <1>4, <1>6, EarlierIs
<1>8. LongMap(s, p) => LongMap(z, p)
  BY LongMapStays
<1>9. Leads(p.items, w)
  <2> DEFINE q == p.items
             d == Append(w, v)
  <2>1. CASE o # <<>>
    BY <1>3, <1>7, <2>1 DEF Later
  <2>2. CASE o = <<>>
    <3>1. Leads(q, d) /\ Len(d) > Len(q)
      BY <1>3, <1>7, <2>2 DEF Later
    <3>2. Leads(w, d) /\ Len(d) = Len(w) + 1 /\ \A i \in 1 .. Len(w) : d[i] = w[i]
      BY LeadsAll, AppendOf
    <3> HIDE DEF q, d
    <3>3. IsSeq(q) /\ Len(q) \in Nat /\ Len(w) \in Nat /\ \A i \in 1 .. Len(q) : d[i] = q[i]
      BY <3>1, LengthOf DEF Leads
    <3>4. Len(q) <= Len(w)
      BY <3>1, <3>2, <3>3
    <3>5. \A i \in 1 .. Len(q) : i \in 1 .. Len(w)
      BY <3>3, <3>4
    <3>6. Leads(q, w)
      BY <3>2, <3>3, <3>4, <3>5 DEF Leads
    <3> QED BY <3>6 DEF q
  <2> QED BY <2>1, <2>2
<1> QED BY <1>7, <1>8, <1>9

-----------------------------------------------------------------------------
(* encode is the outermost call *)

EncodeFirst(t) == \A k \in 1 .. Len(t) : t[k].kind = "encode" => k = 1 /\ t[k].value = Nil

\* A call that comes.
LEMMA FirstPushed ==
  ASSUME NEW t, IsSeq(t), EncodeFirst(t), NEW f, f.kind = "encode" => t = <<>> /\ f.value = Nil
  PROVE  IsSeq(Append(t, f)) /\ EncodeFirst(Append(t, f))
<1> DEFINE u == Append(t, f)
           n == Len(t)
<1>1. n \in Nat /\ (t = <<>> => n = 0)
  BY LengthOf, EmptyIsSeq
<1>2. IsSeq(u) /\ Len(u) = n + 1 /\ u[n + 1] = f /\ \A i \in 1 .. n : u[i] = t[i]
  BY AppendOf
<1> HIDE DEF u
<1>3. \A k \in 1 .. n + 1 : u[k].kind = "encode" => k = 1 /\ u[k].value = Nil
  <2> SUFFICES ASSUME NEW k \in 1 .. n + 1, u[k].kind = "encode" PROVE k = 1 /\ u[k].value = Nil
    OBVIOUS
  <2>1. CASE k = n + 1
    BY <1>1, <1>2, <2>1
  <2>2. CASE k \in 1 .. n
    BY <1>2, <2>2 DEF EncodeFirst
  <2> QED BY <1>1, <2>1, <2>2
<1> QED BY <1>2, <1>3 DEF EncodeFirst, u

\* One that ends.
LEMMA FirstPopped ==
  ASSUME NEW t, IsSeq(t), t # <<>>, EncodeFirst(t)
  PROVE  IsSeq(Front(t)) /\ EncodeFirst(Front(t))
<1> DEFINE u == Front(t)
           n == Len(t)
<1>1. n \in Nat
  BY LengthOf
<1>2. IsSeq(u) /\ Len(u) = n - 1 /\ \A i \in 1 .. n - 1 : u[i] = t[i]
  BY FrontOf
<1> HIDE DEF u
<1>3. \A k \in 1 .. n - 1 : k \in 1 .. n
  BY <1>1
<1> QED BY <1>2, <1>3 DEF EncodeFirst, u

\* If it is on top, there is none below.
LEMMA FirstAlone ==
  ASSUME NEW t, IsSeq(t), t # <<>>, EncodeFirst(t), Last(t).kind = "encode"
  PROVE  Front(t) = <<>> /\ t[1] = Last(t) /\ Last(t).value = Nil
<1> DEFINE n == Len(t)
<1>1. n \in Nat /\ Last(t) = t[n] /\ n \in 1 .. n
  BY LengthOf
<1>2. n = 1 /\ Last(t).value = Nil
  BY <1>1 DEF EncodeFirst
<1>3. IsSeq(Front(t)) /\ Len(Front(t)) = n - 1
  BY FrontOf
<1>4. Front(t) = <<>>
  <2> DEFINE u == Front(t)
             m == Len(u)
  <2>1. (u # <<>> <=> m > 0) /\ m = n - 1
    BY <1>3, LengthOf
  <2> HIDE DEF u, m, n
  <2>2. ~(m > 0)
    BY <1>2, <2>1
  <2>3. u = <<>>
    BY <2>1, <2>2
  <2> QED BY <2>3 DEF u
<1> QED BY <1>1, <1>2, <1>4

\* One that goes on as what it is.
LEMMA FirstReplaced ==
  ASSUME NEW t, IsSeq(t), t # <<>>, EncodeFirst(t), NEW f, f.kind = Last(t).kind,
         f.kind = "encode" => f.value = Last(t).value
  PROVE  IsSeq(Append(Front(t), f)) /\ EncodeFirst(Append(Front(t), f))
<1>1. IsSeq(Front(t)) /\ EncodeFirst(Front(t))
  BY FirstPopped
<1>2. f.kind = "encode" => Front(t) = <<>> /\ f.value = Nil
  BY FirstAlone
<1> QED BY <1>1, <1>2, FirstPushed

\* A value that is complete.
LEMMA FirstCompleted ==
  ASSUME TypeInv, todo # <<>>, EncodeFirst(todo), NEW v, Completes(v)
  PROVE  EncodeFirst(todo')
<1>1. IsSeq(todo) /\ Counted(todo, heap)
  BY DEF TypeInv, Typed, Counted
<1>2. IsSeq(Below) /\ EncodeFirst(Below) /\ AllWait(Below, heap)
  BY <1>1, FirstPopped, TopCounted DEF Below
<1>3. CASE Below = <<>>
  <2>1. todo' = <<>>
    BY <1>3 DEF Completes
  <2> QED BY <1>2, <1>3, <2>1
<1>4. CASE Below # <<>>
  <2> DEFINE b == Last(Below)
             f == [b EXCEPT !.seen = Append(b.seen, v)]
  <2>1. Plain(b, heap)
    BY <1>2, <1>4, LastWaits
  <2>2. todo' = Append(Front(Below), f)
    BY <1>4 DEF Completes
  <2>3. f.kind = b.kind /\ f.value = b.value
    BY <2>1 DEF Plain
  <2> HIDE DEF f
  <2>4. f.kind = Last(Below).kind /\ f.value = Last(Below).value
    BY <2>3
  <2> QED BY <1>2, <1>4, <2>2, <2>4, FirstReplaced
<1> QED BY <1>3, <1>4

\* Every step keeps it so.
LEMMA FirstKept ==
  ASSUME TypeInv, EncodeFirst(todo), Next
  PROVE  EncodeFirst(todo')
<1>1. IsSeq(todo) /\ Typed
  BY DEF TypeInv, Typed, Counted
<1>2. todo # <<>> => IsSeq(Below) /\ EncodeFirst(Below)
  BY <1>1, FirstPopped DEF Below
<1>3. ASSUME WriteLeaf \/ TagEnds \/ ArrayEnds \/ HashEnds \/ ForeignReturns \/ HeaderEnds \/ EncodeReturns
      PROVE  EncodeFirst(todo')
  <2>1. todo # <<>>
    BY <1>3 DEF WriteLeaf, TagEnds, ArrayEnds, HashEnds, ForeignReturns, HeaderEnds, EncodeReturns, TopIs
  <2>2. \E v : Completes(v)
    BY <1>3, Zenon DEF WriteLeaf, TagEnds, ArrayEnds, HashEnds, ForeignReturns, HeaderEnds, EncodeReturns
  <2> QED BY <2>1, <2>2, FirstCompleted
<1>4. ASSUME NEW f, f.kind # "encode", todo # <<>>, todo' = Append(Below, f)
      PROVE  EncodeFirst(todo')
  BY <1>2, <1>4, FirstPushed
<1>5. ASSUME NEW f, f.kind # "encode", todo # <<>>, NEW v, todo' = Append(Append(Below, f), Item(v))
      PROVE  EncodeFirst(todo')
  <2> DEFINE g == Item(v)
             u == Append(Below, f)
  <2>1. g.kind # "encode"
    BY DEF Item, Frame
  <2>2. IsSeq(u) /\ EncodeFirst(u)
    BY <1>2, <1>5, FirstPushed
  <2>3. todo' = Append(u, g)
    BY <1>5
  <2> HIDE DEF g, u
  <2> QED BY <2>1, <2>2, <2>3, FirstPushed
<1>6. ASSUME NEW f, f.kind # "encode", todo' = Append(todo, f)
      PROVE  EncodeFirst(todo')
  BY <1>1, <1>6, FirstPushed
<1>7. CASE WriteTagged
  <2> DEFINE f == Frame("tag", Nil, 1, Top.value)
  <2>1. todo # <<>> /\ \E v : todo' = Append(Append(Below, f), Item(v))
    BY <1>7 DEF WriteTagged, TopIs
  <2>2. f.kind # "encode"
    BY DEF Frame
  <2> HIDE DEF f
  <2> QED BY <1>5, <2>1, <2>2
<1>8. CASE WriteArray \/ WriteHash \/ WriteForeign
  <2>1. \E kind, o, n, v : kind \in {"array", "hash", "foreign"} /\ todo' = Append(Below, Frame(kind, o, n, v))
    <3>1. WriteArray => \E o, n, v : todo' = Append(Below, Frame("array", o, n, v))
      BY Zenon DEF WriteArray
    <3>2. WriteHash => \E o, n, v : todo' = Append(Below, Frame("hash", o, n, v))
      BY Zenon DEF WriteHash
    <3>3. WriteForeign => \E o, n, v : todo' = Append(Below, Frame("foreign", o, n, v))
      BY Zenon DEF WriteForeign
    <3> QED BY <1>8, <3>1, <3>2, <3>3
  <2>2. todo # <<>>
    BY <1>8 DEF WriteArray, WriteHash, WriteForeign, TopIs
  <2>3. PICK kind, o, n, v : kind \in {"array", "hash", "foreign"} /\ todo' = Append(Below, Frame(kind, o, n, v))
    BY <2>1
  <2> DEFINE f == Frame(kind, o, n, v)
  <2>4. f.kind # "encode"
    <3>1. f.kind = kind
      BY DEF Frame
    <3> HIDE DEF f
    <3> QED BY <2>3, <3>1
  <2> HIDE DEF f
  <2> QED BY <1>4, <2>2, <2>3, <2>4 DEF f
<1>9. CASE NextElement
  <2> DEFINE f == [Top EXCEPT !.i = Top.i + 1]
  <2>1. TopIs("array") /\ \E v : todo' = Append(Append(Below, f), Item(v))
    BY <1>9 DEF NextElement
  <2>2. Plain(Top, heap) /\ Top.kind = "array" /\ todo # <<>>
    BY <1>1, <2>1, TopTyped
  <2>3. f.kind # "encode"
    BY <2>2 DEF Plain
  <2> HIDE DEF f
  <2> QED BY <1>5, <2>1, <2>2, <2>3
<1>10. CASE NextEntry
  <2>1. PICK at, value, v : todo' = Append(Append(Below, Advanced(Top, at, value)), Item(v))
    BY <1>10, Zenon DEF NextEntry, Advanced
  <2>2. TopIs("hash")
    BY <1>10 DEF NextEntry
  <2>3. Plain(Top, heap) /\ Top.kind = "hash" /\ todo # <<>>
    BY <1>1, <2>2, TopTyped
  <2> DEFINE f == Advanced(Top, at, value)
  <2>4. f.kind # "encode"
    <3> DEFINE f1 == [Top EXCEPT !.i = Top.i + 1]
               f2 == [f1 EXCEPT !.at = at]
               f3 == [f2 EXCEPT !.value = value]
    <3>1. f = f3
      BY DEF Advanced
    <3>2. f1.kind = "hash"
          /\ f1 = [kind |-> f1.kind, obj |-> f1.obj, need |-> f1.need, i |-> f1.i,
                   at |-> f1.at, value |-> f1.value, seen |-> f1.seen]
      BY <2>3 DEF Plain
    <3> HIDE DEF f1
    <3>3. f2.kind = "hash"
          /\ f2 = [kind |-> f2.kind, obj |-> f2.obj, need |-> f2.need, i |-> f2.i,
                   at |-> f2.at, value |-> f2.value, seen |-> f2.seen]
      BY <3>2
    <3> HIDE DEF f2
    <3>4. f3.kind = "hash"
      BY <3>3
    <3> HIDE DEF f3, f
    <3> QED BY <3>1, <3>4
  <2> HIDE DEF f
  <2> QED BY <1>5, <2>1, <2>3, <2>4 DEF f
<1>11. CASE NextValue \/ \E v \in Arguments : Write(v)
  <2>1. PICK v : todo' = Append(todo, Item(v))
    BY <1>11 DEF NextValue, Write
  <2> DEFINE f == Item(v)
  <2>2. f.kind # "encode"
    BY DEF Item, Frame
  <2> HIDE DEF f
  <2> QED BY <1>6, <2>1, <2>2 DEF f
<1>12. CASE \E header \in Headers : WriteHeader(header[1], header[2])
  <2>1. PICK o, n, v : todo' = Append(todo, Frame("header", o, n, v))
    BY <1>12, Zenon DEF WriteHeader
  <2> DEFINE f == Frame("header", o, n, v)
  <2>2. f.kind # "encode"
    BY DEF Frame
  <2> HIDE DEF f
  <2> QED BY <1>6, <2>1, <2>2 DEF f
<1>13. CASE \E v \in Arguments : Encode(v)
  <2>1. PICK v : todo = <<>> /\ todo' = <<Frame("encode", Nil, 1, Nil), Item(v)>>
    BY <1>13 DEF Encode
  <2> DEFINE e == Frame("encode", Nil, 1, Nil)
             g == Item(v)
             u == Append(<<>>, e)
  <2>2. e.value = Nil /\ g.kind # "encode"
    BY DEF Frame, Item
  <2> HIDE DEF e, g
  <2>3. todo' = Append(u, g)
    BY <2>1 DEF e, g
  <2>4. IsSeq(u) /\ EncodeFirst(u)
    BY <1>1, <2>1, <2>2, FirstPushed
  <2> HIDE DEF u
  <2> QED BY <2>2, <2>3, <2>4, FirstPushed
<1>14. ASSUME todo' = <<>> PROVE EncodeFirst(todo')
  BY <1>14, EmptyIsSeq DEF EncodeFirst
<1>15. CASE Refuses \/ IoRaises \/ CallbackRaises
  <2> DEFINE first == todo[1]
  <2>1. \E bytes, n : Unwinds(bytes, n)
    BY <1>15, Zenon DEF Refuses, IoRaises, CallbackRaises
  <2>2. todo' = <<>> \/ (todo' = <<first>> /\ first.kind = "header")
    BY <2>1 DEF Unwinds
  <2> HIDE DEF first
  <2>3. CASE todo' = <<first>> /\ first.kind = "header"
    <3>1. Len(<<first>>) = 1 /\ <<first>>[1] = first
      OBVIOUS
    <3>2. \A k \in 1 .. 1 : k = 1
      OBVIOUS
    <3> QED BY <2>3, <3>1, <3>2 DEF EncodeFirst
  <2> QED BY <1>14, <2>2, <2>3
<1>16. CASE Clear
  <2>1. todo' = <<>>
    BY <1>16 DEF Clear
  <2> QED BY <1>14, <2>1
<1>17. CASE Flush \/ \E o \in Object : ArrayChanges(o) \/ HashChanges(o)
  <2>1. todo' = todo
    BY <1>17, Zenon DEF Flush, ArrayChanges, HashChanges
  <2> QED BY <2>1
<1> QED BY <1>3, <1>7, <1>8, <1>9, <1>10, <1>11, <1>12, <1>13, <1>15, <1>16, <1>17, Zenon DEF Next

-----------------------------------------------------------------------------
(* What is sent is the beginning of what is written *)

\* What a reading of the bytes sent gives is what was written first; after an
\* exception has cut a value short, the same is true of all bytes.
GoesOut == Passes(sent, written) /\ (damaged => Passes(Out, written))

\* Where a value of the caller, or of a to_cbor, may go.
LEMMA RubyReady ==
  ASSUME TypeInv, ReadInv, RubyRuns, ~damaged
  PROVE  Ready(Out, ShownAll(todo), written)
<1>1. Typed /\ Inv /\ BytesOK
  BY DEF TypeInv, Typed
<1>2. AllWait(todo, heap)
  BY <1>1, RubyWaits
<1>3. Waiting(ShownAll(todo))
  BY <1>1, <1>2, AllTake DEF Inv
<1>4. Stands(todo, written, Total + 1) = At(Total + 1, ShownAll(todo), written)
  BY <1>2, StandsWaiting
<1>5. Stood /\ Out \in Seq(Byte) /\ Len(Out) = Total
  BY <1>1, OutIs DEF ReadInv
<1> QED BY <1>3, <1>4, <1>5 DEF Ready, Stood

\* Bytes that go into the buffer may send those that were there.
LEMMA EmitsPasses ==
  ASSUME BytesOK, GoesOut, NEW o, Ready(Out, o, written), NEW x, Emits(x)
  PROVE  Passes(sent', written)
<1>1. sent' = sent \/ sent' = Out
  BY DEF Emits, Out
<1> QED BY <1>1, PassesReady DEF GoesOut

\* A value that is complete.
LEMMA CompletesPasses ==
  ASSUME sent' \in Seq(Byte), Passes(sent', written), NEW v, Completes(v)
  PROVE  Passes(sent', written')
<1>1. written' = written \/ written' = Append(written, v)
  BY DEF Completes
<1> QED BY <1>1, PassesMore

\* The bytes of a value without elements that are in the buffer when the next
\* are to go there.
LEMMA BegunPart ==
  ASSUME NEW v \in Values, v[1] \in Leaves \cup {"tagged", "ref"}, NEW begun \in Begun(v), begun # <<>>
  PROVE  v[1] \in Leaves /\ \E x \in Seq(Byte) : x # <<>> /\ LeafBytes(v) = begun \o x
<1> DEFINE k == v[1]
           bytes == LeafBytes(v)
           length == Len(bytes)
           l == Len(LeafMeaning(v)[3])
           head == length - l
           A == {SubSeq(bytes, 1, j) : j \in {0, head} \ {length}}
           B == {SubSeq(bytes, 1, j) : j \in {0, 1, head}}
           G1 == k \in {"string", "sym"}
           G2 == k = "int" /\ Len(v[3]) > 8
<1>1. begun \in (CASE G1 -> A [] G2 -> B [] OTHER -> {<<>>})
  BY Zenon DEF Begun
<1>2. (G1 => ~G2) /\ (G1 \/ G2 => k \in Leaves)
  BY DEF Leaves
<1>3. G1 \/ G2 => bytes \in Seq(Byte) /\ length \in Nat
  BY LeafType, LenProperties DEF Leaves
<1>4. G1 => l \in Nat
  <2>1. CASE k = "string"
    <3>1. k # "sym"
      BY <2>1
    <3>2. LeafMeaning(v) = Encoded(v[2], v[3])
      BY <2>1, <3>1, Zenon DEF LeafMeaning
    <3>3. v[2] \in {"binary", "utf8", "usascii", "latin1"} /\ v[3] \in Seq(Byte)
      BY <2>1, ValueAssumption
    <3>4. PICK text, out : out \in Seq(Byte) /\ Encoded(v[2], v[3]) = Str(text, out)
      BY <3>3, EncodedType, Zenon
    <3>5. Str(text, out)[3] = out
      BY DEF Str
    <3>6. LeafMeaning(v)[3] \in Seq(Byte)
      BY <3>2, <3>4, <3>5, Zenon
    <3> QED BY <3>6, LenProperties
  <2>2. CASE k = "sym"
    <3>1. k # "string"
      BY <2>2
    <3>2. LeafMeaning(v) = Str(TRUE, v[2])
      BY <2>2, <3>1, Zenon DEF LeafMeaning
    <3>3. v[2] \in Seq(Byte)
      BY <2>2, ValueAssumption
    <3>4. Str(TRUE, v[2])[3] = v[2]
      BY DEF Str
    <3>5. LeafMeaning(v)[3] \in Seq(Byte)
      BY <3>2, <3>3, <3>4, Zenon
    <3> QED BY <3>5, LenProperties
  <2> QED BY <2>1, <2>2
<1>5. G2 => l \in Nat /\ l > 0 /\ 1 < length
  <2> SUFFICES ASSUME G2 PROVE l \in Nat /\ l > 0 /\ 1 < length
    OBVIOUS
  <2>1. k # "string" /\ k # "sym" /\ k # "nil" /\ k # "bool" /\ k # "float" /\ k # "simple"
    OBVIOUS
  <2>2. LeafMeaning(v) = v
    BY <2>1, Zenon DEF LeafMeaning
  <2>3. v[3] \in Seq(Byte) /\ Len(v[3]) \in Lengths
    BY ValueAssumption
  <2>4. bytes = IntegerBytes(v[2], v[3])
    BY <2>1, Zenon DEF LeafBytes
  <2>5. 1 < Len(IntegerBytes(v[2], v[3]))
    BY <2>3, BignumStarts, Zenon
  <2>6. Len(v[3]) \in Nat /\ Len(v[3]) > 8
    BY <2>3, LenProperties
  <2>7. Len(v[3]) > 0
    BY <2>6
  <2> QED BY <2>2, <2>4, <2>5, <2>6, <2>7
<1> HIDE DEF bytes, length, l, G1, G2
<1>6. G1 \/ G2
  <2> SUFFICES ASSUME ~G1, ~G2 PROVE FALSE
    OBVIOUS
  <2>1. begun = <<>>
    BY <1>1, Zenon
  <2> QED BY <2>1
<1>7. \E j \in Int : j < length /\ begun = SubSeq(bytes, 1, j)
  <2>1. CASE G1
    <3>1. begun \in A
      BY <1>1, <1>2, <2>1, Zenon
    <3>2. PICK j \in {0, head} \ {length} : begun = SubSeq(bytes, 1, j)
      BY <3>1
    <3>3. j \in Int /\ j < length
      BY <1>3, <1>4, <2>1
    <3> QED BY <3>2, <3>3
  <2>2. CASE G2
    <3>1. begun \in B
      BY <1>1, <1>2, <2>2, Zenon
    <3>2. PICK j \in {0, 1, head} : begun = SubSeq(bytes, 1, j)
      BY <3>1
    <3>3. j \in Int /\ j < length
      BY <1>3, <1>5, <2>2
    <3> QED BY <3>2, <3>3
  <2> QED BY <1>6, <2>1, <2>2
<1>8. PICK j \in Int : j < length /\ begun = SubSeq(bytes, 1, j)
  BY <1>7
<1>9. bytes \in Seq(Byte) /\ length \in Nat
  BY <1>3, <1>6
<1>10. j \in 0 .. length
  <2>1. j < 0 => begun = <<>>
    BY <1>8
  <2> QED BY <1>8, <1>9, <2>1
<1> DEFINE x == SubSeq(bytes, j + 1, Len(bytes))
<1>11. x \in Seq(Byte) /\ Len(x) = Len(bytes) - j /\ bytes = SubSeq(bytes, 1, j) \o x
  BY <1>9, <1>10, CutConcat DEF length
<1> HIDE DEF x
<1>12. x # <<>>
  <2>1. Len(x) # 0
    BY <1>8, <1>9, <1>10, <1>11 DEF length
  <2> QED BY <2>1, EmptySeq
<1>13. bytes = begun \o x
  BY <1>8, <1>11
<1> QED BY <1>2, <1>6, <1>11, <1>12, <1>13 DEF bytes

\* An exception: as much goes out as the io has taken, and the rest may stay.
LEMMA UnwindsPasses ==
  ASSUME BytesOK, NEW bytes, bytes \in Seq(Byte), NEW n, n \in 0 .. Len(bytes), Unwinds(bytes, n),
         \/ Passes(sent \o bytes, written)
         \/ Encoding(todo) /\ Passes(sent \o SubSeq(bytes, 1, n), written)
  PROVE  GoesOut'
<1> DEFINE first == todo[1]
           a == SubSeq(bytes, 1, n)
           rest == SubSeq(bytes, n + 1, Len(bytes))
<1>1. a \in Seq(Byte) /\ rest \in Seq(Byte) /\ bytes = a \o rest
  BY CutConcat
<1>2. /\ sent' = sent \o a /\ written' = written
      /\ buffer' = (IF first.kind = "encode" THEN <<>> ELSE rest)
  BY DEF Unwinds
<1>3. Encoding(todo) => first.kind = "encode"
  BY DEF Encoding
<1> HIDE DEF a, rest, first
<1>4. sent \in Seq(Byte) /\ sent \o a \in Seq(Byte)
  <2>1. sent \in Seq(Byte)
    BY DEF BytesOK
  <2> QED BY ONLY <1>1, <2>1, Joined
<1>5. sent \o bytes = (sent \o a) \o rest
  BY ONLY <1>1, <1>4, ConcatAssociative
<1>6. Passes(sent \o a, written)
  <2>1. CASE Passes(sent \o bytes, written)
    <3>1. Passes((sent \o a) \o rest, written)
      BY <1>5, <2>1
    <3> QED BY <1>1, <1>4, <3>1, PassesLess
  <2>2. CASE Encoding(todo) /\ Passes(sent \o SubSeq(bytes, 1, n), written)
    BY <2>2 DEF a
  <2> QED BY <2>1, <2>2
<1>7. Passes(Out', written)
  <2>1. CASE first.kind = "encode"
    <3>1. Out' = (sent \o a) \o <<>>
      BY <1>2, <2>1 DEF Out
    <3>2. (sent \o a) \o <<>> = sent \o a
      BY ONLY <1>4, ConcatEmptySeq
    <3> QED BY <1>6, <3>1, <3>2
  <2>2. CASE first.kind # "encode"
    <3>1. Out' = sent \o bytes
      BY <1>2, <1>5, <2>2 DEF Out
    <3>2. ~Encoding(todo)
      BY <1>3, <2>2
    <3> QED BY <3>1, <3>2
  <2> QED BY <2>1, <2>2
<1> QED BY <1>2, <1>6, <1>7 DEF GoesOut

\* An exception of the io, while a value goes into the buffer or encode ends.
LEMMA IoPasses ==
  ASSUME PlainSimples, FormTypes, ReadInv, GoesOut, EncodeFirst(todo), ~damaged, IoRaises
  PROVE  GoesOut'
<1> DEFINE v == Top.value
<1>1. buffer \in Seq(Byte) /\ sent \in Seq(Byte) /\ Typed /\ TypeInv /\ BytesOK /\ IsSeq(todo)
  BY MarkIs DEF BytesOK, TypeInv
<1>2. /\ TopIs("item") \/ (TopIs("encode") /\ Complete(Top))
      /\ v[1] \in Leaves \cup {"tagged", "ref"}
  BY DEF IoRaises
<1>3. v \in Values /\ todo # <<>>
  BY <1>1, <1>2, TopTyped
<1>4. PICK begun \in Begun(v) :
        LET bytes == buffer \o begun
        IN bytes # <<>> /\ \E n \in {0, Len(bytes) \div 2} : Unwinds(bytes, n)
  BY Zenon DEF IoRaises
<1> HIDE DEF v
<1>5. begun \in Seq(Byte)
  BY <1>2, <1>3, BegunType
<1> DEFINE bytes == buffer \o begun
<1>6. bytes \in Seq(Byte)
  BY ONLY <1>1, <1>5, Joined
<1>7. PICK n \in {0, Len(bytes) \div 2} : Unwinds(bytes, n)
  BY <1>4
<1>8. bytes # <<>>
  BY <1>4
<1>9. n \in 0 .. Len(bytes) /\ n < Len(bytes)
  <2> DEFINE l == Len(bytes)
  <2>1. l \in Nat /\ l # 0 /\ n \in {0, l \div 2}
    BY <1>6, <1>7, <1>8, LenProperties, EmptySeq
  <2> HIDE DEF l
  <2>2. n \in 0 .. l /\ n < l
    BY ONLY <2>1
  <2> QED BY <2>2 DEF l
<1>10. sent \o bytes = Out \o begun
  <2>1. sent \o (buffer \o begun) = (sent \o buffer) \o begun
    BY ONLY <1>1, <1>5, ConcatAssociative
  <2> QED BY <2>1 DEF Out
<1>11. begun = <<>> => bytes = buffer
  BY ONLY <1>1, ConcatEmptySeq DEF bytes
<1>12. Out \in Seq(Byte)
  BY <1>1, OutIs
<1> HIDE DEF bytes
<1>13. CASE TopIs("item")
  <2> DEFINE o == ShownAll(Below)
  <2>1. Ready(Out, o, written)
    BY <1>1, <1>13, ItemReady
  <2>2. CASE begun = <<>>
    <3>1. sent \o bytes = Out
      BY <1>11, <2>2 DEF Out
    <3>2. Passes(sent \o bytes, written)
      BY <2>1, <3>1, PassesReady
    <3> QED BY <1>1, <1>6, <1>7, <1>9, <3>2, UnwindsPasses
  <2>3. CASE begun # <<>>
    <3> DEFINE b == LeafBytes(v)
               m == LeafMeaning(v)
    <3>1. PICK x \in Seq(Byte) : x # <<>> /\ b = begun \o x
      BY <1>2, <1>3, <2>3, BegunPart
    <3>2. v[1] \in Leaves
      BY <1>2, <1>3, <2>3, BegunPart
    <3>3. ReadAs(b, m)
      BY <1>3, <3>2, LeafRead
    <3> DEFINE z == Out \o b
               s == Out \o begun
    <3>4. Reaches(z, With(At(Len(z) + 1, o, written), m))
      BY <2>1, <3>3 DEF ReadAs
    <3> HIDE DEF b, m, o
    <3>5. z = s \o x
      <4>1. Out \o (begun \o x) = (Out \o begun) \o x
        BY ONLY <1>5, <1>12, x \in Seq(Byte), ConcatAssociative
      <4> QED BY <3>1, <4>1
    <3>6. s \in Seq(Byte)
      BY ONLY <1>5, <1>12, Joined
    <3>7. IsSeq(written)
      BY <1>1, PassesList DEF GoesOut
    <3> HIDE DEF s, z
    <3>8. Passes(s, written)
      BY <3>1, <3>4, <3>5, <3>6, <3>7, PassesPart
    <3>9. Passes(sent \o bytes, written)
      BY <1>10, <3>8 DEF s
    <3> QED BY <1>1, <1>6, <1>7, <1>9, <3>9, UnwindsPasses
  <2> QED BY <2>2, <2>3
<1>14. CASE TopIs("encode") /\ Complete(Top)
  <2>1. Top.kind = "encode" /\ Len(Top.seen) = Top.need /\ Plain(Top, heap)
    BY <1>1, <1>14, TopTyped DEF Complete
  <2>2. Below = <<>> /\ todo[1] = Top /\ v = Nil
    BY <1>1, <1>3, <2>1, FirstAlone DEF Top, Below, v
  <2>3. begun = <<>>
    <3>1. v[1] = "nil"
      BY <2>2 DEF Nil
    <3>2. v[1] \notin {"string", "sym"} /\ v[1] # "int"
      BY <3>1
    <3>3. Begun(v) = {<<>>}
      BY <3>2, Zenon DEF Begun
    <3> QED BY <3>3
  <2>4. Top.seen # <<>>
    <3>1. Top.need = 1
      BY <2>1 DEF Plain
    <3> QED BY <2>1, <3>1, EmptyIsSeq
  <2> DEFINE y == Top.seen[1]
             o == ShownAll(Below)
  <2>5. Reaches(Out, With(At(Total + 1, o, written), y))
    <3>1. Pending(todo)
      BY <1>3, <2>1, <2>4 DEF Pending, Top
    <3>2. ShownAll(todo) = o
      <4>1. FirstOK(todo)
        BY DEF ReadInv
      <4>2. ShownAll(todo) = IF Top.kind \in Hidden THEN ShownAll(Below)
                             ELSE Append(ShownAll(Below), ContainerOf(Top))
        BY <1>1, <1>3, <4>1, TopReads
      <4>3. Top.kind \in Hidden
        BY <2>1 DEF Hidden
      <4> QED BY <4>2, <4>3
    <3>3. Stands(todo, written, Total + 1) = With(At(Total + 1, o, written), y)
      BY <3>1, <3>2 DEF Stands, Top
    <3> QED BY <3>3 DEF ReadInv, Stood
  <2> DEFINE a == SubSeq(buffer, 1, n)
             x == SubSeq(buffer, n + 1, Len(buffer))
             s == sent \o a
  <2>6. bytes = buffer
    BY <1>11, <2>3
  <2>7. a \in Seq(Byte) /\ x \in Seq(Byte) /\ Len(x) = Len(buffer) - n /\ buffer = a \o x
    BY <1>1, <1>9, <2>6, CutConcat
  <2>8. Len(buffer) \in Nat /\ n \in Nat /\ n < Len(buffer)
    BY <1>1, <1>9, <2>6, LenProperties
  <2> HIDE DEF a, x, y, o
  <2>9. x # <<>>
    <3>1. Len(x) # 0
      BY <2>7, <2>8
    <3> QED BY <3>1, EmptySeq
  <2>10. s \in Seq(Byte)
    BY ONLY <1>1, <2>7, Joined
  <2>11. Out = s \o x
    <3>1. sent \o (a \o x) = (sent \o a) \o x
      BY ONLY <1>1, <2>7, ConcatAssociative
    <3> QED BY <2>7, <3>1 DEF Out
  <2>12. IsSeq(written)
    BY <1>1, PassesList DEF GoesOut
  <2>13. Len(Out) = Total
    BY <1>1, OutIs
  <2> HIDE DEF s
  <2>14. Reaches(Out, With(At(Len(Out) + 1, o, written), y))
    BY <2>5, <2>13
  <2> DEFINE z == Out
  <2>15. z = s \o x /\ Reaches(z, With(At(Len(z) + 1, o, written), y))
    BY <2>11, <2>14
  <2> HIDE DEF z
  <2>16. Passes(s, written)
    BY <2>7, <2>9, <2>10, <2>12, <2>15, PassesPart
  <2>17. Encoding(todo)
    BY <1>3, <2>1, <2>2 DEF Encoding
  <2>18. Passes(sent \o SubSeq(bytes, 1, n), written)
    BY <2>6, <2>16 DEF s, a
  <2> QED BY <1>1, <1>6, <1>7, <1>9, <2>17, <2>18, UnwindsPasses
<1> QED BY <1>2, <1>13, <1>14

\* A step in which no value is complete.
LEMMA WritesPasses ==
  ASSUME FormTypes, BytesOK', ReadInv, GoesOut, ~damaged,
         \/ WriteTagged \/ WriteArray \/ WriteHash
         \/ \E header \in Headers : WriteHeader(header[1], header[2])
  PROVE  GoesOut'
<1>1. TypeInv /\ BytesOK
  BY MarkIs
<1>2. written' = written /\ damaged' = damaged /\ \E x : Emits(x)
  <2>1. WriteTagged \/ WriteArray \/ WriteHash => written' = written /\ damaged' = damaged /\ \E x : Emits(x)
    BY Zenon DEF WriteTagged, WriteArray, WriteHash
  <2>2. (\E header \in Headers : WriteHeader(header[1], header[2]))
        => written' = written /\ damaged' = damaged /\ \E x : Emits(x)
    BY Zenon DEF WriteHeader
  <2> QED BY <2>1, <2>2
<1>3. \E o : Ready(Out, o, written)
  <2>1. TopIs("item") => Ready(Out, ShownAll(Below), written)
    BY <1>1, ItemReady
  <2>2. RubyRuns => Ready(Out, ShownAll(todo), written)
    BY <1>1, RubyReady
  <2>3. TopIs("item") \/ RubyRuns
    BY Zenon DEF WriteTagged, WriteArray, WriteHash, WriteHeader
  <2> QED BY <2>1, <2>2, <2>3
<1>4. Passes(sent', written)
  BY <1>1, <1>2, <1>3, EmitsPasses
<1> QED BY <1>2, <1>4 DEF GoesOut

\* A step in which one is.
LEMMA EndsPasses ==
  ASSUME FormTypes, ReadInv, ReadInv', BytesOK', GoesOut, EncodeFirst(todo), ~damaged,
         \/ WriteLeaf \/ TagEnds \/ ArrayEnds \/ HashEnds \/ HeaderEnds \/ ForeignReturns
         \/ EncodeReturns
  PROVE  GoesOut'
<1>1. TypeInv /\ BytesOK /\ Typed /\ IsSeq(todo)
  BY MarkIs DEF TypeInv
<1>2. damaged' = damaged /\ sent' \in Seq(Byte)
  <2>1. damaged' = damaged
    BY Zenon DEF WriteLeaf, TagEnds, ArrayEnds, HashEnds, HeaderEnds, ForeignReturns, EncodeReturns
  <2> QED BY <2>1 DEF BytesOK
<1>3. CASE WriteLeaf
  <2>1. TopIs("item") /\ (\E x : Emits(x)) /\ (\E v : Completes(v))
    BY <1>3, Zenon DEF WriteLeaf
  <2>2. Ready(Out, ShownAll(Below), written)
    BY <1>1, <2>1, ItemReady
  <2>3. Passes(sent', written)
    BY <1>1, <2>1, <2>2, EmitsPasses
  <2>4. Passes(sent', written')
    BY <1>2, <2>1, <2>3, CompletesPasses
  <2> QED BY <1>2, <2>4 DEF GoesOut
<1>4. CASE TagEnds \/ ArrayEnds \/ HashEnds \/ HeaderEnds \/ ForeignReturns
  <2>1. sent' = sent /\ \E v : Completes(v)
    BY <1>4, Zenon DEF TagEnds, ArrayEnds, HashEnds, HeaderEnds, ForeignReturns
  <2>2. Passes(sent', written)
    BY <2>1 DEF GoesOut
  <2>3. Passes(sent', written')
    BY <1>2, <2>1, <2>2, CompletesPasses
  <2> QED BY <1>2, <2>3 DEF GoesOut
<1>5. CASE EncodeReturns
  <2>1. TopIs("encode") /\ sent' = sent \o buffer /\ buffer' = <<>> /\ \E v : Completes(v)
    BY <1>5, Zenon DEF EncodeReturns
  <2>2. todo # <<>> /\ Top.kind = "encode"
    BY <2>1 DEF TopIs
  <2>3. Below = <<>>
    BY <1>1, <2>2, FirstAlone DEF Top, Below
  <2>4. todo' = <<>>
    BY <2>1, <2>3 DEF Completes
  <2>5. Out' = Out /\ Total' = Total
    BY <1>1, <2>1, StaysOut
  <2>6. sent' = Out /\ Out \in Seq(Byte) /\ Len(Out) = Total
    BY <1>1, <2>1, OutIs DEF Out
  <2>7. Reaches(Out', Stands(todo', written', Total' + 1))
    BY <1>2 DEF ReadInv, Stood
  <2>8. Stands(<<>>, written', Total + 1) = At(Total + 1, <<>>, written')
    BY ShownNone, StandsOther
  <2>9. Waiting(<<>>)
    BY DEF Waiting
  <2>10. Ready(Out, <<>>, written')
    BY <2>4, <2>5, <2>6, <2>7, <2>8, <2>9 DEF Ready
  <2>11. Passes(sent', written')
    BY <2>6, <2>10, PassesReady
  <2> QED BY <1>2, <2>11 DEF GoesOut
<1> QED BY <1>3, <1>4, <1>5

\* flush, clear, and an exception of a to_cbor.
LEMMA EmptiesPasses ==
  ASSUME FormTypes, ReadInv, GoesOut, ~damaged, Flush \/ Clear \/ Refuses \/ CallbackRaises
  PROVE  GoesOut'
<1>1. TypeInv /\ BytesOK /\ buffer \in Seq(Byte) /\ sent \in Seq(Byte)
  BY MarkIs DEF BytesOK
<1>2. RubyRuns => Passes(Out, written)
  BY <1>1, RubyReady, PassesReady
<1>3. CASE Flush
  <2>1. RubyRuns /\ sent' = Out /\ written' = written /\ damaged' = damaged
    BY <1>3 DEF Flush, Out
  <2> QED BY <1>2, <2>1 DEF GoesOut
<1>4. CASE Clear
  <2>1. /\ sent' = sent /\ buffer' = <<>> /\ (damaged' => sent # <<>>)
        /\ written' = IF sent = <<>> THEN <<>> ELSE written
    BY <1>4 DEF Clear
  <2>2. sent \o <<>> = sent
    BY ONLY <1>1, ConcatEmptySeq
  <2>3. Out' = sent
    BY <2>1, <2>2 DEF Out
  <2>4. CASE sent = <<>>
    <3>1. <<>> \in Seq(Byte) /\ Len(<<>>) = 0
      BY EmptySeq
    <3>2. Reaches(<<>>, At(1, <<>>, <<>>))
      BY <3>1, ReachesStart
    <3>3. Len(<<>>) + 1 = 1
      BY <3>1
    <3>4. Waiting(<<>>)
      BY DEF Waiting
    <3>5. Ready(<<>>, <<>>, <<>>)
      BY <3>1, <3>2, <3>3, <3>4 DEF Ready
    <3>6. Passes(<<>>, <<>>)
      BY <3>5, PassesReady
    <3> QED BY <2>1, <2>4, <3>6 DEF GoesOut
  <2>5. CASE sent # <<>>
    BY <2>1, <2>3, <2>5 DEF GoesOut
  <2> QED BY <2>4, <2>5
<1>5. CASE Refuses \/ CallbackRaises
  <2>1. Unwinds(buffer, 0)
    BY <1>5 DEF Refuses, CallbackRaises
  <2>2. TopIs("item") \/ RubyRuns
    BY <1>5 DEF Refuses, CallbackRaises, InCallback
  <2>3. Passes(sent \o buffer, written)
    <3>1. TopIs("item") => Passes(Out, written)
      BY <1>1, ItemReady, PassesReady
    <3> QED BY <1>2, <2>2, <3>1 DEF Out
  <2>4. 0 \in 0 .. Len(buffer)
    BY <1>1, LenProperties
  <2> QED BY <1>1, <2>1, <2>3, <2>4, UnwindsPasses
<1> QED BY <1>3, <1>4, <1>5

\* What to_cbor does to the objects.
LEMMA ChangesPasses ==
  ASSUME FormTypes, ReadInv, GoesOut, ~damaged, NEW o \in Object, ArrayChanges(o) \/ HashChanges(o)
  PROVE  GoesOut'
<1>1. TypeInv /\ RubyRuns
  BY MarkIs, Zenon DEF ArrayChanges, HashChanges, InCallback
<1>2. Passes(Out, written)
  BY <1>1, RubyReady, PassesReady
<1>3. sent' = sent /\ buffer' = buffer /\ written' = written
  BY Zenon DEF ArrayChanges, HashChanges
<1> QED BY <1>2, <1>3 DEF GoesOut, Out

\* A writer that only flushes once an exception has cut a value short.
Sends == (~damaged /\ Next) \/ (damaged /\ Flush)

SentTypes == ReadTypes /\ EncodeFirst(todo) /\ GoesOut

LEMMA InitSent == Init => SentTypes
<1> SUFFICES ASSUME Init PROVE SentTypes
  OBVIOUS
<1>1. ReadTypes
  BY InitInv, InitTyped, InitForm, InitReads DEF TypeInv, FormTypes, ReadTypes
<1>2. buffer = <<>> /\ sent = <<>> /\ todo = <<>> /\ written = <<>> /\ ~damaged
  BY DEF Init
<1>3. EncodeFirst(todo)
  BY <1>2, EmptyIsSeq DEF EncodeFirst
<1>4. TypeInv /\ RubyRuns /\ ReadInv
  BY <1>1, <1>2, MarkIs DEF ReadTypes, RubyRuns
<1>5. Passes(Out, written)
  BY <1>2, <1>4, RubyReady, PassesReady
<1>6. Out = <<>>
  <2>1. <<>> \in Seq(Byte)
    BY EmptySeq
  <2>2. <<>> \o <<>> = <<>>
    BY ONLY <2>1, ConcatEmptySeq
  <2> QED BY <1>2, <2>2 DEF Out
<1> QED BY <1>1, <1>2, <1>3, <1>5, <1>6 DEF SentTypes, GoesOut

LEMMA SendsSent == PlainSimples /\ SimplesFit /\ SentTypes /\ Sends => SentTypes'
<1> SUFFICES ASSUME PlainSimples, SimplesFit, SentTypes, Sends PROVE SentTypes'
  OBVIOUS
<1>1. ReadTypes /\ FormTypes /\ ReadInv /\ EncodeFirst(todo) /\ GoesOut /\ Next
  BY DEF SentTypes, ReadTypes, Sends, Next
<1>2. TypeInv /\ BytesOK
  BY <1>1, MarkIs
<1>3. ReadTypes'
  BY <1>1, NextReads
<1>4. EncodeFirst(todo')
  BY <1>1, <1>2, FirstKept
<1>5. ReadInv' /\ BytesOK'
  BY <1>3 DEF ReadTypes, FormTypes, TypeInv, Typed
<1>6. CASE damaged
  <2>1. Flush
    BY <1>6 DEF Sends
  <2>2. sent' = Out /\ written' = written /\ Out' = Out
    <3>1. sent' = sent \o buffer /\ buffer' = <<>> /\ written' = written
      BY <2>1 DEF Flush
    <3> QED BY <1>2, <3>1, StaysOut DEF Out
  <2>3. GoesOut'
    BY <1>1, <1>6, <2>2 DEF GoesOut
  <2> QED BY <1>3, <1>4, <2>3 DEF SentTypes
<1>7. CASE ~damaged
  <2>1. WriteTagged \/ WriteArray \/ WriteHash => GoesOut'
    BY <1>1, <1>5, <1>7, WritesPasses
  <2>2. (\E header \in Headers : WriteHeader(header[1], header[2])) => GoesOut'
    BY <1>1, <1>5, <1>7, WritesPasses
  <2>3. WriteLeaf \/ TagEnds \/ ArrayEnds \/ HashEnds \/ HeaderEnds \/ ForeignReturns \/ EncodeReturns => GoesOut'
    BY <1>1, <1>5, <1>7, EndsPasses
  <2>4. Flush \/ Clear \/ Refuses \/ CallbackRaises => GoesOut'
    BY <1>1, <1>7, EmptiesPasses
  <2>5. IoRaises => GoesOut'
    BY <1>1, <1>7, IoPasses
  <2>6. (\E o \in Object : ArrayChanges(o) \/ HashChanges(o)) => GoesOut'
    BY <1>1, <1>7, ChangesPasses
  <2>7. NextElement \/ NextEntry \/ NextValue \/ WriteForeign \/ (\E v \in Arguments : Write(v) \/ Encode(v))
        => GoesOut'
    <3>1. NextElement \/ NextEntry \/ NextValue \/ WriteForeign \/ (\E v \in Arguments : Write(v) \/ Encode(v))
          => sent' = sent /\ written' = written /\ damaged' = damaged
      BY Zenon DEF NextElement, NextEntry, NextValue, WriteForeign, Write, Encode
    <3> QED BY <1>1, <1>7, <3>1 DEF GoesOut
  <2>8. GoesOut'
    BY <1>1, <2>1, <2>2, <2>3, <2>4, <2>5, <2>6, <2>7, Zenon DEF Next
  <2> QED BY <1>3, <1>4, <2>8 DEF SentTypes
<1> QED BY <1>6, <1>7

\* Steps of others change nothing.
LEMMA SentStays ==
  ASSUME PlainSimples, SimplesFit, SentTypes, UNCHANGED vars
  PROVE  SentTypes'
<1>1. ReadTypes'
  BY NextReads DEF SentTypes
<1>2. UNCHANGED <<buffer, sent, todo, written, damaged>>
  BY DEF vars
<1> QED BY <1>1, <1>2 DEF SentTypes, GoesOut, Out

\* What has been sent stays.
LEMMA SentGrows ==
  ASSUME Typed, Next
  PROVE  \E x \in Seq(Byte) : sent' = sent \o x
<1>1. buffer \in Seq(Byte) /\ sent \in Seq(Byte) /\ <<>> \in Seq(Byte)
  BY EmptySeq DEF Typed, BytesOK
<1>2. ASSUME sent' = sent PROVE \E x \in Seq(Byte) : sent' = sent \o x
  <2>1. sent \o <<>> = sent
    BY ONLY <1>1, ConcatEmptySeq
  <2> QED BY <1>1, <1>2, <2>1
<1>3. (\E b : Emits(b)) => \E x \in Seq(Byte) : sent' = sent \o x
  BY <1>1, <1>2 DEF Emits
<1>4. WriteLeaf \/ WriteTagged \/ WriteArray \/ WriteHash \/ (\E header \in Headers : WriteHeader(header[1], header[2]))
      => \E x \in Seq(Byte) : sent' = sent \o x
  <2>1. WriteLeaf \/ WriteTagged \/ WriteArray \/ WriteHash => \E b : Emits(b)
    BY Zenon DEF WriteLeaf, WriteTagged, WriteArray, WriteHash
  <2>2. (\E header \in Headers : WriteHeader(header[1], header[2])) => \E b : Emits(b)
    BY Zenon DEF WriteHeader
  <2> QED BY <1>3, <2>1, <2>2
<1>5. Flush \/ EncodeReturns => \E x \in Seq(Byte) : sent' = sent \o x
  BY <1>1 DEF Flush, EncodeReturns
<1>6. ASSUME NEW bytes \in Seq(Byte), NEW n \in 0 .. Len(bytes), Unwinds(bytes, n)
      PROVE  \E x \in Seq(Byte) : sent' = sent \o x
  <2>1. SubSeq(bytes, 1, n) \in Seq(Byte)
    BY CutConcat
  <2> QED BY <1>6, <2>1 DEF Unwinds
<1>7. Refuses \/ CallbackRaises => \E x \in Seq(Byte) : sent' = sent \o x
  <2>1. 0 \in 0 .. Len(buffer)
    BY <1>1, LenProperties
  <2> QED BY <1>1, <1>6, <2>1 DEF Refuses, CallbackRaises
<1>8. CASE IoRaises
  <2> DEFINE v == Top.value
  <2>1. TopIs("item") \/ TopIs("encode")
    BY <1>8 DEF IoRaises
  <2>2. v[1] \in Leaves \cup {"tagged", "ref"}
    BY <1>8 DEF IoRaises
  <2>3. PICK begun \in Begun(v) :
          LET bytes == buffer \o begun
          IN \E n \in {0, Len(bytes) \div 2} : Unwinds(bytes, n)
    BY <1>8, Zenon DEF IoRaises
  <2>4. v \in Values
    BY <2>1, TopTyped
  <2> HIDE DEF v
  <2>5. begun \in Seq(Byte)
    BY <2>2, <2>4, BegunType
  <2> DEFINE bytes == buffer \o begun
             l == Len(bytes)
  <2>6. bytes \in Seq(Byte)
    BY ONLY <1>1, <2>5, Joined
  <2>7. PICK n \in {0, l \div 2} : Unwinds(bytes, n)
    BY <2>3
  <2> HIDE DEF bytes
  <2>8. l \in Nat
    BY <2>6, LenProperties
  <2> HIDE DEF l
  <2>9. n \in 0 .. l
    BY ONLY <2>8, n \in {0, l \div 2}
  <2> QED BY <1>6, <2>6, <2>7, <2>9 DEF l
<1>9. NextElement \/ NextEntry \/ NextValue \/ WriteForeign \/ TagEnds \/ ArrayEnds \/ HashEnds \/ HeaderEnds
      \/ ForeignReturns \/ Clear => sent' = sent
  BY Zenon DEF NextElement, NextEntry, NextValue, WriteForeign, TagEnds, ArrayEnds, HashEnds, HeaderEnds,
     ForeignReturns, Clear
<1>10. (\E v \in Arguments : Write(v) \/ Encode(v)) \/ (\E o \in Object : ArrayChanges(o) \/ HashChanges(o))
       => sent' = sent
  BY Zenon DEF Write, Encode, ArrayChanges, HashChanges
<1> QED BY <1>2, <1>4, <1>5, <1>7, <1>8, <1>9, <1>10, Zenon DEF Next

=============================================================================
