--------------------------- MODULE UnpackerProofs ---------------------------
(***************************************************************************)
(* Proofs about the decoder, for any bytes cut in any way, any mix of      *)
(* methods and any depth of the stack.  The second half proves that it     *)
(* returns what its bytes stand for: at every step its stack, head_byte    *)
(* and the string it is in are the place in the bytes of the item that the *)
(* reading of CborItems has come to.                                       *)
(***************************************************************************)
EXTENDS Unpacker, CborFacts

\* counts below this are told apart
Counted == 16777216

\* Twice a count that is told apart is less than Huge.
LEMMA HugeIs == Huge \in Nat /\ 2 * Counted < Huge /\ Counted > 0
BY SMT DEF Huge, Counted

\* What a byte is.
LEMMA BytesAre == \A x \in Byte : x \in Nat /\ x < 256 /\ x < 65536
BY SMT DEF Byte

\* Numbers of one byte more.
LEMMA OneByteMore ==
  ASSUME NEW w \in Nat, NEW z \in Byte
  PROVE  /\ 256 * w + z \in Nat
         /\ w < 256 => 256 * w + z < 65536
         /\ w < 65536 => 256 * w + z < Counted
<1>1. z \in Nat /\ z <= 255
  BY SMT DEF Byte
<1> QED BY <1>1, SMT DEF Counted

\* How many bytes follow an initial byte.
LEMMA ArgWidthIs ==
  ASSUME NEW ib \in Byte
  PROVE  /\ ArgWidth(ib) \in Nat /\ AI(ib) \in 0 .. 31 /\ MajorType(ib) \in 0 .. 7
         /\ ib = 32 * MajorType(ib) + AI(ib)
         /\ ArgWidth(ib) = 8 => AI(ib) = 27
BY DEF ArgWidth, AI, MajorType, Byte

\* Leading zeros taken away leave bytes.
LEMMA SignificantBytes ==
  ASSUME NEW bytes \in Seq(Byte)
  PROVE  Significant(bytes) \in Seq(Byte)
<1> DEFINE I == {i \in 1 .. Len(bytes) : bytes[i] # 0}
           k == IF I # {} THEN Min(I) ELSE 0
<1>1. Significant(bytes) = IF k = 0 THEN <<>> ELSE SubSeq(bytes, k, Len(bytes))
  BY DEF Significant, SelectInSeq
<1>2. Len(bytes) \in Nat /\ I \subseteq Nat
  BY LenProperties
<1>3. k \in 0 .. Len(bytes)
  <2> HIDE DEF I
  <2>1. CASE I = {}
    BY <1>2, <2>1
  <2>2. CASE I # {}
    <3>1. Min(I) \in I
      BY <1>2, <2>2, MinOfNaturals
    <3> QED BY <1>2, <2>2, <3>1 DEF I
  <2> QED BY <2>1, <2>2
<1> HIDE DEF k
<1>4. CASE k = 0
  BY <1>1, <1>4, EmptySeq
<1>5. CASE k # 0
  <2>1. k - 1 \in 0 .. Len(bytes) /\ k - 1 + 1 = k
    BY <1>2, <1>3, <1>5, SMT
  <2>2. SubSeq(bytes, k - 1 + 1, Len(bytes)) \in Seq(Byte)
    BY <2>1, CutOf
  <2> QED BY <1>1, <1>5, <2>1, <2>2
<1> QED BY <1>4, <1>5

\* A count is a number below 2^24, or one not told apart from larger ones.
LEMMA CountIs ==
  ASSUME NEW arg \in Seq(Byte)
  PROVE  Count(arg) \in Nat /\ (Count(arg) < Counted \/ Count(arg) = Huge)
<1> DEFINE n == Significant(arg)
<1>1. n \in Seq(Byte) /\ Len(n) \in Nat
  BY SignificantBytes, LenProperties
<1>2. \A i \in 1 .. Len(n) : n[i] \in Byte
  BY <1>1, ElementOfSeq
<1>3. Count(arg) = CASE Len(n) = 0 -> 0
                     [] Len(n) = 1 -> n[1]
                     [] Len(n) = 2 -> 256 * n[1] + n[2]
                     [] Len(n) = 3 -> 256 * (256 * n[1] + n[2]) + n[3]
                     [] OTHER -> Huge
  BY DEF Count, CountOf
<1> HIDE DEF n
<1>4. CASE Len(n) = 0
  <2>1. Len(n) # 1 /\ Len(n) # 2 /\ Len(n) # 3
    BY <1>4
  <2>2. Count(arg) = 0
    BY <1>3, <1>4, <2>1, Zenon
  <2>4. Count(arg) \in Nat /\ Count(arg) < Counted
    BY <2>2, SMT DEF Byte, Counted
  <2> QED BY <2>4
<1>5. CASE Len(n) = 1
  <2>1. Len(n) # 0 /\ Len(n) # 2 /\ Len(n) # 3
    BY <1>5
  <2>2. Count(arg) = n[1]
    BY <1>3, <1>5, <2>1, Zenon
  <2>5. n[1] \in Byte
    BY <1>2, <1>5
  <2>3. n[1] \in Nat /\ n[1] < 256
    BY <2>5, BytesAre
  <2> QED BY <2>2, <2>3, SMT DEF Counted
<1>6. CASE Len(n) = 2
  <2>1. Len(n) # 0 /\ Len(n) # 1 /\ Len(n) # 3
    BY <1>6
  <2>2. Count(arg) = 256 * n[1] + n[2]
    BY <1>3, <1>6, <2>1, Zenon
  <2>5. n[1] \in Byte /\ n[2] \in Byte
    BY <1>2, <1>6
  <2>3. n[1] \in Nat /\ n[1] < 65536 /\ n[2] \in Byte
    BY <2>5, BytesAre
  <2> QED BY <2>2, <2>3, OneByteMore, SMT
<1>7. CASE Len(n) = 3
  <2>1. Len(n) # 0 /\ Len(n) # 1 /\ Len(n) # 2
    BY <1>7
  <2> DEFINE w == 256 * n[1] + n[2]
  <2>2. Count(arg) = 256 * w + n[3]
    BY <1>3, <1>7, <2>1, Zenon
  <2>5. n[1] \in Byte /\ n[2] \in Byte /\ n[3] \in Byte
    BY <1>2, <1>7
  <2>3. n[1] \in Nat /\ n[1] < 256 /\ n[2] \in Byte /\ n[3] \in Byte
    BY <2>5, BytesAre
  <2>4. w \in Nat /\ w < 65536
    BY <2>3, OneByteMore, SMT
  <2> HIDE DEF w
  <2> QED BY <2>2, <2>3, <2>4, OneByteMore, SMT
<1>8. CASE Len(n) \notin 0 .. 3
  <2>1. Len(n) # 0 /\ Len(n) # 1 /\ Len(n) # 2 /\ Len(n) # 3
    BY <1>8
  <2>2. Count(arg) = Huge
    BY <1>3, <2>1, Zenon
  <2> QED BY <2>2, HugeIs
<1> QED BY <1>1, <1>4, <1>5, <1>6, <1>7, <1>8
-----------------------------------------------------------------------------
(* The inductive invariant *)

\* the bytes that are ever fed
Fed == UNION {{p[i] : i \in 1 .. Len(p)} : p \in Pieces}

Ops == {"none", "read", "skip", "each", "decode"}
Ends == {"start", "complete", "break", "yield"}
Calls == [op : Ops, r : Ends, inEach : BOOLEAN]

IsFrame(f) ==
  /\ f = [type |-> f.type, count |-> f.count, object |-> f.object, key |-> f.key, tag |-> f.tag]
  /\ f.type \in FrameTypes /\ f.count \in Nat

FramesOK(s) == IsSeq(s) /\ \A i \in 1 .. Len(s) : IsFrame(s[i])

IsRaw(r) ==
  /\ r = [open |-> r.open, body |-> r.body, left |-> r.left, text |-> r.text]
  /\ r.open \in BOOLEAN /\ r.left \in Nat /\ (r.open <=> r.left > 0)

BytesInv == unread \in Seq(Fed) /\ taken \in Seq(Fed) /\ head \in Fed \cup {HEAD_BYTE_REQUIRED}
StackInv == FramesOK(stack) /\ Len(stack) <= StackCapacity
ControlInv == /\ IsRaw(raw) /\ pc \in Calls
              /\ within \in {"no", "read", "skip"} /\ lost \in BOOLEAN

\* a string that is being read has its head byte in head_byte
StringInv == /\ raw.left > 0 => MajorType(head) \in {ByteString, TextString}
             /\ pc.r \in {"complete", "break"} => raw.left = 0

TypeInv == BytesInv /\ StackInv /\ ControlInv /\ StringInv

\* what CountsOwed says of one frame
Owed(f) ==
  /\ f.type \in {"array", "tag", "map_key", "map_value"} => f.count \in 1 .. Huge
  /\ f.type = "map_key" /\ f.count < Huge => f.count % 2 = 0
  /\ f.type = "map_value" /\ f.count < Huge => f.count % 2 = 1

InStep == ~lost /\ pc.op # "skip" /\ within # "skip"

StackOwed(s) == \A i \in 1 .. Len(s) : Owed(s[i])
OwedInv == InStep => StackOwed(stack)

\* no break byte comes, or no call skips
BreaksEnd == 255 \notin Fed \/ "skip" \notin Methods

\* An item of which no byte is taken has left no trace; one that is complete
\* has taken bytes, and its head byte is gone.
ResidueInv ==
  ~lost =>
    /\ pc.r \in {"start", "yield"} /\ taken = <<>> =>
         head = HEAD_BYTE_REQUIRED /\ stack = <<>>
    /\ pc.r \in {"complete", "break"} => taken # <<>>
    /\ pc.r = "complete" => head = HEAD_BYTE_REQUIRED
    /\ pc.r = "break" => 255 \in Fed
    /\ pc.op = "skip" => "skip" \in Methods
-----------------------------------------------------------------------------
(* The bytes a step takes *)

\* What is fed is bytes, and nothing else is fed.
LEMMA FedIs == Fed \subseteq Byte /\ Pieces \subseteq Seq(Fed)
<1>1. ASSUME NEW p \in Pieces
      PROVE  p \in Seq(Fed) /\ \A i \in 1 .. Len(p) : p[i] \in Byte
  <2>1. p \in Seq(Byte)
    BY PiecesAssumption DEF Byte
  <2>2. Len(p) \in Nat /\ p = [i \in 1 .. Len(p) |-> p[i]]
    BY <2>1, LenProperties
  <2>3. \A i \in 1 .. Len(p) : p[i] \in Byte
    BY <2>1, ElementOfSeq
  <2>4. \A i \in 1 .. Len(p) : p[i] \in Fed
    BY DEF Fed
  <2>5. p \in [1 .. Len(p) -> Fed]
    BY <2>2, <2>4
  <2>6. p \in Seq(Fed)
    BY <2>2, <2>5, SeqDef
  <2> QED BY <2>3, <2>6
<1>2. ASSUME NEW x \in Fed PROVE x \in Byte
  <2>1. PICK p \in Pieces : x \in {p[i] : i \in 1 .. Len(p)}
    BY DEF Fed
  <2> QED BY <1>1, <2>1
<1> QED BY <1>1, <1>2

\* Bytes that leave the buffer are taken, and no others.
LEMMA TakesIs ==
  ASSUME BytesInv, NEW rest \in Seq(Fed), Len(rest) <= Len(unread), Takes(rest)
  PROVE  /\ unread' = rest /\ unread' \in Seq(Fed) /\ taken' \in Seq(Fed)
         /\ taken # <<>> => taken' # <<>>
         /\ Len(rest) < Len(unread) => taken' # <<>>
<1> DEFINE k == Len(unread) - Len(rest)
           g == SubSeq(unread, 1, k)
<1>1. unread \in Seq(Fed) /\ taken \in Seq(Fed)
  BY DEF BytesInv
<1>2. Len(rest) \in Nat /\ Len(unread) \in Nat /\ Len(taken) \in Nat
  BY <1>1, LenProperties
<1>3. k \in 0 .. Len(unread)
  BY <1>2
<1>4. unread' = rest /\ taken' = taken \o g
  BY DEF Takes, Leaves, Gone
<1> HIDE DEF k
<1>5. g \in Seq(Fed) /\ Len(g) = k
  BY <1>1, <1>3, CutOf
<1> HIDE DEF g
<1>6. taken' \in Seq(Fed) /\ Len(taken') = Len(taken) + k
  BY <1>1, <1>4, <1>5, ConcatProperties
<1>7. taken # <<>> => Len(taken) > 0
  BY <1>1, <1>2, EmptySeq
<1>8. taken' = <<>> => Len(taken') = 0
  BY EmptySeq
<1>9. Len(rest) < Len(unread) => k > 0
  BY <1>2 DEF k
<1>10. k \in Nat
  BY <1>3, <1>2
<1> QED BY <1>2, <1>4, <1>6, <1>7, <1>8, <1>9, <1>10

\* The head byte is one that was fed, and it is gone from the buffer or is in
\* head_byte already.
LEMMA HeadFacts ==
  ASSUME BytesInv, HasHead
  PROVE  /\ Ib \in Fed /\ Ib \in Byte /\ AfterHead \in Seq(Fed)
         /\ Len(AfterHead) \in Nat /\ Len(unread) \in Nat
         /\ head = HEAD_BYTE_REQUIRED => Len(AfterHead) = Len(unread) - 1
         /\ head # HEAD_BYTE_REQUIRED => Ib = head /\ AfterHead = unread
<1>1. unread \in Seq(Fed) /\ head \in Fed \cup {HEAD_BYTE_REQUIRED} /\ Fed \subseteq Byte
  BY FedIs DEF BytesInv
<1>2. Len(unread) \in Nat
  BY <1>1, LenProperties
<1>3. CASE head = HEAD_BYTE_REQUIRED
  <2>1. unread # <<>>
    BY <1>3 DEF HasHead
  <2>2. Head(unread) \in Fed /\ Tail(unread) \in Seq(Fed) /\ Len(Tail(unread)) = Len(unread) - 1
    BY <1>1, <2>1, HeadTailProperties
  <2>3. Ib = Head(unread) /\ AfterHead = Tail(unread)
    BY <1>3 DEF Ib, AfterHead
  <2>4. Len(AfterHead) \in Nat
    BY <2>2, <2>3, LenProperties
  <2> QED BY <1>1, <1>2, <1>3, <2>2, <2>3, <2>4
<1>4. CASE head # HEAD_BYTE_REQUIRED
  BY <1>1, <1>2, <1>4 DEF Ib, AfterHead
<1> QED BY <1>3, <1>4

\* Once the head byte is read, the item has taken a byte.
LEMMA HeadTaken ==
  ASSUME BytesInv, HasHead, taken = <<>> => head = HEAD_BYTE_REQUIRED,
         NEW rest \in Seq(Fed), Len(rest) <= Len(AfterHead), Takes(rest)
  PROVE  unread' \in Seq(Fed) /\ taken' \in Seq(Fed) /\ taken' # <<>>
<1>1. Len(rest) \in Nat
  BY LenProperties
<1>2. Len(rest) <= Len(unread)
      /\ (head = HEAD_BYTE_REQUIRED => Len(rest) < Len(unread))
  BY <1>1, HeadFacts
<1> QED BY <1>2, TakesIs

\* The argument, and what is behind it.
LEMMA ArgFacts ==
  ASSUME BytesInv, HasHead, HasArg
  PROVE  /\ Arg \in Seq(Byte) /\ (Len(Arg) = 8 => AI(Ib) = 27)
         /\ Val \in Nat /\ (Val < Counted \/ Val = Huge)
         /\ AfterArg \in Seq(Fed) /\ Len(AfterArg) \in Nat /\ Len(AfterArg) <= Len(AfterHead)
<1> DEFINE w == ArgWidth(Ib)
<1>1. Ib \in Byte /\ AfterHead \in Seq(Fed) /\ Len(AfterHead) \in Nat
  BY HeadFacts
<1>2. w \in 0 .. Len(AfterHead) /\ AI(Ib) \in 0 .. 31
  BY <1>1, ArgWidthIs DEF HasArg
<1>3. Arg = IF w = 0 THEN <<AI(Ib)>> ELSE SubSeq(AfterHead, 1, w)
  BY DEF Arg, Argument
<1>4. AfterArg = SubSeq(AfterHead, w + 1, Len(AfterHead))
  BY DEF AfterArg
<1>5. w = 8 => AI(Ib) = 27
  BY <1>1, ArgWidthIs
<1> HIDE DEF w
<1>6. AfterArg \in Seq(Fed) /\ Len(AfterArg) = Len(AfterHead) - w
      /\ SubSeq(AfterHead, 1, w) \in Seq(Fed) /\ Len(SubSeq(AfterHead, 1, w)) = w
  BY <1>1, <1>2, <1>4, CutOf
<1>7. Arg \in Seq(Byte) /\ (Len(Arg) = 8 => AI(Ib) = 27)
  <2>1. CASE w = 0
    <3>1. AI(Ib) \in Byte
      BY <1>2, SMT DEF Byte
    <3>2. <<AI(Ib)>> \in Seq(Byte) /\ Len(<<AI(Ib)>>) = 1
      BY <3>1
    <3> QED BY <1>3, <2>1, <3>2
  <2>2. CASE w # 0
    <3>1. Arg \in Seq(Fed) /\ Len(Arg) = w
      BY <1>3, <1>6, <2>2
    <3>2. Arg \in Seq(Byte)
      BY <3>1, FedIs, SeqMonotonic
    <3> QED BY <1>5, <3>1, <3>2
  <2> QED BY <2>1, <2>2
<1>8. Val \in Nat /\ (Val < Counted \/ Val = Huge)
  BY <1>7, CountIs DEF Val
<1> QED BY <1>1, <1>2, <1>6, <1>7, <1>8
-----------------------------------------------------------------------------
(* How a call goes on or ends *)

\* The call goes on where it is.
LEMMA ContinuesIs ==
  ASSUME ControlInv, NEW r \in Ends, Continues(r)
  PROVE  /\ pc' \in Calls /\ pc'.op = pc.op /\ pc'.r = r
         /\ within' = within /\ lost' = lost
BY DEF ControlInv, Continues, Calls, Ends

\* The call returns to its caller or to the block of each.
LEMMA ReturnsIs ==
  ASSUME Returns
  PROVE  pc' \in Calls /\ pc'.op # "skip" /\ pc'.r \in {"start", "yield"}
<1>1. CASE pc.inEach
  BY <1>1 DEF Returns, Calls, Ends, Ops
<1>2. CASE ~pc.inEach
  BY <1>2 DEF Returns, Calls, Ends, Ops, Idle
<1> QED BY <1>1, <1>2

\* what holds after a step with which a call ends
Ended ==
  /\ pc' \in Calls /\ pc'.op # "skip" /\ pc'.r \in {"start", "yield"}
  /\ within' \in {"no", "read", "skip"} /\ lost' \in BOOLEAN
  /\ ~lost' => ~lost

\* A call that runs out of bytes within a container remembers whether a skip
\* took part.
LEMMA RunsOutIs ==
  ASSUME ControlInv, RunsOut
  PROVE  Ended /\ (within' # "skip" /\ stack # <<>> => pc.op # "skip" /\ within # "skip")
<1>1. pc' \in Calls /\ pc'.op # "skip" /\ pc'.r \in {"start", "yield"}
  BY ReturnsIs DEF RunsOut
<1>2. /\ within' \in {"no", "read", "skip"}
      /\ within' # "skip" /\ stack # <<>> => pc.op # "skip" /\ within # "skip"
  BY DEF RunsOut
<1>3. lost' \in BOOLEAN /\ (~lost' => ~lost)
  BY DEF RunsOut
<1> QED BY <1>1, <1>2, <1>3 DEF Ended

\* An exception loses the unpacker its place.
LEMMA RaisesIs ==
  ASSUME ControlInv, NEW r, Raises(r)
  PROVE  Ended /\ lost'
<1>1. pc' \in Calls /\ pc'.op # "skip" /\ pc'.r \in {"start", "yield"}
  BY ReturnsIs DEF Raises
<1> QED BY <1>1 DEF Ended, Raises, ControlInv

\* An object is returned or yielded.
LEMMA DeliversIs ==
  ASSUME ControlInv, NEW v, Delivers(v)
  PROVE  Ended /\ taken' = <<>>
<1>1. pc' \in Calls /\ pc'.op # "skip" /\ pc'.r \in {"start", "yield"}
  <2>1. CASE pc.op = "each"
    <3>1. pc' = [pc EXCEPT !.r = "yield"] /\ pc \in Calls
      BY <2>1 DEF Delivers, ControlInv
    <3> QED BY <2>1, <3>1 DEF Calls, Ends, Ops
  <2>2. CASE pc.op # "each"
    BY <2>2, ReturnsIs DEF Delivers
  <2> QED BY <2>1, <2>2
<1>2. lost' \in BOOLEAN /\ (~lost' => ~lost) /\ within' = "no" /\ taken' = <<>>
  BY DEF Delivers
<1> QED BY <1>1, <1>2 DEF Ended
-----------------------------------------------------------------------------
(* Frames and the stack *)

\* A new frame.
LEMMA FrameIs ==
  ASSUME NEW type \in FrameTypes, NEW count \in Nat, NEW object, NEW tag
  PROVE  LET f == Frame(type, count, object, tag)
         IN IsFrame(f) /\ f.type = type /\ f.count = count
BY DEF IsFrame, Frame

\* A frame with another count.
LEMMA CountSet ==
  ASSUME NEW f, IsFrame(f), NEW count \in Nat
  PROVE  LET g == [f EXCEPT !.count = count]
         IN IsFrame(g) /\ g.type = f.type /\ g.count = count
BY DEF IsFrame

\* A frame with another object.
LEMMA ObjectSet ==
  ASSUME NEW f, IsFrame(f), NEW object
  PROVE  LET g == [f EXCEPT !.object = object]
         IN IsFrame(g) /\ g.type = f.type /\ g.count = f.count
BY DEF IsFrame

\* a frame with another type, key and object
Refilled(f, type, key, object) == [f EXCEPT !.type = type, !.key = key, !.object = object]

\* A frame with another type, key and object.
LEMMA PartsSet ==
  ASSUME NEW f, IsFrame(f), NEW type \in FrameTypes, NEW key, NEW object
  PROVE  LET g == Refilled(f, type, key, object)
         IN IsFrame(g) /\ g.type = type /\ g.count = f.count
<1> DEFINE f1 == [f EXCEPT !.type = type]
           f2 == [f1 EXCEPT !.key = key]
           f3 == [f2 EXCEPT !.object = object]
           g == Refilled(f, type, key, object)
<1>1. IsFrame(f1) /\ f1.type = type /\ f1.count = f.count
  BY DEF IsFrame
<1>2. g = f3
  BY DEF Refilled
<1> HIDE DEF f1
<1>3. IsFrame(f2) /\ f2.type = f1.type /\ f2.count = f1.count
  BY <1>1 DEF IsFrame
<1> HIDE DEF f2
<1>4. IsFrame(f3) /\ f3.type = f2.type /\ f3.count = f2.count
  BY <1>3, ObjectSet
<1> HIDE DEF f3
<1> QED BY <1>1, <1>2, <1>3, <1>4

\* The frame on top.
LEMMA TopIs ==
  ASSUME StackInv, stack # <<>>
  PROVE  /\ Len(stack) \in Nat /\ Len(stack) \in 1 .. Len(stack)
         /\ Top = stack[Len(stack)] /\ IsFrame(Top)
BY LengthOf DEF StackInv, FramesOK, Top

\* The top frame is replaced.
LEMMA WithTopIs ==
  ASSUME StackInv, stack # <<>>, NEW f, IsFrame(f)
  PROVE  /\ FramesOK(WithTop(f)) /\ Len(WithTop(f)) = Len(stack)
         /\ StackOwed(stack) /\ Owed(f) => StackOwed(WithTop(f))
<1>1. Len(stack) \in Nat /\ Len(stack) \in 1 .. Len(stack) /\ IsSeq(stack)
      /\ \A i \in 1 .. Len(stack) : IsFrame(stack[i])
  BY TopIs DEF StackInv, FramesOK
<1>2. /\ IsSeq(WithTop(f)) /\ Len(WithTop(f)) = Len(stack) /\ WithTop(f)[Len(stack)] = f
      /\ \A i \in 1 .. Len(stack) - 1 : WithTop(f)[i] = stack[i]
  BY <1>1, LastReplaced DEF WithTop
<1> DEFINE t == WithTop(f)
           n == Len(stack)
<1> HIDE DEF t, n
<1>3. \A i \in 1 .. n : i \in 1 .. n - 1 \/ i = n
  BY <1>1 DEF n
<1>4. \A i \in 1 .. Len(t) : IsFrame(t[i])
  BY <1>1, <1>2, <1>3 DEF t, n
<1>5. ASSUME StackOwed(stack), Owed(f) PROVE StackOwed(t)
  BY <1>1, <1>2, <1>3, <1>5 DEF t, n, StackOwed
<1> QED BY <1>2, <1>4, <1>5 DEF FramesOK, t

\* The top frame is popped.
LEMMA PoppedIs ==
  ASSUME StackInv, stack # <<>>
  PROVE  /\ FramesOK(Front(stack)) /\ Len(Front(stack)) <= StackCapacity
         /\ StackOwed(stack) => StackOwed(Front(stack))
<1>1. Len(stack) \in Nat /\ IsSeq(stack) /\ \A i \in 1 .. Len(stack) : IsFrame(stack[i])
  BY TopIs DEF StackInv, FramesOK
<1>2. /\ IsSeq(Front(stack)) /\ Len(Front(stack)) = Len(stack) - 1
      /\ \A i \in 1 .. Len(stack) - 1 : Front(stack)[i] = stack[i]
  BY <1>1, FrontOf
<1> DEFINE t == Front(stack)
           n == Len(stack)
<1> HIDE DEF t, n
<1>3. \A i \in 1 .. Len(t) : i \in 1 .. n /\ t[i] = stack[i]
  BY <1>1, <1>2 DEF t, n
<1>4. Len(t) <= StackCapacity
  BY <1>1, <1>2, StackAssumption DEF StackInv, t, n
<1>5. \A i \in 1 .. Len(t) : IsFrame(t[i])
  BY <1>1, <1>3 DEF n
<1>6. StackOwed(stack) => StackOwed(t)
  BY <1>3 DEF StackOwed, n
<1> QED BY <1>2, <1>4, <1>5, <1>6 DEF FramesOK, t

\* A frame is pushed.
LEMMA PushedIs ==
  ASSUME StackInv, NEW f, IsFrame(f), Len(stack) < StackCapacity
  PROVE  /\ FramesOK(Append(stack, f)) /\ Len(Append(stack, f)) <= StackCapacity
         /\ StackOwed(stack) /\ Owed(f) => StackOwed(Append(stack, f))
<1>1. Len(stack) \in Nat /\ IsSeq(stack) /\ \A i \in 1 .. Len(stack) : IsFrame(stack[i])
  BY LengthOf DEF StackInv, FramesOK
<1> DEFINE t == Append(stack, f)
           n == Len(stack)
<1>2. IsSeq(t) /\ Len(t) = n + 1 /\ t[n + 1] = f /\ \A i \in 1 .. n : t[i] = stack[i]
  BY <1>1, AppendOf
<1> HIDE DEF t
<1>3. \A i \in 1 .. Len(t) : i \in 1 .. n \/ i = n + 1
  BY <1>1, <1>2
<1>4. Len(t) <= StackCapacity
  BY <1>1, <1>2, StackAssumption
<1> HIDE DEF n
<1>5. \A i \in 1 .. Len(t) : IsFrame(t[i])
  BY <1>1, <1>2, <1>3 DEF n
<1>6. ASSUME StackOwed(stack), Owed(f) PROVE StackOwed(t)
  BY <1>2, <1>3, <1>6 DEF StackOwed, n
<1> QED BY <1>2, <1>4, <1>5, <1>6 DEF FramesOK, t

\* The empty stack.
LEMMA EmptyStackIs == FramesOK(<<>>) /\ Len(<<>>) <= StackCapacity /\ StackOwed(<<>>)
BY EmptyIsSeq, StackAssumption DEF FramesOK, StackOwed

\* What a count becomes.
LEMMA DecrementedIs ==
  ASSUME NEW count \in Nat
  PROVE  /\ Decremented(count) \in Nat
         /\ count # 0 /\ count < Huge => Decremented(count) = count - 1
         /\ count = Huge => Decremented(count) = Huge
<1>1. Huge \in Nat /\ Huge > 0
  BY HugeIs, SMT DEF Counted
<1>2. CASE count = 0
  BY <1>1, <1>2 DEF Decremented, Wrapped
<1>3. CASE count # 0
  BY <1>1, <1>3 DEF Decremented
<1> QED BY <1>2, <1>3

\* Filling a frame changes neither its count nor what sort of frame it is.
LEMMA FilledIs ==
  ASSUME StackInv, stack # <<>>
  PROVE  /\ IsFrame(Filled) /\ Filled.count = Top.count
         /\ Filled.type = TypeAfter(Top.type)
<1>1. IsFrame(Top)
  BY TopIs
<1>2. TypeAfter(Top.type) \in FrameTypes
  <2>1. Top.type \in FrameTypes
    BY <1>1 DEF IsFrame
  <2> QED BY <2>1 DEF TypeAfter, FrameTypes
<1> DEFINE key == IF Top.type \in {"map_key", "map_key_indef"} THEN last ELSE Top.key
           object == IF Top.type \in {"map_key", "map_key_indef"} THEN Top.object
                     ELSE Added(Top.object, Top.key, Top.type)
<1> DEFINE g == Refilled(Top, TypeAfter(Top.type), key, object)
<1>3. Filled = g
  BY Zenon DEF Filled, Refilled
<1> HIDE DEF key, object
<1>4. IsFrame(g) /\ g.type = TypeAfter(Top.type) /\ g.count = Top.count
  BY <1>1, <1>2, PartsSet
<1> HIDE DEF g
<1> QED BY <1>3, <1>4 DEF g
-----------------------------------------------------------------------------
(* The steps of read_primitive *)

Inv == TypeInv /\ (187 \notin Fed => OwedInv) /\ (BreaksEnd => ResidueInv)

\* No step that leaves the stack alone can make a count wrong: a step of a skip
\* that ran out of bytes within a container is remembered.
LEMMA OwedKept ==
  ASSUME OwedInv, stack' = stack, InStep' => InStep \/ stack = <<>>
  PROVE  OwedInv'
BY EmptyStackIs DEF OwedInv

\* The counts are owed after a step that goes on with the stack s.
LEMMA OwedAfter ==
  ASSUME ControlInv, OwedInv, NEW r \in Ends, Continues(r),
         StackOwed(stack) => StackOwed(stack')
  PROVE  OwedInv'
BY ContinuesIs DEF OwedInv, InStep

\* The call ends at a head byte that is not all there.
LEMMA HeadRunsOutKeeps == Inv /\ HeadRunsOut => Inv'
<1> SUFFICES ASSUME Inv, HeadRunsOut PROVE Inv'
  OBVIOUS
<1>1. Ended /\ (within' # "skip" /\ stack # <<>> => pc.op # "skip" /\ within # "skip")
  BY RunsOutIs DEF Inv, TypeInv, HeadRunsOut
<1>2. stack' = stack /\ raw' = raw /\ pc.r = "start" /\ raw.left = 0
  BY DEF HeadRunsOut, AtPrimitive
<1>3. BytesInv /\ StackInv /\ ControlInv
  BY DEF Inv, TypeInv
<1>4. CASE ~HasHead /\ UNCHANGED <<unread, head, taken>>
  <2>1. BytesInv'
    BY <1>3, <1>4 DEF BytesInv
  <2>2. ResidueInv => ResidueInv'
    BY <1>1, <1>2, <1>4 DEF Ended, ResidueInv
  <2>3. StackInv' /\ ControlInv' /\ StringInv'
    BY <1>1, <1>2, <1>3 DEF StackInv, ControlInv, StringInv, Ended
  <2>4. OwedInv => OwedInv'
    BY <1>1, <1>2, OwedKept DEF InStep, Ended
  <2> QED BY <2>1, <2>2, <2>3, <2>4 DEF Inv, TypeInv
<1>5. CASE HasHead /\ ~HasArg /\ Takes(AfterHead) /\ KeptHead
  <2>1. AfterHead \in Seq(Fed) /\ Len(AfterHead) <= Len(unread) /\ head' \in Fed
    BY <1>3, <1>5, HeadFacts DEF KeptHead
  <2>2. BytesInv'
    BY <1>3, <1>5, <2>1, TakesIs DEF BytesInv
  <2>3. ResidueInv => ResidueInv'
    <3> SUFFICES ASSUME ResidueInv, ~lost' PROVE ResidueInv'
      BY DEF ResidueInv
    <3>1. taken = <<>> => head = HEAD_BYTE_REQUIRED
      BY <1>1, <1>2 DEF Ended, ResidueInv
    <3>2. Len(AfterHead) <= Len(AfterHead)
      BY <1>3, <1>5, HeadFacts
    <3>3. taken' # <<>>
      BY <1>3, <1>5, <2>1, <3>1, <3>2, HeadTaken
    <3> QED BY <1>1, <1>2, <3>3 DEF Ended, ResidueInv
  <2>4. StackInv' /\ ControlInv' /\ StringInv'
    BY <1>1, <1>2, <1>3 DEF StackInv, ControlInv, StringInv, Ended
  <2>5. OwedInv => OwedInv'
    BY <1>1, <1>2, OwedKept DEF InStep, Ended
  <2> QED BY <2>2, <2>3, <2>4, <2>5 DEF Inv, TypeInv
<1> QED BY <1>4, <1>5 DEF HeadRunsOut

\* A head is taken with its argument and the k bytes behind it.
LEMMA ItemTaken ==
  ASSUME Inv, AtHead, NEW rest \in Seq(Fed), Len(rest) <= Len(AfterArg), Takes(rest)
  PROVE  /\ unread' \in Seq(Fed) /\ taken' \in Seq(Fed)
         /\ ResidueInv /\ ~lost => taken' # <<>>
<1>1. BytesInv /\ HasHead /\ HasArg /\ pc.r = "start" /\ raw.left = 0
  BY DEF Inv, TypeInv, AtHead, AtPrimitive
<1>2. Len(rest) <= Len(AfterHead) /\ Len(rest) <= Len(unread)
  <2>1. Len(AfterArg) \in Nat /\ Len(AfterArg) <= Len(AfterHead)
    BY <1>1, ArgFacts
  <2>2. Len(rest) \in Nat
    BY LenProperties
  <2>3. Len(AfterHead) \in Nat /\ Len(unread) \in Nat /\ Len(AfterHead) <= Len(unread)
    BY <1>1, HeadFacts
  <2> QED BY <2>1, <2>2, <2>3
<1>3. unread' \in Seq(Fed) /\ taken' \in Seq(Fed)
  BY <1>1, <1>2, TakesIs
<1>4. ASSUME ResidueInv, ~lost PROVE taken' # <<>>
  <2>1. taken = <<>> => head = HEAD_BYTE_REQUIRED
    BY <1>1, <1>4 DEF ResidueInv
  <2> QED BY <1>1, <1>2, <2>1, HeadTaken
<1> QED BY <1>3, <1>4

\* What a step that completes an object without the stack leaves behind.
LEMMA CompletedKeeps ==
  ASSUME Inv, unread' \in Seq(Fed), taken' \in Seq(Fed), ResidueInv /\ ~lost => taken' # <<>>,
         head' = HEAD_BYTE_REQUIRED, stack' = stack, IsRaw(raw'), raw'.left = 0,
         Continues("complete")
  PROVE  Inv'
<1>1. BytesInv /\ StackInv /\ ControlInv /\ "complete" \in Ends
  BY DEF Inv, TypeInv, Ends
<1>2. /\ pc' \in Calls /\ pc'.op = pc.op /\ pc'.r = "complete"
      /\ within' = within /\ lost' = lost
  BY <1>1, ContinuesIs
<1>3. BytesInv' /\ StackInv' /\ ControlInv' /\ StringInv'
  BY <1>1, <1>2 DEF BytesInv, StackInv, ControlInv, StringInv, IsRaw
<1>4. OwedInv => OwedInv'
  BY <1>1, OwedAfter
<1>5. ResidueInv => ResidueInv'
  BY <1>2 DEF ResidueInv
<1> QED BY <1>3, <1>4, <1>5 DEF Inv, TypeInv

\* Integers, simple values, floats, and strings and containers of length 0.
LEMMA ScalarKeeps == Inv /\ Scalar => Inv'
<1> SUFFICES ASSUME Inv, Scalar PROVE Inv'
  OBVIOUS
<1>1. AtHead /\ Takes(AfterArg) /\ Continues("complete") /\ stack' = stack /\ raw' = raw
  BY DEF Scalar
<1>2. head' = HEAD_BYTE_REQUIRED
  BY DEF Scalar, ObjectComplete
<1>3. BytesInv /\ HasHead /\ HasArg /\ raw.left = 0 /\ IsRaw(raw)
  BY <1>1 DEF Inv, TypeInv, AtHead, ControlInv
<1>4. AfterArg \in Seq(Fed) /\ Len(AfterArg) <= Len(AfterArg)
  BY <1>3, ArgFacts
<1>5. /\ unread' \in Seq(Fed) /\ taken' \in Seq(Fed)
      /\ ResidueInv /\ ~lost => taken' # <<>>
  BY <1>1, <1>4, ItemTaken
<1>6. IsRaw(raw') /\ raw'.left = 0
  BY <1>1, <1>3
<1> QED BY <1>1, <1>2, <1>5, <1>6, CompletedKeeps

\* A string that lies in one chunk.
LEMMA WholeStringKeeps == Inv /\ WholeString => Inv'
<1> SUFFICES ASSUME Inv, WholeString PROVE Inv'
  OBVIOUS
<1> DEFINE rest == SubSeq(AfterArg, Val + 1, Len(AfterArg))
<1>1. /\ AtHead /\ Takes(rest) /\ Continues("complete") /\ stack' = stack /\ raw' = raw
      /\ Val > 0 /\ Val <= Len(AfterArg)
  BY DEF WholeString
<1>2. head' = HEAD_BYTE_REQUIRED
  BY DEF WholeString, ObjectComplete
<1>3. BytesInv /\ HasHead /\ HasArg /\ raw.left = 0 /\ IsRaw(raw)
  BY <1>1 DEF Inv, TypeInv, AtHead, ControlInv
<1>4. rest \in Seq(Fed) /\ Len(rest) <= Len(AfterArg)
  <2>1. AfterArg \in Seq(Fed) /\ Len(AfterArg) \in Nat /\ Val \in Nat
    BY <1>3, ArgFacts
  <2>2. Val \in 0 .. Len(AfterArg)
    BY <1>1, <2>1
  <2>3. rest \in Seq(Fed) /\ Len(rest) = Len(AfterArg) - Val
    BY <2>1, <2>2, CutOf
  <2> HIDE DEF rest
  <2> QED BY <2>1, <2>3
<1> HIDE DEF rest
<1>5. /\ unread' \in Seq(Fed) /\ taken' \in Seq(Fed)
      /\ ResidueInv /\ ~lost => taken' # <<>>
  BY <1>1, <1>4, ItemTaken
<1>6. IsRaw(raw') /\ raw'.left = 0
  BY <1>1, <1>3
<1> QED BY <1>1, <1>2, <1>5, <1>6, CompletedKeeps

\* The body of a string takes a part of the bytes it is offered.
LEMMA BodyTakes ==
  ASSUME NEW text, NEW body, NEW left \in Nat, NEW rest \in Seq(Fed),
         Body(text, body, left, rest)
  PROVE  \E r \in Seq(Fed) : Len(r) <= Len(rest) /\ Takes(r)
<1> DEFINE n == IF left <= Len(rest) THEN left ELSE Len(rest)
           r == SubSeq(rest, n + 1, Len(rest))
<1>1. Takes(r)
  BY DEF Body
<1>2. Len(rest) \in Nat
  BY LenProperties
<1>3. n \in 0 .. Len(rest)
  BY <1>2
<1> HIDE DEF n
<1>4. r \in Seq(Fed) /\ Len(r) = Len(rest) - n
  BY <1>3, CutOf
<1> HIDE DEF r
<1>5. Len(r) <= Len(rest)
  BY <1>2, <1>3, <1>4
<1> QED BY <1>1, <1>4, <1>5

\* The body is complete, or its string stays open for as many bytes as are
\* missing.
LEMMA BodyKeeps ==
  ASSUME Inv, pc.r = "start",
         NEW text, NEW body, NEW left \in Nat \ {0}, NEW rest \in Seq(Fed),
         Body(text, body, left, rest),
         Ib \in Fed, MajorType(Ib) \in {ByteString, TextString},
         unread' \in Seq(Fed), taken' \in Seq(Fed), ResidueInv /\ ~lost => taken' # <<>>
  PROVE  Inv'
<1> DEFINE n == IF left <= Len(rest) THEN left ELSE Len(rest)
           bytes == body \o SubSeq(rest, 1, n)
<1>1. stack' = stack
  BY DEF Body
<1>2. n \in Nat /\ n <= left
  BY LenProperties
<1>3. CASE ObjectComplete(Str(text, bytes)) /\ raw' = NoRaw /\ Continues("complete")
  <2>1. head' = HEAD_BYTE_REQUIRED
    BY <1>3 DEF ObjectComplete
  <2>2. IsRaw(raw') /\ raw'.left = 0
    BY <1>3 DEF IsRaw, NoRaw
  <2> QED BY <1>1, <1>3, <2>1, <2>2, CompletedKeeps
<1>4. CASE /\ n < left /\ KeptHead /\ RunsOut
           /\ raw' = [open |-> TRUE, body |-> bytes, left |-> LeftAfter(left, n), text |-> text]
  <2>1. Ended /\ (within' # "skip" /\ stack # <<>> => pc.op # "skip" /\ within # "skip")
    BY <1>4, RunsOutIs DEF Inv, TypeInv
  <2>2. LeftAfter(left, n) \in Nat /\ LeftAfter(left, n) > 0
    BY <1>2, <1>4 DEF LeftAfter
  <2>3. IsRaw(raw') /\ head' = Ib
    <3> HIDE DEF n, bytes
    <3> QED BY <1>4, <2>2 DEF IsRaw, KeptHead
  <2>4. BytesInv' /\ StackInv' /\ ControlInv' /\ StringInv'
    BY <1>1, <2>1, <2>3 DEF Inv, TypeInv, BytesInv, StackInv, ControlInv, StringInv, Ended
  <2>5. OwedInv => OwedInv'
    BY <1>1, <2>1, OwedKept DEF InStep, Ended
  <2>6. ResidueInv => ResidueInv'
    BY <2>1 DEF ResidueInv, Ended
  <2> QED BY <2>4, <2>5, <2>6 DEF Inv, TypeInv
<1>5. \/ ObjectComplete(Str(text, bytes)) /\ raw' = NoRaw /\ Continues("complete")
      \/ /\ n < left /\ KeptHead /\ RunsOut
         /\ raw' = [open |-> TRUE, body |-> bytes, left |-> LeftAfter(left, n), text |-> text]
  BY Zenon DEF Body
<1> QED BY <1>3, <1>4, <1>5

\* A string in more than one chunk.
LEMMA SplitStringKeeps == Inv /\ SplitString => Inv'
<1> SUFFICES ASSUME Inv, SplitString PROVE Inv'
  OBVIOUS
<1>1. /\ AtHead /\ Val > 0 /\ Body(MajorType(Ib) = TextString, <<>>, Val, AfterArg)
      /\ MajorType(Ib) \in {ByteString, TextString}
  BY DEF SplitString, Is
<1>2. BytesInv /\ HasHead /\ HasArg /\ pc.r = "start"
  BY <1>1 DEF Inv, TypeInv, AtHead, AtPrimitive
<1>3. AfterArg \in Seq(Fed) /\ Val \in Nat \ {0} /\ Ib \in Fed
  BY <1>1, <1>2, ArgFacts, HeadFacts
<1>4. \E r \in Seq(Fed) : Len(r) <= Len(AfterArg) /\ Takes(r)
  BY <1>1, <1>3, BodyTakes
<1>5. /\ unread' \in Seq(Fed) /\ taken' \in Seq(Fed)
      /\ ResidueInv /\ ~lost => taken' # <<>>
  BY <1>1, <1>4, ItemTaken
<1> QED BY <1>1, <1>2, <1>3, <1>5, BodyKeeps

\* A string goes on where its bytes had run out.
LEMMA RestOfStringKeeps == Inv /\ RestOfString => Inv'
<1> SUFFICES ASSUME Inv, RestOfString PROVE Inv'
  OBVIOUS
<1>1. raw.left > 0 /\ pc.r = "start" /\ Body(raw.text, raw.body, raw.left, unread)
  BY DEF RestOfString, AtPrimitive
<1>2. /\ unread \in Seq(Fed) /\ raw.left \in Nat \ {0} /\ BytesInv
      /\ MajorType(head) \in {ByteString, TextString} /\ head \in Fed \cup {HEAD_BYTE_REQUIRED}
  BY <1>1 DEF Inv, TypeInv, BytesInv, ControlInv, StringInv, IsRaw
<1>3. head # HEAD_BYTE_REQUIRED
  BY <1>2 DEF HEAD_BYTE_REQUIRED, IB_UNUSED, MajorType, ByteString, TextString
<1>4. Ib = head /\ Ib \in Fed /\ MajorType(Ib) \in {ByteString, TextString}
  BY <1>2, <1>3 DEF Ib
<1>5. PICK r \in Seq(Fed) : Len(r) <= Len(unread) /\ Takes(r)
  BY <1>1, <1>2, BodyTakes
<1>6. unread' \in Seq(Fed) /\ taken' \in Seq(Fed) /\ (taken # <<>> => taken' # <<>>)
  BY <1>2, <1>5, TakesIs
<1>7. ResidueInv /\ ~lost => taken # <<>>
  BY <1>1, <1>3 DEF ResidueInv
<1> QED BY <1>1, <1>2, <1>4, <1>6, <1>7, BodyKeeps

\* The keys and values a map waits for.
LEMMA KeysAndValuesIs ==
  ASSUME NEW arg \in Seq(Byte)
  PROVE  /\ KeysAndValues(arg) \in Nat
         /\ Len(arg) # 8 /\ Count(arg) > 0 =>
              /\ KeysAndValues(arg) \in 1 .. Huge
              /\ KeysAndValues(arg) < Huge => KeysAndValues(arg) % 2 = 0
<1> DEFINE low == IF Len(arg) = 8 THEN <<arg[1] % 128>> \o Tail(arg) ELSE arg
           n == Count(low)
<1>1. KeysAndValues(arg) = IF n = Huge THEN Huge ELSE n * 2
  BY Zenon DEF KeysAndValues
<1>2. low \in Seq(Byte)
  <2>1. CASE Len(arg) = 8
    <3>1. arg # <<>>
      BY <2>1, EmptySeq
    <3>2. Tail(arg) \in Seq(Byte) /\ arg[1] \in Byte
      BY <2>1, <3>1, HeadTailProperties, ElementOfSeq
    <3>3. arg[1] % 128 \in Byte
      <4>1. \A x \in Byte : x % 128 \in Byte
        BY SMT DEF Byte
      <4> QED BY <3>2, <4>1
    <3>4. <<arg[1] % 128>> \in Seq(Byte)
      BY <3>3
    <3> QED BY <2>1, <3>2, <3>4, ConcatProperties
  <2>2. CASE Len(arg) # 8
    BY <2>2
  <2> QED BY <2>1, <2>2
<1>3. Len(arg) # 8 => low = arg
  OBVIOUS
<1> HIDE DEF low
<1>4. n \in Nat /\ (n < Counted \/ n = Huge)
  BY <1>2, CountIs
<1>5. Len(arg) # 8 => n = Count(arg)
  BY <1>3
<1> HIDE DEF n
<1>6. Huge \in Nat /\ 2 * Counted < Huge /\ Counted > 0 /\ Counted \in Nat
  BY HugeIs, SMT DEF Counted
<1>7. CASE n = Huge
  BY <1>1, <1>6, <1>7
<1>8. CASE n # Huge
  <2>1. KeysAndValues(arg) = n * 2
    BY <1>1, <1>8
  <2>2. n * 2 \in Nat /\ (n * 2) % 2 = 0
    BY <1>4
  <2>3. n > 0 => n * 2 \in 1 .. Huge
    BY <1>4, <1>6, <1>8
  <2> QED BY <1>5, <2>1, <2>2, <2>3
<1> QED BY <1>7, <1>8

\* Eight bytes of argument follow only one initial byte of a map.
LEMMA LongMapIs ==
  ASSUME NEW ib \in Byte, MajorType(ib) = MapType, AI(ib) = 27
  PROVE  ib = 187
BY ArgWidthIs, SMT DEF MapType

\* A container is opened with a count of what it waits for.
LEMMA OpenedFrameIs ==
  ASSUME BytesInv, HasHead, HasArg, Opening
  PROVE  IsFrame(OpenedFrame) /\ (187 \notin Fed => Owed(OpenedFrame))
<1>1. /\ Ib \in Fed /\ Ib \in Byte /\ Arg \in Seq(Byte)
      /\ Val \in Nat /\ (Val < Counted \/ Val = Huge) /\ Val = Count(Arg)
  BY HeadFacts, ArgFacts DEF Val
<1>2. Huge \in Nat /\ 2 * Counted < Huge /\ Counted > 0 /\ Counted \in Nat /\ 1 \in 1 .. Huge
  BY HugeIs, SMT DEF Counted
<1>3. CASE Is(ArrayType, Definite) /\ Val > 0
  <2>1. /\ ~Is(MapType, Definite) /\ ~Is(TagType, Definite) /\ ~Is(ArrayType, {AI_INDEF})
        /\ ~Is(MapType, {AI_INDEF}) /\ ~Is(ByteString, {AI_INDEF}) /\ ~Is(TextString, {AI_INDEF})
    BY <1>3 DEF Is, ByteString, TextString, ArrayType, MapType, TagType, AI_INDEF, Definite
  <2>2. OpenedFrame = Frame("array", Val, <<"array", <<>>>>, 0)
    BY <1>3, <2>1, Zenon DEF OpenedFrame
  <2>3. IsFrame(OpenedFrame) /\ OpenedFrame.type = "array" /\ OpenedFrame.count = Val
    BY <1>1, <2>2, FrameIs DEF FrameTypes
  <2>4. Val \in 1 .. Huge
    BY <1>1, <1>2, <1>3
  <2> QED BY <2>3, <2>4 DEF Owed
<1>4. CASE Is(MapType, Definite) /\ Val > 0
  <2>1. /\ ~Is(ArrayType, Definite) /\ ~Is(TagType, Definite) /\ ~Is(ArrayType, {AI_INDEF})
        /\ ~Is(MapType, {AI_INDEF}) /\ ~Is(ByteString, {AI_INDEF}) /\ ~Is(TextString, {AI_INDEF})
    BY <1>4 DEF Is, ByteString, TextString, ArrayType, MapType, TagType, AI_INDEF, Definite
  <2>2. OpenedFrame = Frame("map_key", KeysAndValues(Arg), <<"hash", <<>>>>, 0)
    BY <1>4, <2>1, Zenon DEF OpenedFrame
  <2> DEFINE c == KeysAndValues(Arg)
  <2>3. c \in Nat /\ (Len(Arg) # 8 => c \in 1 .. Huge /\ (c < Huge => c % 2 = 0))
    BY <1>1, <1>4, KeysAndValuesIs
  <2>4. 187 \notin Fed => Len(Arg) # 8
    <3>1. MajorType(Ib) = MapType
      BY <1>4 DEF Is
    <3> QED BY <1>1, <3>1, LongMapIs, ArgFacts
  <2> HIDE DEF c
  <2>5. IsFrame(OpenedFrame) /\ OpenedFrame.type = "map_key" /\ OpenedFrame.count = c
    BY <2>2, <2>3, FrameIs DEF FrameTypes, c
  <2> QED BY <2>3, <2>4, <2>5 DEF Owed
<1>5. CASE Is(TagType, Definite)
  <2>1. /\ ~Is(ArrayType, Definite) /\ ~Is(MapType, Definite) /\ ~Is(ArrayType, {AI_INDEF})
        /\ ~Is(MapType, {AI_INDEF}) /\ ~Is(ByteString, {AI_INDEF}) /\ ~Is(TextString, {AI_INDEF})
    BY <1>5 DEF Is, ByteString, TextString, ArrayType, MapType, TagType, AI_INDEF, Definite
  <2>2. OpenedFrame = Frame("tag", 1, Nil, Val)
    BY <1>5, <2>1, Zenon DEF OpenedFrame
  <2>3. IsFrame(OpenedFrame) /\ OpenedFrame.type = "tag" /\ OpenedFrame.count = 1
    BY <2>2, FrameIs DEF FrameTypes
  <2> QED BY <1>2, <2>3 DEF Owed
<1>6. CASE Is(ArrayType, {AI_INDEF})
  <2>1. /\ ~Is(ArrayType, Definite) /\ ~Is(MapType, Definite) /\ ~Is(TagType, Definite)
        /\ ~Is(MapType, {AI_INDEF}) /\ ~Is(ByteString, {AI_INDEF}) /\ ~Is(TextString, {AI_INDEF})
    BY <1>6 DEF Is, ByteString, TextString, ArrayType, MapType, TagType, AI_INDEF, Definite
  <2>2. OpenedFrame = Frame("array_indef", 0, <<"array", <<>>>>, 0)
    BY <1>6, <2>1, Zenon DEF OpenedFrame
  <2>3. IsFrame(OpenedFrame) /\ OpenedFrame.type = "array_indef" /\ OpenedFrame.count = 0
    BY <2>2, FrameIs DEF FrameTypes
  <2> QED BY <1>2, <2>3 DEF Owed
<1>7. CASE Is(MapType, {AI_INDEF})
  <2>1. /\ ~Is(ArrayType, Definite) /\ ~Is(MapType, Definite) /\ ~Is(TagType, Definite)
        /\ ~Is(ArrayType, {AI_INDEF}) /\ ~Is(ByteString, {AI_INDEF}) /\ ~Is(TextString, {AI_INDEF})
    BY <1>7 DEF Is, ByteString, TextString, ArrayType, MapType, TagType, AI_INDEF, Definite
  <2>2. OpenedFrame = Frame("map_key_indef", 0, <<"hash", <<>>>>, 0)
    BY <1>7, <2>1, Zenon DEF OpenedFrame
  <2>3. IsFrame(OpenedFrame) /\ OpenedFrame.type = "map_key_indef" /\ OpenedFrame.count = 0
    BY <2>2, FrameIs DEF FrameTypes
  <2> QED BY <1>2, <2>3 DEF Owed
<1>8. CASE Is(ByteString, {AI_INDEF})
  <2>1. /\ ~Is(ArrayType, Definite) /\ ~Is(MapType, Definite) /\ ~Is(TagType, Definite)
        /\ ~Is(ArrayType, {AI_INDEF}) /\ ~Is(MapType, {AI_INDEF}) /\ ~Is(TextString, {AI_INDEF})
    BY <1>8 DEF Is, ByteString, TextString, ArrayType, MapType, TagType, AI_INDEF, Definite
  <2>2. OpenedFrame = Frame("string_indef", 0, Str(FALSE, <<>>), 0)
    BY <1>8, <2>1, Zenon DEF OpenedFrame
  <2>3. IsFrame(OpenedFrame) /\ OpenedFrame.type = "string_indef" /\ OpenedFrame.count = 0
    <3>1. \E v : OpenedFrame = Frame("string_indef", 0, v, 0)
      BY <2>2, Zenon
    <3> QED BY <3>1, FrameIs DEF FrameTypes
  <2> QED BY <1>2, <2>3 DEF Owed
<1>9. CASE Is(TextString, {AI_INDEF})
  <2>1. /\ ~Is(ArrayType, Definite) /\ ~Is(MapType, Definite) /\ ~Is(TagType, Definite)
        /\ ~Is(ArrayType, {AI_INDEF}) /\ ~Is(MapType, {AI_INDEF}) /\ ~Is(ByteString, {AI_INDEF})
    BY <1>9 DEF Is, ByteString, TextString, ArrayType, MapType, TagType, AI_INDEF, Definite
  <2>2. OpenedFrame = Frame("string_indef", 32, Str(TRUE, <<>>), 0)
    BY <1>9, <2>1, Zenon DEF OpenedFrame
  <2>3. IsFrame(OpenedFrame) /\ OpenedFrame.type = "string_indef" /\ OpenedFrame.count = 32
    <3>1. \E v : OpenedFrame = Frame("string_indef", 32, v, 0)
      BY <2>2, Zenon
    <3> QED BY <3>1, FrameIs DEF FrameTypes
  <2> QED BY <1>2, <2>3 DEF Owed
<1>10. \/ (Is(ArrayType, Definite) /\ Val > 0)
       \/ (Is(MapType, Definite) /\ Val > 0)
       \/ Is(TagType, Definite) \/ Is(ArrayType, {AI_INDEF}) \/ Is(MapType, {AI_INDEF})
       \/ Is(ByteString, {AI_INDEF}) \/ Is(TextString, {AI_INDEF})
  BY DEF Opening
<1> QED BY <1>3, <1>4, <1>5, <1>6, <1>7, <1>8, <1>9, <1>10

\* A container, a tag or an indefinite string is opened.
LEMMA OpenKeeps == Inv /\ Open => Inv'
<1> SUFFICES ASSUME Inv, Open PROVE Inv'
  OBVIOUS
<1>1. AtHead /\ Opening /\ Takes(AfterArg) /\ head' = HEAD_BYTE_REQUIRED /\ raw' = raw
  BY DEF Open
<1>2. /\ BytesInv /\ StackInv /\ ControlInv /\ HasHead /\ HasArg /\ raw.left = 0
      /\ pc.r = "start"
  BY <1>1 DEF Inv, TypeInv, AtHead, AtPrimitive
<1>3. AfterArg \in Seq(Fed) /\ Len(AfterArg) <= Len(AfterArg)
  BY <1>2, ArgFacts
<1>4. /\ unread' \in Seq(Fed) /\ taken' \in Seq(Fed)
      /\ ResidueInv /\ ~lost => taken' # <<>>
  BY <1>1, <1>3, ItemTaken
<1>5. BytesInv'
  BY <1>1, <1>4 DEF BytesInv
<1>6. CASE ~TooDeep /\ stack' = Append(stack, OpenedFrame) /\ Continues("start")
  <2>1. /\ pc' \in Calls /\ pc'.op = pc.op /\ pc'.r = "start"
        /\ within' = within /\ lost' = lost
    BY <1>2, <1>6, ContinuesIs DEF Ends
  <2>2. IsFrame(OpenedFrame) /\ (187 \notin Fed => Owed(OpenedFrame))
    BY <1>1, <1>2, OpenedFrameIs
  <2>3. Len(stack) < StackCapacity
    BY <1>2, <1>6, StackAssumption, LengthOf DEF TooDeep, StackInv, FramesOK
  <2>4. /\ FramesOK(stack') /\ Len(stack') <= StackCapacity
        /\ 187 \notin Fed /\ StackOwed(stack) => StackOwed(stack')
    BY <1>2, <1>6, <2>2, <2>3, PushedIs
  <2>5. StackInv' /\ ControlInv' /\ StringInv'
    BY <1>1, <1>2, <2>1, <2>4 DEF StackInv, ControlInv, StringInv, IsRaw
  <2>6. 187 \notin Fed /\ OwedInv => OwedInv'
    BY <1>2, <1>6, <2>4, OwedAfter DEF Ends
  <2>7. ResidueInv => ResidueInv'
    BY <1>4, <2>1 DEF ResidueInv
  <2> QED BY <1>5, <2>5, <2>6, <2>7 DEF Inv, TypeInv
<1>7. CASE TooDeep /\ Raises("deep") /\ UNCHANGED stack
  <2>1. Ended /\ lost' /\ stack' = stack
    BY <1>2, <1>7, RaisesIs
  <2>2. StackInv' /\ ControlInv' /\ StringInv'
    BY <1>1, <1>2, <2>1 DEF StackInv, ControlInv, StringInv, IsRaw, Ended
  <2> QED BY <1>5, <2>1, <2>2 DEF Inv, TypeInv, OwedInv, InStep, ResidueInv
<1> QED BY <1>6, <1>7 DEF Open

\* A break byte, which stays in head_byte.
LEMMA BreakKeeps == Inv /\ Break => Inv'
<1> SUFFICES ASSUME Inv, Break PROVE Inv'
  OBVIOUS
<1>1. /\ AtHead /\ Is(Prim, {AI_INDEF}) /\ Takes(AfterArg) /\ head' = Ib
      /\ Continues("break") /\ stack' = stack /\ raw' = raw
  BY DEF Break
<1>2. BytesInv /\ StackInv /\ ControlInv /\ HasHead /\ HasArg /\ raw.left = 0
  BY <1>1 DEF Inv, TypeInv, AtHead
<1>3. AfterArg \in Seq(Fed) /\ Len(AfterArg) <= Len(AfterArg) /\ Ib \in Fed /\ Ib \in Byte
  BY <1>2, ArgFacts, HeadFacts
<1>4. /\ unread' \in Seq(Fed) /\ taken' \in Seq(Fed)
      /\ ResidueInv /\ ~lost => taken' # <<>>
  BY <1>1, <1>3, ItemTaken
<1>5. 255 \in Fed
  <2>1. MajorType(Ib) = 7 /\ AI(Ib) = 31 /\ Ib = 32 * MajorType(Ib) + AI(Ib)
    BY <1>1, <1>3, ArgWidthIs DEF Is, Prim, AI_INDEF
  <2>2. Ib = 255
    BY <2>1, SMT
  <2> QED BY <1>3, <2>2
<1>6. /\ pc' \in Calls /\ pc'.op = pc.op /\ pc'.r = "break"
      /\ within' = within /\ lost' = lost
  BY <1>1, <1>2, ContinuesIs DEF Ends
<1>7. BytesInv' /\ StackInv' /\ ControlInv' /\ StringInv'
  BY <1>1, <1>2, <1>3, <1>4, <1>6 DEF BytesInv, StackInv, ControlInv, StringInv, IsRaw
<1>8. OwedInv => OwedInv'
  BY <1>1, <1>2, OwedAfter DEF Ends
<1>9. ResidueInv => ResidueInv'
  BY <1>4, <1>5, <1>6 DEF ResidueInv
<1> QED BY <1>7, <1>8, <1>9 DEF Inv, TypeInv

\* A byte that begins no item.
LEMMA InvalidKeeps == Inv /\ Invalid => Inv'
<1> SUFFICES ASSUME Inv, Invalid PROVE Inv'
  OBVIOUS
<1>1. /\ AtHead /\ Takes(AfterArg) /\ head' = Ib
      /\ Raises("malformed") /\ stack' = stack /\ raw' = raw
  BY DEF Invalid
<1>2. BytesInv /\ StackInv /\ ControlInv /\ HasHead /\ HasArg /\ raw.left = 0
  BY <1>1 DEF Inv, TypeInv, AtHead
<1>3. AfterArg \in Seq(Fed) /\ Len(AfterArg) <= Len(AfterArg) /\ Ib \in Fed
  BY <1>2, ArgFacts, HeadFacts
<1>4. unread' \in Seq(Fed) /\ taken' \in Seq(Fed)
  BY <1>1, <1>3, ItemTaken
<1>5. Ended /\ lost'
  BY <1>1, <1>2, RaisesIs
<1>6. BytesInv' /\ StackInv' /\ ControlInv' /\ StringInv'
  BY <1>1, <1>2, <1>3, <1>4, <1>5 DEF BytesInv, StackInv, ControlInv, StringInv, IsRaw, Ended
<1> QED BY <1>5, <1>6 DEF Inv, TypeInv, OwedInv, InStep, ResidueInv
-----------------------------------------------------------------------------
(* What an object does to the container it completes or goes into *)

\* The container waits for its next object.
LEMMA GoesOnKeeps ==
  ASSUME Inv, Completed, stack # <<>>, NEW f, IsFrame(f), stack' = WithTop(f),
         Continues("start"), UNCHANGED <<unread, head, raw, taken>>,
         InStep /\ StackOwed(stack) => Owed(f)
  PROVE  Inv'
<1>1. BytesInv /\ StackInv /\ ControlInv /\ StringInv /\ pc.r \in {"complete", "break"}
  BY DEF Inv, TypeInv, Completed
<1>2. /\ pc' \in Calls /\ pc'.op = pc.op /\ pc'.r = "start"
      /\ within' = within /\ lost' = lost
  BY <1>1, ContinuesIs DEF Ends
<1>3. /\ FramesOK(stack') /\ Len(stack') <= StackCapacity
      /\ StackOwed(stack) /\ Owed(f) => StackOwed(stack')
  BY <1>1, WithTopIs DEF StackInv
<1>4. BytesInv' /\ StackInv' /\ ControlInv' /\ StringInv'
  BY <1>1, <1>2, <1>3 DEF BytesInv, StackInv, ControlInv, StringInv
<1>5. OwedInv => OwedInv'
  BY <1>2, <1>3 DEF OwedInv, InStep
<1>6. ResidueInv => ResidueInv'
  BY <1>1, <1>2 DEF ResidueInv
<1> QED BY <1>4, <1>5, <1>6 DEF Inv, TypeInv

\* The container is complete.
LEMMA PopsKeeps ==
  ASSUME Inv, Completed, stack # <<>>, NEW v, Pops(v), UNCHANGED <<unread, raw, taken>>
  PROVE  Inv'
<1>1. BytesInv /\ StackInv /\ ControlInv /\ StringInv /\ pc.r \in {"complete", "break"}
  BY DEF Inv, TypeInv, Completed
<1>2. head' = HEAD_BYTE_REQUIRED /\ stack' = Front(stack) /\ Continues("complete")
  BY DEF Pops, ObjectComplete
<1>3. /\ pc' \in Calls /\ pc'.op = pc.op /\ pc'.r = "complete"
      /\ within' = within /\ lost' = lost
  BY <1>1, <1>2, ContinuesIs DEF Ends
<1>4. /\ FramesOK(stack') /\ Len(stack') <= StackCapacity
      /\ StackOwed(stack) => StackOwed(stack')
  BY <1>1, <1>2, PoppedIs
<1>5. BytesInv' /\ StackInv' /\ ControlInv' /\ StringInv'
  BY <1>1, <1>2, <1>3, <1>4 DEF BytesInv, StackInv, ControlInv, StringInv, IsRaw
<1>6. OwedInv => OwedInv'
  BY <1>3, <1>4 DEF OwedInv, InStep
<1>7. ResidueInv => ResidueInv'
  BY <1>1, <1>2, <1>3 DEF ResidueInv
<1> QED BY <1>5, <1>6, <1>7 DEF Inv, TypeInv

\* An exception leaves the stack as it is.
LEMMA RaisesKeeps ==
  ASSUME Inv, NEW r, Raises(r), UNCHANGED <<unread, head, stack, raw, taken>>
  PROVE  Inv'
<1>1. BytesInv /\ StackInv /\ ControlInv /\ StringInv
  BY DEF Inv, TypeInv
<1>2. Ended /\ lost'
  BY <1>1, RaisesIs
<1>3. BytesInv' /\ StackInv' /\ ControlInv' /\ StringInv'
  BY <1>1, <1>2 DEF BytesInv, StackInv, ControlInv, StringInv, Ended
<1> QED BY <1>2, <1>3 DEF Inv, TypeInv, OwedInv, InStep, ResidueInv

\* The frame on top waits for what it is owed.
LEMMA TopOwed == StackInv /\ stack # <<>> /\ StackOwed(stack) => Owed(Top)
BY TopIs DEF StackOwed

\* The next turn of the loop, with the stack empty, ends the call.
LEMMA FinishKeeps == Inv /\ Finish => Inv'
<1> SUFFICES ASSUME Inv, Finish PROVE Inv'
  OBVIOUS
<1>1. /\ BytesInv /\ StackInv /\ ControlInv /\ StringInv
      /\ stack = <<>> /\ pc.op # "none" /\ pc.r \in {"complete", "break"}
      /\ UNCHANGED <<unread, head, stack, raw>>
  BY DEF Inv, TypeInv, Finish, Completed
<1>2. CASE pc.r = "break" /\ InRead /\ Raises("malformed") /\ UNCHANGED taken
  BY <1>1, <1>2, RaisesKeeps
<1>3. CASE (pc.r = "complete" \/ InSkip) /\ Delivers(last)
  <2>1. Ended /\ taken' = <<>>
    BY <1>1, <1>3, DeliversIs
  <2>2. BytesInv' /\ StackInv' /\ ControlInv' /\ StringInv'
    BY <1>1, <2>1, EmptySeq DEF BytesInv, StackInv, ControlInv, StringInv, Ended
  <2>3. OwedInv => OwedInv'
    BY <1>1, OwedKept
  <2>4. BreaksEnd /\ ResidueInv => ResidueInv'
    <3> SUFFICES ASSUME BreaksEnd, ResidueInv, ~lost PROVE ResidueInv'
      BY <2>1 DEF ResidueInv, Ended
    <3>1. pc.r = "complete"
      BY <1>1, <1>3 DEF ResidueInv, BreaksEnd, InSkip
    <3>2. head = HEAD_BYTE_REQUIRED
      BY <3>1 DEF ResidueInv
    <3> QED BY <1>1, <2>1, <3>2 DEF ResidueInv, Ended
  <2> QED BY <2>2, <2>3, <2>4 DEF Inv, TypeInv
<1> QED BY <1>2, <1>3 DEF Finish

\* An object goes into a container that counts, and may complete it.
LEMMA CountedElementKeeps == Inv /\ CountedElement => Inv'
<1> SUFFICES ASSUME Inv, CountedElement PROVE Inv'
  OBVIOUS
<1> DEFINE count == Decremented(Top.count)
           frame == [Filled EXCEPT !.count = count]
<1>1. /\ Completed /\ stack # <<>> /\ Top.type \in {"array", "map_key", "map_value"}
      /\ UNCHANGED <<unread, raw, taken>>
  BY DEF CountedElement
<1>2. StackInv /\ IsFrame(Top) /\ Top.count \in Nat
  BY <1>1, TopIs DEF Inv, TypeInv, IsFrame
<1>3. /\ count \in Nat
      /\ Top.count # 0 /\ Top.count < Huge => count = Top.count - 1
      /\ Top.count = Huge => count = Huge
  BY <1>2, DecrementedIs
<1>4. \/ count # 0 /\ stack' = WithTop(frame) /\ Continues("start") /\ head' = head
      \/ count = 0 /\ Pops(frame.object)
  BY Zenon DEF CountedElement
<1> HIDE DEF count
<1>5. IsFrame(frame) /\ frame.type = TypeAfter(Top.type) /\ frame.count = count
  BY <1>1, <1>2, <1>3, FilledIs, CountSet
<1> HIDE DEF frame
<1>6. CASE count # 0 /\ stack' = WithTop(frame) /\ Continues("start") /\ head' = head
  <2>1. ASSUME StackOwed(stack) PROVE Owed(frame)
    <3>1. Owed(Top) /\ Huge \in Nat
      BY <1>1, <1>2, <2>1, TopOwed, HugeIs
    <3>2. Top.count \in 1 .. Huge /\ count \in 1 .. Huge /\ (count < Huge => Top.count < Huge)
          /\ (Top.count < Huge => count = Top.count - 1)
      BY <1>1, <1>3, <1>6, <3>1 DEF Owed
    <3>3. CASE Top.type = "array"
      BY <1>5, <3>2, <3>3 DEF Owed, TypeAfter
    <3>4. CASE Top.type = "map_key"
      <4>1. count < Huge => count % 2 = 1
        BY <3>1, <3>2, <3>4, <1>2, <1>3 DEF Owed
      <4> QED BY <1>5, <3>2, <3>4, <4>1 DEF Owed, TypeAfter
    <3>5. CASE Top.type = "map_value"
      <4>1. count < Huge => count % 2 = 0
        BY <3>1, <3>2, <3>5, <1>2, <1>3 DEF Owed
      <4> QED BY <1>5, <3>2, <3>5, <4>1 DEF Owed, TypeAfter
    <3> QED BY <1>1, <3>3, <3>4, <3>5
  <2> QED BY <1>1, <1>5, <1>6, <2>1, GoesOnKeeps
<1>7. CASE count = 0 /\ Pops(frame.object)
  BY <1>1, <1>7, PopsKeeps
<1> QED BY <1>4, <1>6, <1>7

\* An object goes into a container that ends with a break byte.
LEMMA IndefiniteElementKeeps == Inv /\ IndefiniteElement => Inv'
<1> SUFFICES ASSUME Inv, IndefiniteElement PROVE Inv'
  OBVIOUS
<1>1. /\ Completed /\ stack # <<>>
      /\ Top.type \in {"array_indef", "map_key_indef", "map_value_indef"}
      /\ stack' = WithTop(Filled) /\ Continues("start")
      /\ UNCHANGED <<unread, head, raw, taken>>
  BY DEF IndefiniteElement
<1>2. IsFrame(Filled) /\ Filled.type = TypeAfter(Top.type)
  BY <1>1, FilledIs DEF Inv, TypeInv
<1>3. Owed(Filled)
  BY <1>1, <1>2 DEF Owed, TypeAfter
<1> QED BY <1>1, <1>2, <1>3, GoesOnKeeps

\* A chunk of an indefinite string.
LEMMA StringChunkKeeps == Inv /\ StringChunk => Inv'
<1> SUFFICES ASSUME Inv, StringChunk PROVE Inv'
  OBVIOUS
<1> DEFINE v == Str(last[2], Top.object[3] \o last[3])
           f == [Top EXCEPT !.object = v]
<1>1. /\ Completed /\ stack # <<>> /\ Top.type = "string_indef"
      /\ UNCHANGED <<unread, head, raw, taken>>
  BY DEF StringChunk
<1>2. \/ stack' = WithTop(f) /\ Continues("start")
      \/ Raises("malformed") /\ UNCHANGED stack
  BY Zenon DEF StringChunk
<1> HIDE DEF v
<1>3. IsFrame(Top)
  BY <1>1, TopIs DEF Inv, TypeInv
<1>4. IsFrame(f) /\ f.type = Top.type
  BY <1>3, ObjectSet
<1> HIDE DEF f
<1>5. Owed(f)
  BY <1>1, <1>4 DEF Owed
<1> QED BY <1>1, <1>2, <1>4, <1>5, GoesOnKeeps, RaisesKeeps

\* The object of a tag.
LEMMA TaggedObjectKeeps == Inv /\ TaggedObject => Inv'
<1> SUFFICES ASSUME Inv, TaggedObject PROVE Inv'
  OBVIOUS
<1>1. Completed /\ stack # <<>> /\ UNCHANGED <<unread, raw, taken>>
  BY DEF TaggedObject
<1>2. \/ Pops(ProcessTag(Top.tag, last))
      \/ Raises("raised") /\ UNCHANGED <<head, stack, last>>
  BY Zenon DEF TaggedObject
<1> QED BY <1>1, <1>2, PopsKeeps, RaisesKeeps

\* A break byte within a container.
LEMMA BreakByteKeeps == Inv /\ BreakByte => Inv'
<1> SUFFICES ASSUME Inv, BreakByte PROVE Inv'
  OBVIOUS
<1>1. Completed /\ stack # <<>> /\ UNCHANGED <<unread, raw, taken>>
  BY DEF BreakByte
<1>2. \/ Pops(Top.object)
      \/ Raises("malformed") /\ UNCHANGED <<head, stack, last>>
  BY DEF BreakByte
<1> QED BY <1>1, <1>2, PopsKeeps, RaisesKeeps

\* skip counts every frame down.
LEMMA SkippedElementKeeps == Inv /\ SkippedElement => Inv'
<1> SUFFICES ASSUME Inv, SkippedElement PROVE Inv'
  OBVIOUS
<1> DEFINE count == Decremented(Top.count)
           f == [Top EXCEPT !.count = count]
<1>1. Completed /\ stack # <<>> /\ UNCHANGED <<unread, raw, taken>> /\ ~InStep
  BY DEF SkippedElement, InSkip, InStep
<1>2. \/ stack' = WithTop(f) /\ Continues("start") /\ head' = head
      \/ Pops(Nil)
  BY Zenon DEF SkippedElement
<1>3. IsFrame(Top) /\ Top.count \in Nat
  BY <1>1, TopIs DEF Inv, TypeInv, IsFrame
<1>4. count \in Nat
  BY <1>3, DecrementedIs
<1> HIDE DEF count
<1>5. IsFrame(f)
  BY <1>3, <1>4, CountSet
<1> HIDE DEF f
<1> QED BY <1>1, <1>2, <1>5, GoesOnKeeps, PopsKeeps

\* A step of a call that is under way.
LEMMA StepKeeps == Inv /\ Step => Inv'
BY HeadRunsOutKeeps, ScalarKeeps, WholeStringKeeps, SplitStringKeeps, RestOfStringKeeps,
   OpenKeeps, BreakKeeps, InvalidKeeps, FinishKeeps, CountedElementKeeps,
   IndefiniteElementKeeps, StringChunkKeeps, TaggedObjectKeeps, BreakByteKeeps,
   SkippedElementKeeps DEF Step, ReadPrimitive
-----------------------------------------------------------------------------
(* The calls *)

\* Ruby code that runs has no skip under way, and no object half returned.
LEMMA RubyRunsIs ==
  ASSUME RubyRuns
  PROVE  pc.op # "skip" /\ pc.r \in {"start", "yield"}
BY DEF RubyRuns, Yields, Idle

\* A call begins, goes on after its block, or is left by its block.
LEMMA CallKeeps ==
  ASSUME Inv, RubyRuns, pc' \in Calls, pc'.r = "start", UNCHANGED <<unread, reader, taken, within, lost>>,
         pc'.op = "skip" => "skip" \in Methods
  PROVE  Inv'
<1>1. /\ BytesInv /\ StackInv /\ ControlInv /\ StringInv
      /\ UNCHANGED <<unread, head, stack, raw, taken, within, lost>>
  BY DEF Inv, TypeInv, reader
<1>2. BytesInv' /\ StackInv' /\ ControlInv' /\ StringInv'
  BY <1>1 DEF BytesInv, StackInv, ControlInv, StringInv
<1>3. OwedInv => OwedInv'
  BY <1>1, RubyRunsIs, OwedKept DEF InStep
<1>4. ResidueInv => ResidueInv'
  BY <1>1, RubyRunsIs DEF ResidueInv
<1> QED BY <1>2, <1>3, <1>4 DEF Inv, TypeInv

\* Bytes are fed.
LEMMA FeedsKeeps ==
  ASSUME Inv, RubyRuns, NEW bytes \in Pieces, unread' = unread \o bytes,
         UNCHANGED <<reader, taken, within, lost>>,
         pc' \in Calls, pc'.r \in {"start", "yield"}, pc'.op # "skip"
  PROVE  Inv'
<1>1. /\ BytesInv /\ StackInv /\ ControlInv /\ StringInv
      /\ UNCHANGED <<head, stack, raw, taken, within, lost>>
  BY DEF Inv, TypeInv, reader
<1>2. unread' \in Seq(Fed)
  BY <1>1, FedIs, ConcatProperties DEF BytesInv
<1>3. BytesInv' /\ StackInv' /\ ControlInv' /\ StringInv'
  BY <1>1, <1>2 DEF BytesInv, StackInv, ControlInv, StringInv
<1>4. OwedInv => OwedInv'
  BY <1>1, RubyRunsIs, OwedKept DEF InStep
<1>5. ResidueInv => ResidueInv'
  BY <1>1, RubyRunsIs DEF ResidueInv
<1> QED BY <1>3, <1>4, <1>5 DEF Inv, TypeInv

\* A step of skip_nil or of a header method that leaves the head byte in
\* head_byte, or finds none.
LEMMA PeeksKeeps ==
  ASSUME Inv, RubyRuns, UNCHANGED <<stack, raw, pc, within, lost>>,
         \/ UNCHANGED <<unread, head, taken>>
         \/ HasHead /\ Takes(AfterHead) /\ head' = Ib
  PROVE  Inv'
<1>1. /\ BytesInv /\ StackInv /\ ControlInv /\ StringInv
      /\ pc.op # "skip" /\ pc.r \in {"start", "yield"}
  BY RubyRunsIs DEF Inv, TypeInv
<1>2. StackInv' /\ ControlInv'
  BY <1>1 DEF StackInv, ControlInv
<1>3. OwedInv => OwedInv'
  BY <1>1, OwedKept DEF InStep
<1>4. CASE UNCHANGED <<unread, head, taken>>
  <2>1. BytesInv' /\ StringInv' /\ (ResidueInv => ResidueInv')
    BY <1>1, <1>4 DEF BytesInv, StringInv, ResidueInv
  <2> QED BY <1>2, <1>3, <2>1 DEF Inv, TypeInv
<1>5. CASE HasHead /\ Takes(AfterHead) /\ head' = Ib
  <2>1. /\ AfterHead \in Seq(Fed) /\ Ib \in Fed
        /\ Len(AfterHead) <= Len(unread) /\ Len(AfterHead) <= Len(AfterHead)
        /\ head # HEAD_BYTE_REQUIRED => Ib = head
    BY <1>1, <1>5, HeadFacts
  <2>2. BytesInv'
    BY <1>1, <1>5, <2>1, TakesIs DEF BytesInv
  <2>3. StringInv'
    <3>1. raw.left > 0 => head # HEAD_BYTE_REQUIRED
      BY <1>1 DEF StringInv, HEAD_BYTE_REQUIRED, IB_UNUSED, MajorType, ByteString, TextString
    <3> QED BY <1>1, <1>5, <2>1, <3>1 DEF StringInv
  <2>4. ResidueInv => ResidueInv'
    <3> SUFFICES ASSUME ResidueInv, ~lost PROVE ResidueInv'
      BY DEF ResidueInv
    <3>1. taken' # <<>>
      BY <1>1, <1>5, <2>1, HeadTaken DEF ResidueInv
    <3> QED BY <1>1, <3>1 DEF ResidueInv
  <2> QED BY <1>2, <1>3, <2>2, <2>3, <2>4 DEF Inv, TypeInv
<1> QED BY <1>4, <1>5

\* CBOR::Unpacker#skip_nil.
LEMMA SkipNilKeeps == Inv /\ SkipNil => Inv'
BY PeeksKeeps DEF SkipNil

\* A header is taken whole, at the start of an item or, then for good, within
\* one; a string that is being read has another head.
LEMMA HeaderTakenKeeps ==
  ASSUME Inv, RubyRuns, HasHead, HasArg, MajorType(Ib) \in {ArrayType, MapType},
         Leaves(AfterArg), head' = HEAD_BYTE_REQUIRED, taken' = <<>>,
         lost' = (lost \/ stack # <<>>), UNCHANGED <<stack, raw, pc, within>>
  PROVE  Inv'
<1>1. /\ BytesInv /\ StackInv /\ ControlInv /\ StringInv
      /\ pc.op # "skip" /\ pc.r \in {"start", "yield"}
  BY RubyRunsIs DEF Inv, TypeInv
<1>2. AfterArg \in Seq(Fed)
  BY <1>1, ArgFacts
<1>3. raw.left = 0
  <2>1. raw.left > 0 => head # HEAD_BYTE_REQUIRED
    BY <1>1 DEF StringInv, HEAD_BYTE_REQUIRED, IB_UNUSED, MajorType, ByteString, TextString
  <2>2. head # HEAD_BYTE_REQUIRED => Ib = head
    BY DEF Ib
  <2>3. ~(raw.left > 0)
    BY <1>1, <2>1, <2>2 DEF StringInv, ArrayType, MapType, ByteString, TextString
  <2> QED BY <1>1, <2>3 DEF ControlInv, IsRaw
<1>4. lost' \in BOOLEAN
  BY <1>1 DEF ControlInv
<1>5. BytesInv' /\ StackInv' /\ ControlInv' /\ StringInv'
  BY <1>1, <1>2, <1>3, <1>4, EmptySeq DEF BytesInv, StackInv, ControlInv, StringInv, Leaves
<1>6. OwedInv => OwedInv'
  BY <1>1, OwedKept DEF InStep
<1>7. ResidueInv => ResidueInv'
  BY <1>1, <1>3 DEF ResidueInv
<1> QED BY <1>5, <1>6, <1>7 DEF Inv, TypeInv

\* CBOR::Unpacker#read_array_header and #read_map_header.
LEMMA ReadHeaderKeeps ==
  ASSUME Inv, NEW op, NEW type \in {ArrayType, MapType}, ReadHeader(op, type)
  PROVE  Inv'
<1>1. RubyRuns /\ UNCHANGED <<stack, raw, pc, within>>
  BY DEF ReadHeader
<1>2. \/ UNCHANGED <<unread, head, taken>> /\ UNCHANGED lost
      \/ HasHead /\ Takes(AfterHead) /\ head' = Ib /\ UNCHANGED lost
      \/ /\ HasHead /\ HasArg /\ MajorType(Ib) = type
         /\ Leaves(AfterArg) /\ head' = HEAD_BYTE_REQUIRED /\ taken' = <<>>
         /\ lost' = (lost \/ stack # <<>>)
  BY DEF ReadHeader
<1> QED BY <1>1, <1>2, PeeksKeeps, HeaderTakenKeeps

\* msgpack_unpacker_reset.
LEMMA ResetKeeps == Inv /\ Reset => Inv'
<1> SUFFICES ASSUME Inv, Reset PROVE Inv'
  OBVIOUS
<1>1. /\ RubyRuns /\ unread' = <<>> /\ head' = HEAD_BYTE_REQUIRED /\ stack' = <<>>
      /\ raw' = NoRaw /\ taken' = <<>> /\ within' = "no" /\ lost' = FALSE /\ pc' = pc
  BY DEF Reset, RawAfterReset
<1>2. IsRaw(raw') /\ raw'.left = 0
  BY <1>1 DEF IsRaw, NoRaw
<1>3. pc \in Calls /\ pc.op # "skip" /\ pc.r \in {"start", "yield"}
  BY <1>1, RubyRunsIs DEF Inv, TypeInv, ControlInv
<1>4. BytesInv' /\ StackInv' /\ ControlInv' /\ StringInv'
  <2>1. <<>> \in Seq(Fed)
    BY EmptySeq
  <2>2. BytesInv' /\ StackInv'
    BY <1>1, <2>1, EmptyStackIs DEF BytesInv, StackInv
  <2>3. within' \in {"no", "read", "skip"} /\ lost' \in BOOLEAN
    BY <1>1, Zenon
  <2>4. pc' \in Calls /\ pc'.r \notin {"complete", "break"} /\ ~(raw'.left > 0)
    BY <1>1, <1>2, <1>3
  <2>5. ControlInv' /\ StringInv'
    BY <1>2, <2>3, <2>4 DEF ControlInv, StringInv
  <2> QED BY <2>2, <2>5
<1>5. OwedInv' /\ ResidueInv'
  BY <1>1, <1>3, EmptyStackIs DEF OwedInv, ResidueInv
<1> QED BY <1>4, <1>5 DEF Inv, TypeInv

\* A new unpacker.
LEMMA InitInv == Init => Inv
<1> SUFFICES ASSUME Init PROVE Inv
  OBVIOUS
<1>1. /\ unread = <<>> /\ head = HEAD_BYTE_REQUIRED /\ stack = <<>> /\ raw = NoRaw
      /\ pc = Idle /\ taken = <<>> /\ within = "no" /\ lost = FALSE
  BY DEF Init
<1>2. IsRaw(raw) /\ raw.left = 0
  BY <1>1 DEF IsRaw, NoRaw
<1>3. pc \in Calls /\ pc.op # "skip" /\ pc.r = "start"
  BY <1>1 DEF Idle, Calls, Ops, Ends
<1>4. BytesInv /\ StackInv /\ ControlInv /\ StringInv
  <2>1. <<>> \in Seq(Fed)
    BY EmptySeq
  <2>2. BytesInv /\ StackInv
    BY <1>1, <2>1, EmptyStackIs DEF BytesInv, StackInv
  <2>3. within \in {"no", "read", "skip"} /\ lost \in BOOLEAN
    BY <1>1, Zenon
  <2>4. pc \in Calls /\ pc.r \notin {"complete", "break"} /\ ~(raw.left > 0)
    BY <1>1, <1>2, <1>3
  <2>5. ControlInv /\ StringInv
    BY <1>2, <2>3, <2>4 DEF ControlInv, StringInv
  <2> QED BY <2>2, <2>5
<1>5. OwedInv /\ ResidueInv
  BY <1>1, <1>3, EmptyStackIs DEF OwedInv, ResidueInv
<1> QED BY <1>4, <1>5 DEF Inv, TypeInv

\* Every step keeps the invariant.
LEMMA NextInv == Inv /\ [Next]_vars => Inv'
<1> SUFFICES ASSUME Inv, [Next]_vars PROVE Inv'
  OBVIOUS
<1>1. ControlInv
  BY DEF Inv, TypeInv
<1>2. CASE Step
  BY <1>2, StepKeeps
<1>3. ASSUME NEW op \in {"read", "skip", "each"} \cap Methods, Call(op) PROVE Inv'
  <2>1. RubyRuns /\ UNCHANGED <<unread, reader, taken, within, lost>>
        /\ pc' = [op |-> op, r |-> "start", inEach |-> Yields]
    BY <1>3 DEF Call
  <2>2. Yields \in BOOLEAN
    BY DEF Yields
  <2>3. pc' \in Calls /\ pc'.r = "start" /\ pc'.op = op
    BY <2>1, <2>2 DEF Calls, Ops, Ends
  <2> QED BY <2>1, <2>3, CallKeeps
<1>4. CASE CallDecode
  <2>1. RubyRuns /\ UNCHANGED <<unread, reader, taken, within, lost>>
        /\ pc' = [op |-> "decode", r |-> "start", inEach |-> FALSE]
    BY <1>4 DEF CallDecode, RubyRuns, Idle
  <2>2. pc' \in Calls /\ pc'.r = "start" /\ pc'.op # "skip"
    BY <2>1 DEF Calls, Ops, Ends
  <2> QED BY <2>1, <2>2, CallKeeps
<1>5. CASE BlockReturns
  <2>1. RubyRuns /\ UNCHANGED <<unread, reader, taken, within, lost>>
        /\ pc' = [pc EXCEPT !.r = "start"] /\ pc.op = "each"
    BY <1>5 DEF BlockReturns, RubyRuns, Yields
  <2>2. pc' \in Calls /\ pc'.r = "start" /\ pc'.op # "skip"
    BY <1>1, <2>1 DEF ControlInv, Calls, Ops, Ends
  <2> QED BY <2>1, <2>2, CallKeeps
<1>6. CASE BlockLeaves
  <2>1. RubyRuns /\ UNCHANGED <<unread, reader, taken, within, lost>> /\ pc' = Idle
    BY <1>6 DEF BlockLeaves, RubyRuns
  <2>2. pc' \in Calls /\ pc'.r = "start" /\ pc'.op # "skip"
    BY <2>1 DEF Idle, Calls, Ops, Ends
  <2> QED BY <2>1, <2>2, CallKeeps
<1>7. CASE SkipNil
  BY <1>7, SkipNilKeeps
<1>8. CASE ReadHeader("read_array_header", ArrayType) \/ ReadHeader("read_map_header", MapType)
  BY <1>8, ReadHeaderKeeps
<1>9. ASSUME NEW bytes \in Pieces, Feed(bytes) PROVE Inv'
  <2>1. RubyRuns /\ unread' = unread \o bytes /\ UNCHANGED <<reader, pc, taken, within, lost>>
    BY <1>9 DEF Feed
  <2>2. pc' \in Calls /\ pc'.r \in {"start", "yield"} /\ pc'.op # "skip"
    BY <1>1, <2>1, RubyRunsIs DEF ControlInv
  <2> QED BY <2>1, <2>2, FeedsKeeps
<1>10. ASSUME NEW bytes \in Pieces, FeedEach(bytes) PROVE Inv'
  <2>1. RubyRuns /\ unread' = unread \o bytes /\ UNCHANGED <<reader, taken, within, lost>>
        /\ pc' = [op |-> "each", r |-> "start", inEach |-> FALSE]
    BY <1>10 DEF FeedEach, RubyRuns, Idle
  <2>2. pc' \in Calls /\ pc'.r \in {"start", "yield"} /\ pc'.op # "skip"
    BY <2>1 DEF Calls, Ops, Ends
  <2> QED BY <2>1, <2>2, FeedsKeeps
<1>11. CASE Reset
  BY <1>11, ResetKeeps
<1>12. CASE UNCHANGED vars
  <2>1. UNCHANGED <<unread, head, stack, raw, pc, taken, within, lost>>
    BY <1>12 DEF vars
  <2> QED BY <2>1 DEF Inv, TypeInv, BytesInv, StackInv, ControlInv, StringInv,
                      OwedInv, InStep, BreaksEnd, ResidueInv
<1> QED BY <1>2, <1>3, <1>4, <1>5, <1>6, <1>7, <1>8, <1>9, <1>10, <1>11, <1>12 DEF Next

\* The invariant holds of every state.
LEMMA AlwaysInv == Spec => []Inv
<1>1. Init => Inv
  BY InitInv
<1>2. Inv /\ [Next]_vars => Inv'
  BY NextInv
<1> QED BY <1>1, <1>2, PTL DEF Spec
-----------------------------------------------------------------------------
(* The theorems *)

\* The unpacker's state keeps its types: in particular its stack never outgrows
\* its memory, and a string misses bytes exactly while it is being read.
THEOREM TypeCorrect == Spec => []TypeOK
<1>1. Inv => TypeOK
  <2> SUFFICES ASSUME Inv PROVE TypeOK
    OBVIOUS
  <2>1. BytesInv /\ StackInv /\ ControlInv
    BY DEF Inv, TypeInv
  <2>2. unread \in Seq(0 .. 255) /\ taken \in Seq(0 .. 255) /\ head \in 0 .. 255
    <3>1. Fed \subseteq 0 .. 255 /\ HEAD_BYTE_REQUIRED \in 0 .. 255
      BY FedIs, SMT DEF Byte, HEAD_BYTE_REQUIRED, IB_UNUSED
    <3>2. unread \in Seq(Fed) /\ taken \in Seq(Fed) /\ head \in Fed \cup {HEAD_BYTE_REQUIRED}
      BY <2>1 DEF BytesInv
    <3>3. head \in 0 .. 255
      BY <3>1, <3>2, Zenon
    <3>4. unread \in Seq(0 .. 255)
      BY <3>1, <3>2, SeqMonotonic, ZenonT(30)
    <3>5. taken \in Seq(0 .. 255)
      BY <3>1, <3>2, SeqMonotonic, ZenonT(30)
    <3> QED BY <3>3, <3>4, <3>5
  <2>3. /\ Len(stack) <= StackCapacity
        /\ \A i \in DOMAIN stack : stack[i].type \in FrameTypes /\ stack[i].count \in Nat
    BY <2>1, LengthOf DEF StackInv, FramesOK, IsFrame
  <2>4. (raw.open <=> raw.left > 0) /\ within \in {"no", "read", "skip"} /\ lost \in BOOLEAN
    BY <2>1 DEF ControlInv, IsRaw
  <2>5. /\ pc.op \in {"none", "read", "skip", "each", "decode"}
        /\ pc.r \in {"start", "complete", "break", "yield"} /\ pc.inEach \in BOOLEAN
    BY <2>1 DEF ControlInv, Calls, Ops, Ends
  <2> QED BY <2>2, <2>3, <2>4, <2>5 DEF TypeOK
<1> QED BY <1>1, AlwaysInv, PTL

\* Unless a map head with eight bytes of argument is fed, whose count wraps
\* around, every frame waits for as many objects as its container misses: no
\* count is decremented below zero, and a map's is even exactly when its next
\* object is a key.
THEOREM CountsStayOwed ==
  ASSUME 187 \notin Fed
  PROVE  Spec => []CountsOwed
<1>1. Inv => CountsOwed
  <2> SUFFICES ASSUME Inv, InStep PROVE CountsOwed
    BY DEF CountsOwed, InStep
  <2>1. DOMAIN stack = 1 .. Len(stack) /\ StackOwed(stack)
    BY LengthOf DEF Inv, TypeInv, StackInv, FramesOK, OwedInv
  <2> QED BY <2>1, Zenon DEF CountsOwed, StackOwed, Owed
<1> QED BY <1>1, AlwaysInv, PTL

\* Unless items are skipped in which break bytes come, which leave their byte
\* in head_byte, nothing of an item that was delivered is left behind.
THEOREM NothingLeftBehind ==
  ASSUME BreaksEnd
  PROVE  Spec => []NoResidue
<1>1. Inv => NoResidue
  <2> SUFFICES ASSUME Inv, ~lost, RubyRuns, taken = <<>>
               PROVE  head = HEAD_BYTE_REQUIRED /\ stack = <<>> /\ raw.left = 0
    BY DEF NoResidue
  <2>1. head = HEAD_BYTE_REQUIRED /\ stack = <<>>
    BY RubyRunsIs DEF Inv, ResidueInv
  <2>2. ~(raw.left > 0)
    BY <2>1 DEF Inv, TypeInv, StringInv, HEAD_BYTE_REQUIRED, IB_UNUSED, MajorType,
                ByteString, TextString
  <2> QED BY <2>1, <2>2 DEF Inv, TypeInv, ControlInv, IsRaw
<1> QED BY <1>1, AlwaysInv, PTL

-----------------------------------------------------------------------------
(* Readings that come to their end, and items without an end in their head *)

\* The bytes of what follows s, at their place.
LEMMA NextLies ==
  ASSUME NEW s, NEW x, s \in Seq(Byte), x \in Seq(Byte), x # <<>>
  PROVE  LET z == s \o x
         IN /\ z \in Seq(Byte) /\ Len(z) = Len(s) + Len(x)
            /\ Len(s) \in Nat /\ Len(x) \in Nat /\ Len(x) > 0 /\ Len(z) \in Nat
            /\ z[Len(s) + 1] = x[1]
<1>1. Len(s) \in Nat /\ Len(x) \in Nat /\ Len(x) > 0
  BY LenProperties, EmptySeq
<1>2. IsJoin(s, x, s \o x)
  BY JoinedIs
<1> QED BY <1>1, <1>2 DEF IsJoin

\* A head that is not all there ends the reading.
LEMMA UnfinishedHead ==
  ASSUME NEW s, NEW x, NEW o, NEW w, Ready(s, o, w), x \in Seq(Byte), x # <<>>,
         ~(1 + ArgWidth(x[1]) <= Len(x))
  PROVE  Reading(s \o x) = At(Len(s) + 1, o, w)
<1> DEFINE z == s \o x
           k == Len(s) + 1
           r == At(k, o, w)
<1>1. /\ z \in Seq(Byte) /\ Len(z) = Len(s) + Len(x) /\ Len(s) \in Nat /\ Len(x) \in Nat
      /\ z[k] = x[1] /\ ArgWidth(x[1]) \in Nat
  BY NextLies, WidthAt DEF Ready
<1>2. Reaches(z, r)
  BY ReachesMore DEF Ready
<1> HIDE DEF z
<1>3. r.at = k /\ r.open = o
  BY AtIs
<1>4. ~(k + ArgWidth(z[k]) <= Len(z))
  BY <1>1
<1> HIDE DEF k, r
<1>5. ~HeadAt(z, r.at)
  BY <1>3, <1>4 DEF HeadAt
<1>6. Turn(z, r) = r
  BY <1>3, <1>5, TurnIs DEF Ready
<1>7. Reading(z) = r
  BY <1>1, <1>2, <1>6, ReadingIs
<1> QED BY <1>7 DEF z, r, k

\* So does a string whose body is not all there.
LEMMA UnfinishedBody ==
  ASSUME NEW s, NEW h, NEW b, NEW o, NEW w, Ready(s, o, w), HeadFirst(h), Len(h) = 1 + ArgWidth(h[1]),
         b \in Seq(Byte), Len(b) < Count(ArgumentAt(h, 1)), MajorType(h[1]) \in {2, 3}
  PROVE  Reading(s \o (h \o b)) = At(Len(s) + 1, o, w)
<1> DEFINE x == h \o b
           z == s \o x
           k == Len(s) + 1
           r == At(k, o, w)
           body == BodyAt(z, k)
           c == Count(ArgumentAt(h, 1))
<1>0. /\ h \in Seq(Byte) /\ h # <<>> /\ Len(h) \in Nat /\ Len(b) \in Nat /\ ArgWidth(h[1]) \in Nat
      /\ s \in Seq(Byte)
  BY LenProperties, WidthAt DEF HeadFirst, Ready
<1>1. IsJoin(h, b, x)
  BY <1>0, JoinedIs
<1> HIDE DEF x
<1>2. x[1] = h[1] /\ Len(x) = Len(h) + Len(b) /\ x \in Seq(Byte)
  BY <1>0, <1>1 DEF IsJoin
<1>3. ArgAt(x, 1) = ArgAt(h, 1)
  <2>1. 1 \in 1 .. Len(h) /\ 1 + ArgWidth(h[1]) <= Len(h)
    BY <1>0
  <2> QED BY <1>0, <2>1, HeadBefore DEF SameAt, x
<1>4. HeadFirst(x)
  <2>1. x # <<>>
    BY <1>0, <1>2, EmptySeq
  <2>2. 1 + ArgWidth(x[1]) <= Len(x)
    BY <1>0, <1>2
  <2> QED BY <1>2, <2>1, <2>2 DEF HeadFirst
<1>5. ArgumentAt(x, 1) = ArgumentAt(h, 1) /\ BodyAt(x, 1) = Len(h) + 1
  BY <1>0, <1>2, <1>3 DEF ArgumentAt, BodyAt
<1>6. /\ z \in Seq(Byte) /\ Len(z) = Len(s) + Len(x) /\ Len(s) \in Nat /\ HeadAt(z, k)
      /\ z[k] = x[1] /\ ArgumentAt(z, k) = ArgumentAt(x, 1)
      /\ body = Len(s) + BodyAt(x, 1)
  <2>1. HeadLies(s, x, z, k)
    BY <1>4, NextHeadIs DEF Ready
  <2> HIDE DEF z, k, r, body
  <2> QED BY <2>1 DEF HeadLies, body
<1>7. Reaches(z, r)
  BY <1>2, ReachesMore DEF Ready
<1> HIDE DEF z
<1>8. r.at = k /\ r.open = o
  BY AtIs
<1>9. body + c - 1 > Len(z)
  <2>1. ArgumentAt(h, 1) \in Seq(Byte) /\ c \in Nat
    <3>1. HeadAt(h, 1)
      BY <1>0 DEF HeadFirst, HeadAt
    <3> QED BY <1>0, <3>1, ArgumentType
  <2> DEFINE a == Len(s)
             d == Len(h)
             e == Len(b)
             l == Len(z)
  <2>2. l = a + (d + e) /\ body = a + (d + 1) /\ e < c /\ a \in Nat /\ d \in Nat /\ e \in Nat /\ c \in Nat
    BY <1>0, <1>2, <1>5, <1>6, <2>1
  <2> HIDE DEF a, d, e, l, body, c
  <2>3. body + c - 1 > l
    BY <2>2
  <2> QED BY <2>3 DEF l
<1>10. DefiniteItem(z, r) = r
  <2>1. MajorType(z[k]) \in {2, 3} /\ Count(ArgumentAt(z, k)) = c
    BY <1>2, <1>5, <1>6
  <2> HIDE DEF k, body, c
  <2>2. DefiniteItem(z, At(k, o, w)) =
          IF body + c - 1 > Len(z) THEN At(k, o, w)
          ELSE With(At(body + c, o, w), StrOf(MajorType(z[k]), SubSeq(z, body, body + c - 1)))
    BY <2>1, DefiniteIs DEF body
  <2> QED BY <1>9, <2>2
<1> HIDE DEF k, r, body
<1>11. Turn(z, r) = r
  <2>1. HeadAt(z, r.at) /\ AI(z[r.at]) < 28 /\ Waiting(r.open)
    BY <1>2, <1>6, <1>8 DEF HeadFirst, Ready
  <2> QED BY <1>10, <2>1, TurnIs
<1>12. Reading(z) = r
  BY <1>6, <1>7, <1>11, ReadingIs
<1> QED BY <1>12 DEF z, x, r, k

\* A byte without an argument behind it comes next.
LEMMA NextByteIs ==
  ASSUME NEW s, NEW b \in Byte, s \in Seq(Byte), AI(b) = 31
  PROVE  LET z == s \o <<b>>
         IN /\ z \in Seq(Byte) /\ Len(z) = Len(s) + 1 /\ Len(s) \in Nat /\ z[Len(s) + 1] = b
            /\ HeadAt(z, Len(s) + 1)
<1> DEFINE x == <<b>>
           z == s \o x
           k == Len(s) + 1
<1>1. x \in Seq(Byte) /\ Len(x) = 1 /\ x[1] = b /\ x # <<>>
  BY OneByte
<1> HIDE DEF x
<1>2. /\ z \in Seq(Byte) /\ Len(z) = Len(s) + 1 /\ Len(s) \in Nat /\ z[k] = b
  BY <1>1, NextLies
<1>3. ArgWidth(b) = 0
  BY DEF ArgWidth
<1> HIDE DEF z
<1>4. HeadAt(z, k)
  BY <1>2, <1>3 DEF HeadAt
<1> QED BY <1>2, <1>4 DEF z, x

\* A container without an end begins.
LEMMA EndlessRead ==
  ASSUME NEW s, NEW o, NEW w, Ready(s, o, w), NEW b \in Byte, AI(b) = 31, MajorType(b) \in {2, 3, 4, 5}
  PROVE  LET z == s \o <<b>>
         IN  Reaches(z, At(Len(z) + 1, Append(o, Container(MajorType(b), Endless, 0)), w))
<1> DEFINE z == s \o <<b>>
           k == Len(s) + 1
           c == Container(MajorType(b), Endless, 0)
           r == At(k, o, w)
           q == Enters(At(k + 1, o, w), c)
<1>1. z \in Seq(Byte) /\ Len(z) = Len(s) + 1 /\ Len(s) \in Nat /\ z[k] = b /\ HeadAt(z, k)
  BY NextByteIs DEF Ready
<1>2. Reaches(z, r)
  BY OneByte, ReachesMore DEF Ready
<1> HIDE DEF z
<1>3. r.at = k /\ r.open = o
  BY AtIs
<1>4. IsContainer(c)
  BY EmptyIsSeq DEF Container, IsContainer
<1>5. AreContainers(o) /\ IsSeq(w) /\ Len(o) \in Nat
  BY ReadyIs DEF Ready
<1>6. /\ IsReading(q) /\ q = At(k + 1, Append(o, c), w) /\ q.at = k + 1 /\ Len(q.open) = Len(o) + 1
  <2>1. k + 1 \in Nat \ {0}
    BY <1>1
  <2> HIDE DEF c
  <2> QED BY <1>4, <1>5, <2>1, EntersType
<1>7. IndefiniteItem(z, r) = q
  BY <1>1, IndefiniteIs
<1> HIDE DEF r, q, c
<1>8. Turn(z, r) = q
  <2>1. HeadAt(z, r.at) /\ AI(z[r.at]) = 31 /\ Waiting(r.open)
    BY <1>1, <1>3 DEF Ready
  <2> QED BY <1>7, <2>1, TurnIs DEF AI_INDEF
<1>9. q # r /\ q.at <= Len(z) + 1 /\ Len(q.open) - Len(r.open) + 1 <= 2 * (q.at - r.at)
  <2>1. q.at = k + 1 /\ r.at = k /\ k \in Nat /\ Len(z) = k /\ Len(q.open) = Len(o) + 1
        /\ Len(r.open) = Len(o)
    BY <1>1, <1>3, <1>6
  <2> HIDE DEF k
  <2> QED BY <1>5, <2>1
<1>10. Reaches(z, q)
  <2>1. Len(z) \in Nat
    BY <1>1
  <2>2. ~LongMap(z, r)
    BY <1>1, <1>3, LongMapHead DEF LongMap
  <2> QED BY <1>2, <1>6, <1>8, <1>9, <2>1, <2>2, ReachesOn
<1> QED BY <1>1, <1>6, <1>10 DEF z, c

\* A break byte ends a container that has no end in its head.
LEMMA BreakRead ==
  ASSUME NEW s, NEW o, NEW w, Ready(s, o, w), o # <<>>, MayBreak(Last(o))
  PROVE  LET z == s \o <<255>>
         IN  Reaches(z, With(At(Len(z) + 1, Front(o), w), ObjectOf(Last(o))))
<1> DEFINE b == 255
           z == s \o <<b>>
           k == Len(s) + 1
           r == At(k, o, w)
           q == Closes(At(k + 1, o, w))
<1>0. b \in Byte /\ AI(b) = 31 /\ MajorType(b) = 7
  BY DEF Byte, AI, MajorType
<1> HIDE DEF b
<1>1. z \in Seq(Byte) /\ Len(z) = Len(s) + 1 /\ Len(s) \in Nat /\ z[k] = b /\ HeadAt(z, k)
  BY <1>0, NextByteIs DEF Ready
<1>2. Reaches(z, r)
  BY <1>0, OneByte, ReachesMore DEF Ready
<1> HIDE DEF z
<1>3. r.at = k /\ r.open = o
  BY AtIs
<1>5. AreContainers(o) /\ IsSeq(w) /\ Len(o) \in Nat
  BY ReadyIs DEF Ready
<1>6. /\ IsReading(q) /\ q.at = k + 1 /\ Len(q.open) = Len(o) - 1
      /\ q = With(At(k + 1, Front(o), w), ObjectOf(Last(o)))
  <2>1. k + 1 \in Nat \ {0}
    BY <1>1
  <2> QED BY <1>5, <2>1, ClosesType
<1>7. IndefiniteItem(z, r) = q
  BY <1>0, <1>1, IndefiniteIs
<1> HIDE DEF r, q
<1>8. Turn(z, r) = q
  <2>1. HeadAt(z, r.at) /\ AI(z[r.at]) = 31 /\ Waiting(r.open)
    BY <1>0, <1>1, <1>3 DEF Ready
  <2> QED BY <1>7, <2>1, TurnIs DEF AI_INDEF
<1>9. q # r /\ q.at <= Len(z) + 1 /\ Len(q.open) - Len(r.open) + 1 <= 2 * (q.at - r.at)
  <2>1. q.at = k + 1 /\ r.at = k /\ k \in Nat /\ Len(z) = k /\ Len(q.open) = Len(o) - 1
        /\ Len(r.open) = Len(o)
    BY <1>1, <1>3, <1>6
  <2> HIDE DEF k
  <2> QED BY <1>5, <2>1
<1>10. Reaches(z, q)
  <2>1. Len(z) \in Nat
    BY <1>1
  <2>2. ~LongMap(z, r)
    BY <1>0, <1>1, <1>3, LongMapHead DEF LongMap
  <2> QED BY <1>2, <1>6, <1>8, <1>9, <2>1, <2>2, ReachesOn
<1> QED BY <1>1, <1>6, <1>10 DEF z, b

-----------------------------------------------------------------------------
(* Objects, and what containers become with one more of them *)

\* A string is its encoding and its bytes.
Obj(v) == v[1] = "str" => v = Str(v[2], v[3]) /\ v[3] \in Seq(Byte)

\* The container with v behind what it has seen.
Grown(c, v) == [c EXCEPT !.seen = Append(c.seen, v)]

\* Its parts.
LEMMA GrownIs ==
  ASSUME NEW c, IsContainer(c), NEW v
  PROVE  LET g == Grown(c, v)
         IN /\ IsContainer(g) /\ g.type = c.type /\ g.need = c.need /\ g.tag = c.tag
            /\ g.seen = Append(c.seen, v) /\ IsSeq(c.seen) /\ Len(c.seen) \in Nat
            /\ Len(g.seen) = Len(c.seen) + 1 /\ g.seen[Len(c.seen) + 1] = v /\ Last(g.seen) = v
            /\ \A i \in 1 .. Len(c.seen) : g.seen[i] = c.seen[i]
<1> DEFINE g == Grown(c, v)
           q == Append(c.seen, v)
<1>1. IsSeq(c.seen)
  BY DEF IsContainer
<1>2. IsSeq(q) /\ Len(q) = Len(c.seen) + 1 /\ q[Len(c.seen) + 1] = v /\ Len(c.seen) \in Nat
      /\ \A i \in 1 .. Len(c.seen) : q[i] = c.seen[i]
  BY <1>1, AppendOf, LengthOf
<1>3. Last(q) = v
  BY <1>1, AppendedIs
<1> HIDE DEF q
<1>4. g.type = c.type /\ g.need = c.need /\ g.tag = c.tag /\ g.seen = q
      /\ g = [type |-> g.type, need |-> g.need, tag |-> g.tag, seen |-> g.seen]
  <2>1. c = [type |-> c.type, need |-> c.need, tag |-> c.tag, seen |-> c.seen]
    BY DEF IsContainer
  <2>2. g = [c EXCEPT !.seen = q]
    BY DEF Grown, q
  <2>3. \A t, n, a, e : [[type |-> t, need |-> n, tag |-> a, seen |-> e] EXCEPT !.seen = q]
                         = [type |-> t, need |-> n, tag |-> a, seen |-> q]
    OBVIOUS
  <2>4. g = [type |-> c.type, need |-> c.need, tag |-> c.tag, seen |-> q]
    BY <2>1, <2>2, <2>3
  <2> HIDE DEF g
  <2> QED BY <2>4
<1> HIDE DEF g
<1>5. IsContainer(g)
  BY <1>2, <1>4 DEF IsContainer
<1> QED BY <1>1, <1>2, <1>3, <1>4, <1>5 DEF g, q

\* A function on 1 .. n is a sequence.
LEMMA FunctionIsSeq ==
  ASSUME NEW n \in Nat, NEW q, q = [k \in 1 .. n |-> q[k]]
  PROVE  IsSeq(q) /\ Len(q) = n
<1> DEFINE S == {q[k] : k \in 1 .. n}
<1>1. [k \in 1 .. n |-> q[k]] \in [1 .. n -> S]
  OBVIOUS
<1>2. q \in [1 .. n -> S] /\ DOMAIN q = 1 .. n
  BY <1>1
<1> HIDE DEF S
<1>3. q \in Seq(S)
  BY <1>2, SeqDef
<1>4. DOMAIN q = 1 .. Len(q) /\ Len(q) \in Nat
  BY <1>3, LenProperties
<1> QED BY <1>2, <1>3, <1>4 DEF IsSeq

\* The pairs of a list: half as many.
LEMMA PairsIs ==
  ASSUME NEW q, IsSeq(q)
  PROVE  /\ IsSeq(Pairs(q)) /\ Len(Pairs(q)) = Len(q) \div 2 /\ Len(q) \in Nat
         /\ \A k \in 1 .. Len(q) \div 2 : Pairs(q)[k] = <<q[2 * k - 1], q[2 * k]>>
<1> DEFINE n == Len(q) \div 2
<1>1. Len(q) \in Nat
  BY LengthOf
<1>2. n \in Nat
  BY <1>1
<1> HIDE DEF n
<1>3. Pairs(q) = [k \in 1 .. n |-> <<q[2 * k - 1], q[2 * k]>>]
  BY DEF Pairs, n
<1>4. Pairs(q) = [k \in 1 .. n |-> Pairs(q)[k]]
  BY <1>3
<1>5. IsSeq(Pairs(q)) /\ Len(Pairs(q)) = n
  BY <1>2, <1>4, FunctionIsSeq
<1> QED BY <1>1, <1>3, <1>5 DEF n

\* A key alone makes no pair.
LEMMA PairsKey ==
  ASSUME NEW q, IsSeq(q), NEW v, Len(q) % 2 = 0
  PROVE  Pairs(Append(q, v)) = Pairs(q)
<1> DEFINE t == Append(q, v)
           n == Len(q) \div 2
<1>1. IsSeq(t) /\ Len(t) = Len(q) + 1 /\ \A i \in 1 .. Len(q) : t[i] = q[i]
  BY AppendOf
<1>2. /\ IsSeq(Pairs(q)) /\ Len(Pairs(q)) = n /\ Len(q) \in Nat
      /\ \A k \in 1 .. n : Pairs(q)[k] = <<q[2 * k - 1], q[2 * k]>>
  BY PairsIs
<1> HIDE DEF t
<1>3. /\ IsSeq(Pairs(t)) /\ Len(Pairs(t)) = Len(t) \div 2
      /\ \A k \in 1 .. Len(t) \div 2 : Pairs(t)[k] = <<t[2 * k - 1], t[2 * k]>>
  BY <1>1, PairsIs
<1>4. Len(t) \div 2 = n /\ Len(q) = 2 * n /\ n \in Nat
  <2> DEFINE m == Len(q)
  <2>1. m \in Nat /\ m % 2 = 0 /\ n = m \div 2 /\ Len(t) = m + 1
    BY <1>1, <1>2
  <2> HIDE DEF m, n
  <2>2. (m + 1) \div 2 = n /\ m = 2 * n /\ n \in Nat
    BY <2>1
  <2> QED BY <2>1, <2>2 DEF m
<1> HIDE DEF n
<1>5. ASSUME NEW k \in 1 .. n PROVE Pairs(t)[k] = Pairs(q)[k]
  <2>1. 2 * k - 1 \in 1 .. Len(q) /\ 2 * k \in 1 .. Len(q)
    BY <1>4
  <2>2. t[2 * k - 1] = q[2 * k - 1] /\ t[2 * k] = q[2 * k]
    BY <1>1, <2>1
  <2> QED BY <1>2, <1>3, <1>4, <2>2
<1>6. Pairs(t) = Pairs(q)
  BY <1>2, <1>3, <1>4, <1>5, SameList
<1> QED BY <1>6 DEF t

\* Its value makes one of both.
LEMMA PairsValue ==
  ASSUME NEW q, IsSeq(q), NEW v, Len(q) % 2 = 1
  PROVE  Pairs(Append(q, v)) = Append(Pairs(q), <<Last(q), v>>)
<1> DEFINE t == Append(q, v)
           n == Len(q) \div 2
           p == Pairs(q)
           e == <<Last(q), v>>
           a == Append(p, e)
<1>1. IsSeq(t) /\ Len(t) = Len(q) + 1 /\ t[Len(q) + 1] = v /\ \A i \in 1 .. Len(q) : t[i] = q[i]
  BY AppendOf
<1>2. /\ IsSeq(p) /\ Len(p) = n /\ Len(q) \in Nat
      /\ \A k \in 1 .. n : p[k] = <<q[2 * k - 1], q[2 * k]>>
  BY PairsIs
<1> HIDE DEF t, p
<1>3. /\ IsSeq(Pairs(t)) /\ Len(Pairs(t)) = Len(t) \div 2
      /\ \A k \in 1 .. Len(t) \div 2 : Pairs(t)[k] = <<t[2 * k - 1], t[2 * k]>>
  BY <1>1, PairsIs
<1>4. Len(t) \div 2 = n + 1 /\ Len(q) = 2 * n + 1 /\ n \in Nat
  <2> DEFINE m == Len(q)
  <2>1. m \in Nat /\ m % 2 = 1 /\ n = m \div 2 /\ Len(t) = m + 1
    BY <1>1, <1>2
  <2> HIDE DEF m, n
  <2>2. (m + 1) \div 2 = n + 1 /\ m = 2 * n + 1 /\ n \in Nat
    BY <2>1
  <2> QED BY <2>1, <2>2 DEF m
<1>5. Last(q) = q[Len(q)]
  <2>1. q # <<>>
    BY <1>4, EmptySeq
  <2> QED BY <2>1, LengthOf
<1> HIDE DEF e
<1>6. IsSeq(a) /\ Len(a) = Len(p) + 1 /\ a[Len(p) + 1] = e /\ \A i \in 1 .. Len(p) : a[i] = p[i]
  BY <1>2, AppendOf
<1> HIDE DEF n, a
<1>7. ASSUME NEW k \in 1 .. n + 1 PROVE Pairs(t)[k] = a[k]
  <2>1. CASE k = n + 1
    <3>1. 2 * k - 1 = Len(q) /\ 2 * k = Len(q) + 1 /\ Len(q) \in 1 .. Len(q)
      BY <1>4, <2>1
    <3>2. t[2 * k - 1] = q[Len(q)] /\ t[2 * k] = v
      BY <1>1, <3>1
    <3>3. Pairs(t)[k] = <<t[2 * k - 1], t[2 * k]>>
      BY <1>3, <1>4
    <3>4. a[k] = e
      BY <1>2, <1>6, <2>1
    <3> QED BY <1>5, <3>2, <3>3, <3>4 DEF e
  <2>2. CASE k # n + 1
    <3>1. 2 * k - 1 \in 1 .. Len(q) /\ 2 * k \in 1 .. Len(q) /\ k \in 1 .. n
      BY <1>4, <2>2
    <3>2. t[2 * k - 1] = q[2 * k - 1] /\ t[2 * k] = q[2 * k]
      BY <1>1, <3>1
    <3>3. Pairs(t)[k] = <<t[2 * k - 1], t[2 * k]>>
      BY <1>3, <1>4
    <3>4. a[k] = p[k] /\ p[k] = <<q[2 * k - 1], q[2 * k]>>
      BY <1>2, <1>6, <3>1
    <3> QED BY <3>2, <3>3, <3>4
  <2> QED BY <2>1, <2>2
<1>8. Pairs(t) = a
  <2>1. Len(a) = n + 1
    BY <1>2, <1>6
  <2> QED BY <1>3, <1>4, <1>6, <1>7, <2>1, SameList
<1> QED BY <1>8 DEF t, a, p, e

\* the bytes of each chunk
Bodies(q) == [k \in DOMAIN q |-> q[k][3]]

\* A chunk more.
LEMMA ChunksMore ==
  ASSUME NEW q, IsSeq(q), NEW v, \A k \in 1 .. Len(q) : q[k][3] \in Seq(Byte), v[3] \in Seq(Byte)
  PROVE  Chunks(q) \in Seq(Byte) /\ Chunks(Append(q, v)) = Chunks(q) \o v[3]
<1> DEFINE t == Append(q, v)
<1>1. Len(q) \in Nat /\ DOMAIN q = 1 .. Len(q)
  BY LengthOf
<1>2. /\ IsSeq(t) /\ Len(t) = Len(q) + 1 /\ t[Len(q) + 1] = v
      /\ \A i \in 1 .. Len(q) : t[i] = q[i]
  BY AppendOf
<1> HIDE DEF t
<1>3. DOMAIN t = 1 .. Len(q) + 1
  BY <1>2, LengthOf
<1>4. Bodies(q) \in Seq(Seq(Byte)) /\ Len(Bodies(q)) = Len(q)
  <2>1. Bodies(q) \in [1 .. Len(q) -> Seq(Byte)]
    BY <1>1 DEF Bodies
  <2>2. Bodies(q) \in Seq(Seq(Byte))
    BY <1>1, <2>1, SeqDef
  <2>3. DOMAIN Bodies(q) = 1 .. Len(q)
    BY <1>1 DEF Bodies
  <2>4. DOMAIN Bodies(q) = 1 .. Len(Bodies(q)) /\ Len(Bodies(q)) \in Nat
    BY <2>2, LenProperties
  <2> QED BY <1>1, <2>2, <2>3, <2>4
<1>5. Bodies(t) = Append(Bodies(q), v[3])
  <2> DEFINE a == Append(Bodies(q), v[3])
  <2>1. /\ IsSeq(a) /\ Len(a) = Len(q) + 1 /\ a[Len(q) + 1] = v[3]
        /\ \A i \in 1 .. Len(q) : a[i] = Bodies(q)[i]
    BY <1>4, AppendOf DEF IsSeq
  <2> HIDE DEF a
  <2>2. Bodies(t) = [k \in 1 .. Len(q) + 1 |-> t[k][3]]
    BY <1>3 DEF Bodies
  <2>3. \A k \in 1 .. Len(q) : Bodies(q)[k] = q[k][3]
    BY <1>1 DEF Bodies
  <2>4. ASSUME NEW k \in 1 .. Len(q) + 1 PROVE t[k][3] = a[k]
    <3>1. CASE k = Len(q) + 1
      BY <1>2, <2>1, <3>1
    <3>2. CASE k # Len(q) + 1
      <4>1. k \in 1 .. Len(q)
        BY <1>1, <3>2
      <4> QED BY <1>2, <2>1, <2>3, <4>1
    <3> QED BY <3>1, <3>2
  <2>5. a = [k \in 1 .. Len(q) + 1 |-> a[k]]
    <3>1. PICK S : a \in Seq(S)
      BY <2>1 DEF IsSeq
    <3>2. a \in [1 .. Len(a) -> S]
      BY <3>1, LenProperties
    <3>3. a = [k \in 1 .. Len(a) |-> a[k]]
      BY <3>2
    <3> QED BY <2>1, <3>3
  <2>6. Bodies(t) = a
    BY <2>2, <2>4, <2>5
  <2> QED BY <2>6 DEF a
<1>6. FlattenSeq(Bodies(q)) \in Seq(Byte)
  BY <1>4, FlattenType
<1>7. FlattenSeq(Append(Bodies(q), v[3])) = FlattenSeq(Bodies(q)) \o v[3]
  BY <1>4, <1>6, FlattenAppend
<1>8. Chunks(q) = FlattenSeq(Bodies(q)) /\ Chunks(t) = FlattenSeq(Bodies(t))
  BY DEF Chunks, Bodies
<1> QED BY <1>5, <1>6, <1>7, <1>8 DEF t

\* No chunk.
LEMMA ChunksNone == Chunks(<<>>) = <<>> /\ Pairs(<<>>) = <<>>
<1>1. [k \in DOMAIN <<>> |-> <<>>[k][3]] = <<>>
  OBVIOUS
<1>2. Chunks(<<>>) = FlattenSeq(<<>>)
  BY <1>1 DEF Chunks
<1>3. IsSeq(Pairs(<<>>)) /\ Len(Pairs(<<>>)) = 0
  BY EmptyIsSeq, PairsIs
<1>4. Pairs(<<>>) = <<>>
  BY <1>3, LengthOf
<1> QED BY <1>2, <1>4, FlattenNone

-----------------------------------------------------------------------------
(* Frames and the containers they stand for *)

\* the chunks of an indefinite string
Strings(c) ==
  \A k \in 1 .. Len(c.seen) :
    c.seen[k] = Str(c.type = TextString, c.seen[k][3]) /\ c.seen[k][3] \in Seq(Byte)

\* A container that waits for an object.
Sound(c) ==
  /\ IsContainer(c)
  /\ c.type \in {ByteString, TextString, ArrayType, MapType, TagType}
  /\ c.need = Endless \/ (c.need \in Nat /\ Len(c.seen) < c.need)
  /\ c.type \in {ByteString, TextString} => c.need = Endless /\ Strings(c)
  /\ c.type = TagType => c.need = 1

\* The type of its frame, by what comes next.
TypeOf(c) ==
  IF c.type \in {ByteString, TextString} THEN "string_indef"
  ELSE IF c.type = TagType THEN "tag"
  ELSE IF c.type = ArrayType THEN (IF c.need = Endless THEN "array_indef" ELSE "array")
  ELSE IF Len(c.seen) % 2 = 0 THEN (IF c.need = Endless THEN "map_key_indef" ELSE "map_key")
  ELSE IF c.need = Endless THEN "map_value_indef" ELSE "map_value"

\* Its frame but for the count: the object so far, and a key without its value.
Looks(f, c) ==
  /\ f.type = TypeOf(c)
  /\ c.type \in {ByteString, TextString} => f.object = Str(c.type = TextString, Chunks(c.seen))
  /\ c.type = ArrayType => f.object = <<"array", c.seen>>
  /\ c.type = MapType => f.object = <<"hash", Pairs(c.seen)>>
  /\ c.type = MapType /\ Len(c.seen) % 2 = 1 => f.key = Last(c.seen)
  /\ c.type = TagType => f.tag = c.tag

\* What it still misses; counts from Huge on are not told apart.
Missing(c) == IF c.need >= Huge THEN Huge ELSE c.need - Len(c.seen)

\* Its frame.
Mirrors(f, c) == Looks(f, c) /\ (c.need # Endless => f.count = Missing(c))

\* The stack is a frame for each container that a reading is in.
Image(s, o) ==
  /\ AreContainers(o) /\ Len(o) = Len(s)
  /\ \A k \in 1 .. Len(o) : Sound(o[k]) /\ Mirrors(s[k], o[k])

\* No container has more objects than there were bytes.
Bound(o, n) == \A k \in 1 .. Len(o) : Len(o[k].seen) <= n

\* Which frames stand for which containers.
LEMMA SortOf ==
  ASSUME NEW c, Sound(c), NEW f, Looks(f, c)
  PROVE  /\ f.type \in {"array", "map_key", "map_value"} => c.type \in {4, 5} /\ c.need # Endless
         /\ f.type \in {"array_indef", "map_key_indef", "map_value_indef"} =>
              c.type \in {4, 5} /\ c.need = Endless
         /\ f.type \in {"array", "array_indef"} <=> c.type = 4
         /\ f.type \in {"map_key", "map_key_indef"} <=> c.type = 5 /\ Len(c.seen) % 2 = 0
         /\ f.type \in {"map_value", "map_value_indef"} <=> c.type = 5 /\ Len(c.seen) % 2 # 0
         /\ f.type = "string_indef" <=> c.type \in {2, 3}
         /\ f.type = "tag" <=> c.type = 6
<1>1. c.type \in {2, 3, 4, 5, 6} /\ f.type = TypeOf(c)
  BY DEF Sound, Looks, ByteString, TextString, ArrayType, MapType, TagType
<1>2. c.type \in {2, 3} => c.need = Endless
  BY DEF Sound, ByteString, TextString
<1> DEFINE even == Len(c.seen) % 2 = 0
           type == c.type
           endless == c.need = Endless
<1>3. TypeOf(c) = IF type \in {2, 3} THEN "string_indef"
                  ELSE IF type = 6 THEN "tag"
                  ELSE IF type = 4 THEN (IF endless THEN "array_indef" ELSE "array")
                  ELSE IF even THEN (IF endless THEN "map_key_indef" ELSE "map_key")
                  ELSE IF endless THEN "map_value_indef" ELSE "map_value"
  BY DEF TypeOf, ByteString, TextString, ArrayType, TagType
<1> HIDE DEF even, type, endless
<1>4. type \in {2, 3, 4, 5, 6}
  BY <1>1 DEF type
<1>5. /\ f.type \in {"array", "map_key", "map_value"} => type \in {4, 5} /\ ~endless
      /\ f.type \in {"array_indef", "map_key_indef", "map_value_indef"} => type \in {4, 5} /\ endless
      /\ f.type \in {"array", "array_indef"} <=> type = 4
      /\ f.type \in {"map_key", "map_key_indef"} <=> type = 5 /\ even
      /\ f.type \in {"map_value", "map_value_indef"} <=> type = 5 /\ ~even
      /\ f.type = "string_indef" <=> type \in {2, 3}
      /\ f.type = "tag" <=> type = 6
  BY <1>1, <1>3, <1>4
<1> QED BY <1>5 DEF even, type, endless

\* The object of a frame is what the container has come to.
LEMMA LooksObject ==
  ASSUME NEW c, NEW f, Looks(f, c), c.type \in {2, 3, 4, 5}
  PROVE  f.object = ObjectOf(c)
<1>1. CASE c.type \in {2, 3}
  <2>1. f.object = Str(c.type = TextString, Chunks(c.seen))
    BY <1>1 DEF Looks, ByteString, TextString
  <2>2. ObjectOf(c) = Str(c.type = TextString, Chunks(c.seen))
    <3>1. c.type # 4 /\ c.type # 5 /\ c.type # 6
      BY <1>1
    <3>2. c.type \in {ByteString, TextString} /\ c.type # ArrayType /\ c.type # MapType /\ c.type # TagType
      BY <1>1, <3>1 DEF ByteString, TextString, ArrayType, MapType, TagType
    <3> QED BY <3>2, Zenon DEF ObjectOf
  <2> QED BY <2>1, <2>2
<1>2. CASE c.type = 4
  <2>1. c.type = ArrayType /\ c.type # MapType /\ c.type # TagType /\ c.type \notin {ByteString, TextString}
    BY <1>2 DEF ByteString, TextString, ArrayType, MapType, TagType
  <2>2. ObjectOf(c) = <<"array", c.seen>>
    BY <2>1, Zenon DEF ObjectOf
  <2>3. f.object = <<"array", c.seen>>
    BY <2>1 DEF Looks
  <2> QED BY <2>2, <2>3
<1>3. CASE c.type = 5
  <2>1. c.type = MapType /\ c.type # ArrayType /\ c.type # TagType /\ c.type \notin {ByteString, TextString}
    BY <1>3 DEF ByteString, TextString, ArrayType, MapType, TagType
  <2>2. ObjectOf(c) = <<"hash", Pairs(c.seen)>>
    BY <2>1, Zenon DEF ObjectOf
  <2>3. f.object = <<"hash", Pairs(c.seen)>>
    BY <2>1 DEF Looks
  <2> QED BY <2>2, <2>3
<1> QED BY <1>1, <1>2, <1>3

\* The object of a tag.
LEMMA TagObject ==
  ASSUME NEW c, c.type = 6
  PROVE  ObjectOf(c) = ProcessTag(c.tag, c.seen[1])
<1>1. c.type = TagType /\ c.type # ArrayType /\ c.type # MapType /\ c.type \notin {ByteString, TextString}
  BY DEF ByteString, TextString, ArrayType, MapType, TagType
<1> QED BY <1>1, Zenon DEF ObjectOf

\* What a tag makes of an object is no string.
LEMMA ProcessedIs ==
  ASSUME NEW tag, NEW v
  PROVE  Obj(ProcessTag(tag, v))
<1> DEFINE p == ProcessTag(tag, v)
<1>1. \/ p = <<RubyKind(tag), v>> /\ tag \in {1, 32, 35}
      \/ p = Raised
      \/ p = Integer(FALSE, v[3]) \/ p = Integer(TRUE, v[3])
      \/ p = Tagged(tag, v)
  <2> DEFINE A == tag \in {1, 32, 35}
             B == tag = 2 /\ v[1] = "str" /\ ~v[2]
             C == tag = 3 /\ v[1] = "str" /\ ~v[2]
             x == IF v[1] \in AcceptedBy(tag) THEN <<RubyKind(tag), v>> ELSE Raised
  <2>1. p = CASE A -> x [] B -> Integer(FALSE, v[3]) [] C -> Integer(TRUE, v[3]) [] OTHER -> Tagged(tag, v)
    BY Zenon DEF ProcessTag
  <2>2. A => ~B /\ ~C
    BY SMT
  <2>3. B => ~C
    BY SMT
  <2>4. x = <<RubyKind(tag), v>> \/ x = Raised
    BY Zenon
  <2>5. A => tag \in {1, 32, 35}
    BY Zenon
  <2> HIDE DEF A, B, C, x, p
  <2>6. CASE A
    <3>1. p = x
      BY <2>1, <2>2, <2>6, Zenon
    <3> QED BY <2>4, <2>5, <2>6, <3>1
  <2>7. CASE B
    <3>1. ~A
      BY <2>2, <2>7, Zenon
    <3>2. p = Integer(FALSE, v[3])
      BY <2>1, <2>3, <2>7, <3>1, Zenon
    <3> QED BY <3>2
  <2>8. CASE C
    <3>1. ~A /\ ~B
      BY <2>2, <2>3, <2>8, Zenon
    <3>2. p = Integer(TRUE, v[3])
      BY <2>1, <2>8, <3>1, Zenon
    <3> QED BY <3>2
  <2>9. CASE ~A /\ ~B /\ ~C
    <3>1. p = Tagged(tag, v)
      BY <2>1, <2>9, Zenon
    <3> QED BY <3>1
  <2> QED BY <2>6, <2>7, <2>8, <2>9, Zenon
<1>2. tag \in {1, 32, 35} => RubyKind(tag) \in {"time", "uri", "regexp"}
  BY DEF RubyKind
<1> HIDE DEF p
<1>3. p[1] # "str"
  <2>1. CASE p = <<RubyKind(tag), v>> /\ tag \in {1, 32, 35}
    <3>1. p[1] = RubyKind(tag)
      BY <2>1
    <3> QED BY <1>2, <2>1, <3>1
  <2>2. CASE p = Raised
    BY <2>2 DEF Raised
  <2>3. CASE p = Integer(FALSE, v[3]) \/ p = Integer(TRUE, v[3])
    <3>0. Integer(FALSE, v[3])[1] = "int" /\ Integer(TRUE, v[3])[1] = "int"
      BY Zenon DEF Integer
    <3>1. p[1] = "int"
      BY <2>3, <3>0, Zenon
    <3> QED BY <3>1
  <2>4. CASE p = Tagged(tag, v)
    <3>1. p[1] = "tagged"
      BY <2>4 DEF Tagged
    <3> QED BY <3>1
  <2> QED BY <1>1, <2>1, <2>2, <2>3, <2>4
<1> QED BY <1>3 DEF Obj, p

\* A string is an object.
LEMMA StrIs ==
  ASSUME NEW text, NEW body \in Seq(Byte)
  PROVE  /\ Obj(Str(text, body)) /\ Str(text, body)[1] = "str"
         /\ Str(text, body)[2] = text /\ Str(text, body)[3] = body
<1>1. Str(text, body)[1] = "str" /\ Str(text, body)[2] = text /\ Str(text, body)[3] = body
  BY Zenon DEF Str
<1> QED BY <1>1 DEF Obj

\* The object of a container is one.
LEMMA ObjectOfIs ==
  ASSUME NEW c, IsContainer(c), c.type \in {2, 3, 4, 5, 6}, c.type \in {2, 3} => Strings(c)
  PROVE  Obj(ObjectOf(c))
<1>1. c.type \in {2, 3, 4, 5, 6}
  OBVIOUS
<1>2. CASE c.type \in {2, 3}
  <2>1. Strings(c) /\ IsSeq(c.seen)
    BY <1>2 DEF IsContainer
  <2>2. Chunks(c.seen) \in Seq(Byte)
    <3>1. \A k \in 1 .. Len(c.seen) : c.seen[k][3] \in Seq(Byte)
      BY <2>1 DEF Strings
    <3>2. <<1, 1, <<>>>>[3] \in Seq(Byte)
      OBVIOUS
    <3> QED BY <2>1, <3>1, <3>2, ChunksMore
  <2>3. ObjectOf(c) = Str(c.type = TextString, Chunks(c.seen))
    <3>2. c.type \in {ByteString, TextString} /\ c.type # ArrayType /\ c.type # MapType /\ c.type # TagType
      BY <1>2 DEF ByteString, TextString, ArrayType, MapType, TagType
    <3> QED BY <3>2, Zenon DEF ObjectOf
  <2> QED BY <2>2, <2>3, StrIs
<1>3. CASE c.type = 4
  <2>1. c.type = ArrayType /\ c.type # MapType /\ c.type # TagType /\ c.type \notin {ByteString, TextString}
    BY <1>3 DEF ByteString, TextString, ArrayType, MapType, TagType
  <2>2. ObjectOf(c) = <<"array", c.seen>>
    BY <2>1, Zenon DEF ObjectOf
  <2>3. ObjectOf(c)[1] # "str"
    BY <2>2
  <2> QED BY <2>3 DEF Obj
<1>4. CASE c.type = 5
  <2>1. c.type = MapType /\ c.type # ArrayType /\ c.type # TagType /\ c.type \notin {ByteString, TextString}
    BY <1>4 DEF ByteString, TextString, ArrayType, MapType, TagType
  <2>2. ObjectOf(c) = <<"hash", Pairs(c.seen)>>
    BY <2>1, Zenon DEF ObjectOf
  <2>3. ObjectOf(c)[1] # "str"
    BY <2>2
  <2> QED BY <2>3 DEF Obj
<1>5. CASE c.type = 6
  BY <1>5, TagObject, ProcessedIs
<1> QED BY <1>1, <1>2, <1>3, <1>4, <1>5

-----------------------------------------------------------------------------
(* What an object does to the frame on top *)

\* Every part of a frame with another type, key and object.
LEMMA PartsAre ==
  ASSUME NEW f, IsFrame(f), NEW type, NEW key, NEW object
  PROVE  LET g == Refilled(f, type, key, object)
         IN g.type = type /\ g.key = key /\ g.object = object /\ g.tag = f.tag /\ g.count = f.count
<1> DEFINE f1 == [f EXCEPT !.type = type]
           f2 == [f1 EXCEPT !.key = key]
           f3 == [f2 EXCEPT !.object = object]
<1>0. f = [type |-> f.type, count |-> f.count, object |-> f.object, key |-> f.key, tag |-> f.tag]
  BY DEF IsFrame
<1>1. f1 = [type |-> type, count |-> f.count, object |-> f.object, key |-> f.key, tag |-> f.tag]
  BY <1>0
<1>2. Refilled(f, type, key, object) = f3
  BY DEF Refilled
<1> HIDE DEF f1
<1>3. f2 = [type |-> type, count |-> f.count, object |-> f.object, key |-> key, tag |-> f.tag]
  BY <1>1
<1> HIDE DEF f2
<1>4. f3 = [type |-> type, count |-> f.count, object |-> object, key |-> key, tag |-> f.tag]
  BY <1>3
<1> HIDE DEF f3
<1> QED BY <1>2, <1>4

\* the frame f with v as its next key, value or element
FilledWith(f, v, g) ==
  /\ g.type = TypeAfter(f.type) /\ g.tag = f.tag
  /\ f.type \in {"map_key", "map_key_indef"} => g.key = v /\ g.object = f.object
  /\ f.type \in {"map_value", "map_value_indef"} =>
       g.object = <<"hash", Append(f.object[2], <<f.key, v>>)>>
  /\ f.type \in {"array", "array_indef"} => g.object = <<"array", Append(f.object[2], v)>>

\* Of two numbers in a row one is even.
LEMMA Parity ==
  ASSUME NEW n \in Nat
  PROVE  /\ n % 2 = 0 => n % 2 # 1 /\ (n + 1) % 2 = 1 /\ (n + 1) % 2 # 0
         /\ n % 2 # 0 => n % 2 = 1 /\ (n + 1) % 2 = 0 /\ (n + 1) % 2 # 1
OBVIOUS

\* It looks like the container with v.
LEMMA LooksGrown ==
  ASSUME NEW c, Sound(c), c.type \in {4, 5}, NEW f, Looks(f, c), NEW v, NEW g, FilledWith(f, v, g)
  PROVE  Looks(g, Grown(c, v))
<1> DEFINE d == Grown(c, v)
           n == Len(c.seen)
<1>1. IsContainer(c)
  BY DEF Sound
<1>2. /\ d.type = c.type /\ d.need = c.need /\ d.tag = c.tag /\ d.seen = Append(c.seen, v)
      /\ IsSeq(c.seen) /\ n \in Nat /\ Len(d.seen) = n + 1 /\ Last(d.seen) = v
  BY <1>1, GrownIs
<1> HIDE DEF d
<1>3. c.type # 2 /\ c.type # 3 /\ c.type # 6
  OBVIOUS
<1>4. f.type = TypeOf(c)
  BY DEF Looks
<1>5. CASE c.type = 4
  <2>1. f.type \in {"array", "array_indef"} /\ f.object = <<"array", c.seen>>
    BY <1>5, SortOf DEF Looks, ArrayType
  <2>2. g.object = <<"array", Append(c.seen, v)>>
    <3>1. f.object[2] = c.seen
      BY <2>1
    <3> QED BY <2>1, <3>1 DEF FilledWith
  <2>3. g.type = f.type
    BY <2>1 DEF FilledWith, TypeAfter
  <2>4. TypeOf(d) = TypeOf(c)
    BY <1>2, <1>5 DEF TypeOf, ByteString, TextString, ArrayType, TagType
  <2>5. d.type = ArrayType /\ d.type \notin {ByteString, TextString} /\ d.type # MapType /\ d.type # TagType
    BY <1>2, <1>5 DEF ByteString, TextString, ArrayType, MapType, TagType
  <2>6. g.type = TypeOf(d) /\ g.object = <<"array", d.seen>>
    BY <1>2, <1>4, <2>2, <2>3, <2>4
  <2> QED BY <2>5, <2>6 DEF Looks, d
<1>6. CASE c.type = 5 /\ n % 2 = 0
  <2>1. f.type \in {"map_key", "map_key_indef"} /\ f.object = <<"hash", Pairs(c.seen)>>
    BY <1>6, SortOf DEF Looks, MapType
  <2>2. g.object = <<"hash", Pairs(d.seen)>> /\ g.key = Last(d.seen)
    <3>1. Pairs(d.seen) = Pairs(c.seen)
      BY <1>2, <1>6, PairsKey
    <3> QED BY <1>2, <2>1, <3>1 DEF FilledWith
  <2>3. f.type = IF c.need = Endless THEN "map_key_indef" ELSE "map_key"
    BY <1>4, <1>6 DEF TypeOf, ByteString, TextString, ArrayType, TagType
  <2>4. g.type = IF c.need = Endless THEN "map_value_indef" ELSE "map_value"
    BY <2>3 DEF FilledWith, TypeAfter
  <2>5. TypeOf(d) = IF c.need = Endless THEN "map_value_indef" ELSE "map_value"
    <3>1. (n + 1) % 2 # 0
      BY <1>2, <1>6, Parity
    <3>2. Len(d.seen) % 2 # 0
      BY <1>2, <3>1
    <3> QED BY <1>2, <1>6, <3>2 DEF TypeOf, ByteString, TextString, ArrayType, TagType
  <2>6. d.type = MapType /\ d.type \notin {ByteString, TextString} /\ d.type # ArrayType /\ d.type # TagType
    BY <1>2, <1>6 DEF ByteString, TextString, ArrayType, MapType, TagType
  <2>7. g.type = TypeOf(d)
    BY <2>4, <2>5
  <2> QED BY <2>2, <2>6, <2>7 DEF Looks, d
<1>7. CASE c.type = 5 /\ n % 2 # 0
  <2>1. f.type \in {"map_value", "map_value_indef"} /\ f.object = <<"hash", Pairs(c.seen)>>
    BY <1>7, SortOf DEF Looks, MapType
  <2>0. n % 2 = 1
    BY <1>2, <1>7, Parity
  <2>2. f.key = Last(c.seen)
    BY <1>7, <2>0 DEF Looks, MapType
  <2>3. g.object = <<"hash", Pairs(d.seen)>>
    <3>1. Pairs(d.seen) = Append(Pairs(c.seen), <<Last(c.seen), v>>)
      BY <1>2, <2>0, PairsValue
    <3>2. f.object[2] = Pairs(c.seen)
      BY <2>1
    <3>3. g.object = <<"hash", Append(f.object[2], <<f.key, v>>)>>
      BY <2>1 DEF FilledWith
    <3> QED BY <2>2, <3>1, <3>2, <3>3
  <2>4. f.type = IF c.need = Endless THEN "map_value_indef" ELSE "map_value"
    BY <1>4, <1>7 DEF TypeOf, ByteString, TextString, ArrayType, TagType
  <2>5. g.type = IF c.need = Endless THEN "map_key_indef" ELSE "map_key"
    BY <2>4 DEF FilledWith, TypeAfter
  <2>6. Len(d.seen) % 2 = 0
    <3>1. (n + 1) % 2 = 0
      BY <1>2, <1>7, Parity
    <3> QED BY <1>2, <3>1
  <2>7. TypeOf(d) = IF c.need = Endless THEN "map_key_indef" ELSE "map_key"
    BY <1>2, <1>7, <2>6 DEF TypeOf, ByteString, TextString, ArrayType, TagType
  <2>8. d.type = MapType /\ d.type \notin {ByteString, TextString} /\ d.type # ArrayType /\ d.type # TagType
    BY <1>2, <1>7 DEF ByteString, TextString, ArrayType, MapType, TagType
  <2>9. g.type = TypeOf(d)
    BY <2>5, <2>7
  <2>10. Len(d.seen) % 2 # 1
    <3> DEFINE x == Len(d.seen) % 2
    <3>1. x = 0
      BY <2>6
    <3> HIDE DEF x
    <3>2. x # 1
      BY <3>1
    <3> QED BY <3>2 DEF x
  <2> QED BY <2>3, <2>8, <2>9, <2>10 DEF Looks, d
<1>8. c.type = 4 \/ c.type = 5
  OBVIOUS
<1> QED BY <1>5, <1>6, <1>7, <1>8

\* The top frame is filled as its type says.
LEMMA FilledLooks ==
  ASSUME StackInv, stack # <<>>
  PROVE  FilledWith(Top, last, Filled) /\ Filled.count = Top.count /\ IsFrame(Filled)
<1>1. IsFrame(Top)
  BY TopIs
<1> DEFINE isKey == Top.type \in {"map_key", "map_key_indef"}
           key == IF isKey THEN last ELSE Top.key
           object == IF isKey THEN Top.object ELSE Added(Top.object, Top.key, Top.type)
           type == TypeAfter(Top.type)
           g == Refilled(Top, type, key, object)
<1>2. Filled = g
  BY Zenon DEF Filled, Refilled
<1>3. /\ isKey => key = last /\ object = Top.object
      /\ Top.type \in {"map_value", "map_value_indef"} =>
           object = <<"hash", Append(Top.object[2], <<Top.key, last>>)>>
      /\ Top.type \in {"array", "array_indef"} => object = <<"array", Append(Top.object[2], last)>>
  BY DEF Added
<1> HIDE DEF key, object, type
<1>4. g.type = type /\ g.key = key /\ g.object = object /\ g.tag = Top.tag /\ g.count = Top.count
  BY <1>1, PartsAre
<1> HIDE DEF g
<1>5. FilledWith(Top, last, g)
  BY <1>3, <1>4 DEF FilledWith, type
<1> QED BY <1>2, <1>4, <1>5, FilledIs

\* A frame whose count is set still looks the same.
LEMMA LooksCounted ==
  ASSUME NEW f, IsFrame(f), NEW c, Looks(f, c), NEW count
  PROVE  Looks([f EXCEPT !.count = count], c) /\ [f EXCEPT !.count = count].count = count
<1> DEFINE g == [f EXCEPT !.count = count]
<1>1. f = [type |-> f.type, count |-> f.count, object |-> f.object, key |-> f.key, tag |-> f.tag]
  BY DEF IsFrame
<1>2. g = [type |-> f.type, count |-> count, object |-> f.object, key |-> f.key, tag |-> f.tag]
  BY <1>1
<1> HIDE DEF g
<1>3. g.type = f.type /\ g.object = f.object /\ g.key = f.key /\ g.tag = f.tag /\ g.count = count
  BY <1>2
<1>4. Looks(g, c)
  BY <1>3 DEF Looks
<1> QED BY <1>3, <1>4 DEF g

\* The next chunk of a string.
LEMMA LooksChunk ==
  ASSUME NEW c, Sound(c), c.type \in {2, 3}, NEW f, Looks(f, c), IsFrame(f),
         NEW v, v = Str(c.type = TextString, v[3]), v[3] \in Seq(Byte),
         NEW g, g = [f EXCEPT !.object = Str(v[2], f.object[3] \o v[3])]
  PROVE  Looks(g, Grown(c, v)) /\ Strings(Grown(c, v))
<1> DEFINE d == Grown(c, v)
           n == Len(c.seen)
           text == c.type = TextString
<1>1. IsContainer(c) /\ Strings(c)
  BY DEF Sound, ByteString, TextString
<1>2. /\ d.type = c.type /\ d.need = c.need /\ d.tag = c.tag /\ d.seen = Append(c.seen, v)
      /\ IsSeq(c.seen) /\ n \in Nat /\ Len(d.seen) = n + 1 /\ d.seen[n + 1] = v
      /\ \A i \in 1 .. n : d.seen[i] = c.seen[i]
  BY <1>1, GrownIs
<1> HIDE DEF d
<1>3. v[2] = text
  <2>1. Str(text, v[3])[2] = text
    BY Zenon DEF Str
  <2> QED BY <2>1
<1>4. f.type = TypeOf(c) /\ f.object = Str(text, Chunks(c.seen))
  BY DEF Looks, ByteString, TextString
<1>5. f.object[3] = Chunks(c.seen)
  <2>1. Str(text, Chunks(c.seen))[3] = Chunks(c.seen)
    BY Zenon DEF Str
  <2> QED BY <1>4, <2>1
<1> HIDE DEF text
<1>6. Chunks(d.seen) = Chunks(c.seen) \o v[3]
  <2>1. \A k \in 1 .. Len(c.seen) : c.seen[k][3] \in Seq(Byte)
    BY <1>1 DEF Strings
  <2> QED BY <1>2, <2>1, ChunksMore
<1>7. g.type = f.type /\ g.object = Str(text, Chunks(d.seen))
  <2> DEFINE object == Str(v[2], f.object[3] \o v[3])
  <2>1. object = Str(text, Chunks(d.seen))
    BY <1>3, <1>5, <1>6
  <2> HIDE DEF object
  <2>2. f = [type |-> f.type, count |-> f.count, object |-> f.object, key |-> f.key, tag |-> f.tag]
    BY DEF IsFrame
  <2>3. g = [f EXCEPT !.object = object]
    BY DEF object
  <2>4. g = [type |-> f.type, count |-> f.count, object |-> object, key |-> f.key, tag |-> f.tag]
    BY <2>2, <2>3
  <2>5. g.type = f.type /\ g.object = object
    BY <2>4
  <2> QED BY <2>1, <2>5
<1>8. Looks(g, d)
  <2>1. TypeOf(c) = "string_indef" /\ TypeOf(d) = "string_indef"
    BY <1>2 DEF TypeOf, ByteString, TextString
  <2>2. d.type # ArrayType /\ d.type # MapType /\ d.type # TagType
    BY <1>2 DEF ArrayType, MapType, TagType
  <2>3. g.object = Str(d.type = TextString, Chunks(d.seen))
    BY <1>2, <1>7 DEF text
  <2> QED BY <1>4, <1>7, <2>1, <2>2, <2>3 DEF Looks
<1>9. Strings(d)
  <2> SUFFICES ASSUME NEW k \in 1 .. Len(d.seen)
               PROVE  d.seen[k] = Str(d.type = TextString, d.seen[k][3]) /\ d.seen[k][3] \in Seq(Byte)
    BY DEF Strings
  <2>1. CASE k = n + 1
    BY <1>2, <2>1
  <2>2. CASE k # n + 1
    <3>1. k \in 1 .. n
      BY <1>2, <2>2
    <3>2. c.seen[k] = Str(c.type = TextString, c.seen[k][3]) /\ c.seen[k][3] \in Seq(Byte)
      BY <1>1, <3>1 DEF Strings
    <3> QED BY <1>2, <3>1, <3>2
  <2> QED BY <2>1, <2>2
<1> QED BY <1>8, <1>9 DEF d

-----------------------------------------------------------------------------
(* The stack and the containers of a reading *)

\* A container that waits is not full.
LEMMA SoundWaits ==
  ASSUME NEW c, Sound(c)
  PROVE  ~IsFull(c) /\ IsContainer(c) /\ Len(c.seen) \in Nat
<1>1. IsContainer(c) /\ (c.need = Endless \/ (c.need \in Nat /\ Len(c.seen) < c.need))
  BY DEF Sound
<1>2. Len(c.seen) \in Nat
  BY <1>1, LengthOf DEF IsContainer
<1> QED BY <1>1, <1>2 DEF IsFull, Endless

\* The innermost container, and the frame on top.
LEMMA ImageTop ==
  ASSUME StackInv, NEW o, Image(stack, o)
  PROVE  /\ stack = <<>> <=> o = <<>>
         /\ Waiting(o)
         /\ stack # <<>> => Sound(Last(o)) /\ Mirrors(Top, Last(o)) /\ Last(o) = o[Len(o)]
                            /\ Len(o) \in 1 .. Len(o)
<1>1. IsSeq(stack) /\ IsSeq(o) /\ Len(o) = Len(stack)
  BY DEF StackInv, FramesOK, Image, AreContainers
<1>2. Len(stack) \in Nat /\ (stack # <<>> <=> Len(stack) > 0) /\ (o # <<>> <=> Len(o) > 0)
  BY <1>1, LengthOf
<1>3. stack = <<>> <=> o = <<>>
  BY <1>1, <1>2
<1>4. ASSUME stack # <<>>
      PROVE  Sound(Last(o)) /\ Mirrors(Top, Last(o)) /\ Last(o) = o[Len(o)] /\ Len(o) \in 1 .. Len(o)
  <2>1. Last(o) = o[Len(o)] /\ Len(o) \in 1 .. Len(o)
    BY <1>1, <1>3, <1>4, LengthOf
  <2>2. Top = stack[Len(stack)]
    BY <1>4, TopIs
  <2> QED BY <1>1, <2>1, <2>2 DEF Image
<1>5. Waiting(o)
  BY <1>3, <1>4, SoundWaits DEF Waiting
<1> QED BY <1>3, <1>4, <1>5

\* A container is opened with its frame.
LEMMA ImagePushed ==
  ASSUME StackInv, NEW o, Image(stack, o), NEW c, Sound(c), NEW f, Mirrors(f, c)
  PROVE  Image(Append(stack, f), Append(o, c))
<1> DEFINE t == Append(stack, f)
           p == Append(o, c)
           n == Len(o)
<1>1. IsSeq(stack) /\ IsSeq(o) /\ n = Len(stack) /\ n \in Nat
  BY LengthOf DEF StackInv, FramesOK, Image, AreContainers
<1>2. IsSeq(t) /\ Len(t) = n + 1 /\ t[n + 1] = f /\ \A i \in 1 .. n : t[i] = stack[i]
  BY <1>1, AppendOf
<1>3. IsSeq(p) /\ Len(p) = n + 1 /\ p[n + 1] = c /\ \A i \in 1 .. n : p[i] = o[i]
  BY <1>1, AppendOf
<1> HIDE DEF t, p
<1>4. \A k \in 1 .. n : Sound(o[k]) /\ Mirrors(stack[k], o[k])
  BY DEF Image
<1> HIDE DEF n
<1>5. ASSUME NEW k \in 1 .. n + 1 PROVE Sound(p[k]) /\ Mirrors(t[k], p[k])
  <2>1. CASE k = n + 1
    BY <1>2, <1>3, <2>1
  <2>2. CASE k # n + 1
    <3>1. k \in 1 .. n
      BY <1>1, <2>2
    <3> QED BY <1>2, <1>3, <1>4, <3>1
  <2> QED BY <2>1, <2>2
<1>6. AreContainers(p)
  <2>1. \A k \in 1 .. Len(p) : IsContainer(p[k])
    BY <1>3, <1>5, SoundWaits
  <2> QED BY <1>3, <2>1 DEF AreContainers
<1> QED BY <1>2, <1>3, <1>5, <1>6 DEF Image, t, p

\* The innermost container and its frame are gone.
LEMMA ImagePopped ==
  ASSUME StackInv, stack # <<>>, NEW o, Image(stack, o)
  PROVE  Image(Front(stack), Front(o))
<1> DEFINE t == Front(stack)
           p == Front(o)
           n == Len(o)
<1>1. IsSeq(stack) /\ IsSeq(o) /\ n = Len(stack) /\ n \in Nat /\ o # <<>>
  BY LengthOf, ImageTop DEF StackInv, FramesOK, Image, AreContainers
<1>2. IsSeq(t) /\ Len(t) = n - 1 /\ \A i \in 1 .. n - 1 : t[i] = stack[i]
  BY <1>1, FrontOf
<1>3. IsSeq(p) /\ Len(p) = n - 1 /\ \A i \in 1 .. n - 1 : p[i] = o[i]
  BY <1>1, FrontOf
<1> HIDE DEF t, p
<1>4. \A k \in 1 .. n : Sound(o[k]) /\ Mirrors(stack[k], o[k])
  BY DEF Image
<1> HIDE DEF n
<1>5. ASSUME NEW k \in 1 .. n - 1 PROVE Sound(p[k]) /\ Mirrors(t[k], p[k])
  <2>1. k \in 1 .. n
    BY <1>1
  <2> QED BY <1>2, <1>3, <1>4, <2>1
<1>6. AreContainers(p)
  <2>1. \A k \in 1 .. Len(p) : IsContainer(p[k])
    BY <1>3, <1>5, SoundWaits
  <2> QED BY <1>3, <2>1 DEF AreContainers
<1> QED BY <1>2, <1>3, <1>5, <1>6 DEF Image, t, p

\* The innermost container has an object more, and its frame with it.
LEMMA ImageGrown ==
  ASSUME StackInv, stack # <<>>, NEW o, Image(stack, o), NEW v,
         Sound(Grown(Last(o), v)), NEW f, Mirrors(f, Grown(Last(o), v))
  PROVE  Image(WithTop(f), Put(o, v))
<1> DEFINE t == WithTop(f)
           p == Put(o, v)
           d == Grown(Last(o), v)
           n == Len(o)
<1>1. IsSeq(stack) /\ IsSeq(o) /\ n = Len(stack) /\ n \in Nat /\ o # <<>> /\ AreContainers(o)
  BY LengthOf, ImageTop DEF StackInv, FramesOK, Image, AreContainers
<1>2. IsSeq(t) /\ Len(t) = n /\ t[n] = f /\ \A i \in 1 .. n - 1 : t[i] = stack[i]
  BY <1>1, LastReplaced DEF WithTop
<1>3. AreContainers(p) /\ Len(p) = n /\ p # <<>> /\ Front(p) = Front(o) /\ Last(p) = d
  BY <1>1, PutIs DEF Grown
<1>4. \A k \in 1 .. n : Sound(o[k]) /\ Mirrors(stack[k], o[k])
  BY DEF Image
<1>5. \A i \in 1 .. n - 1 : p[i] = o[i]
  <2>1. IsSeq(p)
    BY <1>3 DEF AreContainers
  <2> HIDE DEF p
  <2>2. \A i \in 1 .. n - 1 : Front(p)[i] = p[i] /\ Front(o)[i] = o[i]
    BY <1>1, <1>3, <2>1, FrontOf
  <2> QED BY <1>3, <2>2
<1>6. p[n] = d
  <2>1. IsSeq(p)
    BY <1>3 DEF AreContainers
  <2> HIDE DEF p, d
  <2> QED BY <1>3, <2>1, LengthOf
<1>7. Sound(d) /\ Mirrors(f, d)
  OBVIOUS
<1> HIDE DEF t, p, d, n
<1>8. ASSUME NEW k \in 1 .. n PROVE Sound(p[k]) /\ Mirrors(t[k], p[k])
  <2>1. CASE k = n
    BY <1>2, <1>6, <1>7, <2>1
  <2>2. CASE k # n
    <3>1. k \in 1 .. n - 1
      BY <1>1, <2>2
    <3> QED BY <1>2, <1>4, <1>5, <3>1
  <2> QED BY <2>1, <2>2
<1>9. Image(t, p)
  BY <1>2, <1>3, <1>8 DEF Image
<1> QED BY <1>9 DEF t, p

\* No container.
LEMMA ImageNone == Image(<<>>, <<>>) /\ Waiting(<<>>) /\ \A n : Bound(<<>>, n)
<1>1. AreContainers(<<>>)
  BY EmptyIsSeq DEF AreContainers
<1> QED BY <1>1, EmptyIsSeq DEF Image, Waiting, Bound

\* More bytes, and fewer containers.
LEMMA BoundMore ==
  ASSUME NEW o, Image(stack, o), NEW n \in Nat, NEW m \in Nat, n <= m, Bound(o, n)
  PROVE  Bound(o, m)
<1> SUFFICES ASSUME NEW k \in 1 .. Len(o) PROVE Len(o[k].seen) <= m
  BY DEF Bound
<1>1. Len(o[k].seen) \in Nat
  BY SoundWaits DEF Image
<1>2. Len(o[k].seen) <= n
  BY DEF Bound
<1> QED BY <1>1, <1>2

\* The innermost container is gone.
LEMMA BoundFront ==
  ASSUME NEW o, AreContainers(o), o # <<>>, NEW n, Bound(o, n)
  PROVE  Bound(Front(o), n)
<1>1. IsSeq(o)
  BY DEF AreContainers
<1>2. /\ Len(Front(o)) = Len(o) - 1 /\ Len(o) \in Nat
      /\ \A i \in 1 .. Len(o) - 1 : Front(o)[i] = o[i]
  BY <1>1, FrontOf, LengthOf
<1> SUFFICES ASSUME NEW k \in 1 .. Len(Front(o)) PROVE Len(Front(o)[k].seen) <= n
  BY DEF Bound
<1>3. k \in 1 .. Len(o) - 1 /\ k \in 1 .. Len(o)
  BY <1>2
<1>4. Len(o[k].seen) <= n /\ Front(o)[k] = o[k]
  BY <1>2, <1>3 DEF Bound
<1> QED BY <1>4

\* A container is opened.
LEMMA BoundPushed ==
  ASSUME NEW o, AreContainers(o), NEW c, c.seen = <<>>, NEW n \in Nat, Bound(o, n)
  PROVE  Bound(Append(o, c), n)
<1> DEFINE p == Append(o, c)
<1>1. IsSeq(o) /\ Len(o) \in Nat
  BY LengthOf DEF AreContainers
<1>2. Len(p) = Len(o) + 1 /\ p[Len(o) + 1] = c /\ \A i \in 1 .. Len(o) : p[i] = o[i]
  BY <1>1, AppendOf
<1> HIDE DEF p
<1>3. ASSUME NEW k \in 1 .. Len(p) PROVE Len(p[k].seen) <= n
  <2>1. CASE k = Len(o) + 1
    <3>1. Len(<<>>) <= n
      BY EmptyIsSeq
    <3> QED BY <1>2, <2>1, <3>1
  <2>2. CASE k # Len(o) + 1
    <3>1. k \in 1 .. Len(o)
      BY <1>1, <1>2, <2>2
    <3>2. Len(o[k].seen) <= n /\ p[k] = o[k]
      BY <1>2, <3>1 DEF Bound
    <3> QED BY <3>2
  <2> QED BY <2>1, <2>2
<1> QED BY <1>3 DEF Bound, p

\* An object goes into the innermost container.
LEMMA BoundPut ==
  ASSUME StackInv, stack # <<>>, NEW o, Image(stack, o), NEW v, NEW n \in Nat, NEW m \in Nat, n < m,
         Bound(o, n)
  PROVE  Bound(Put(o, v), m)
<1> DEFINE p == Put(o, v)
           d == Grown(Last(o), v)
           l == Len(o)
<1>1. IsSeq(o) /\ l \in Nat /\ o # <<>> /\ AreContainers(o)
  BY LengthOf, ImageTop DEF StackInv, FramesOK, Image, AreContainers
<1>2. AreContainers(p) /\ Len(p) = l /\ p # <<>> /\ Front(p) = Front(o) /\ Last(p) = d
  BY <1>1, PutIs DEF Grown
<1>3. Len(d.seen) = Len(Last(o).seen) + 1 /\ Last(o) = o[l] /\ l \in 1 .. l
  BY ImageTop, SoundWaits, GrownIs
<1> HIDE DEF p, d
<1>4. IsSeq(p)
  BY <1>2 DEF AreContainers
<1>5. \A i \in 1 .. l - 1 : Front(p)[i] = p[i] /\ Front(o)[i] = o[i]
  BY <1>1, <1>2, <1>4, FrontOf
<1>6. p[l] = d
  BY <1>2, <1>4, LengthOf
<1>7. \A k \in 1 .. l : Len(o[k].seen) \in Nat /\ Len(o[k].seen) <= n
  BY SoundWaits DEF Image, Bound
<1> HIDE DEF l
<1>8. ASSUME NEW k \in 1 .. l PROVE Len(p[k].seen) <= m
  <2>1. CASE k = l
    <3>1. Len(o[l].seen) + 1 <= m
      BY <1>3, <1>7
    <3>2. Len(p[k].seen) = Len(o[l].seen) + 1
      BY <1>3, <1>6, <2>1
    <3> QED BY <3>1, <3>2
  <2>2. CASE k # l
    <3>1. k \in 1 .. l - 1 /\ k \in 1 .. l
      BY <1>1, <2>2
    <3>2. p[k] = o[k]
      BY <1>2, <1>5, <3>1
    <3>3. Len(o[k].seen) <= m
      BY <1>7, <3>1
    <3> QED BY <3>2, <3>3
  <2> QED BY <2>1, <2>2
<1> QED BY <1>2, <1>8 DEF Bound, p

-----------------------------------------------------------------------------
(* What a call has read of an item, and the bytes it takes *)

\* The bytes of s are read, and an object may come; no container has more
\* objects than there were bytes.
Ahead(s, o) == Ready(s, o, <<>>) /\ Bound(o, Len(s))

\* At the start of an item, whose head byte may be in head_byte.
Before(s, o) ==
  /\ Ahead(s, o) /\ raw.left = 0
  /\ taken = IF head = HEAD_BYTE_REQUIRED THEN s ELSE s \o <<head>>

\* h is the head of a string.
StringHead(h) == HeadFirst(h) /\ Len(h) = 1 + ArgWidth(h[1]) /\ MajorType(h[1]) \in {2, 3}

\* A string of so many bytes lacks left of them behind b.
Lacks(b, left, count) == left = IF count = Huge THEN Huge ELSE count - Len(b)

\* Within a string, of whose body b is there.
InBody(s, h, b, o) ==
  /\ Ahead(s, o) /\ StringHead(h) /\ b \in Seq(Byte) /\ taken = s \o (h \o b)
  /\ raw.left > 0 /\ raw.body = b /\ raw.text = (MajorType(h[1]) = TextString)
  /\ Lacks(b, raw.left, Count(ArgumentAt(h, 1)))

\* An item, or one of its elements, is not there yet.
Midway(o) == (\E s : Before(s, o)) \/ (\E s, h, b : InBody(s, h, b, o))

\* An object is complete that is the item, or goes into the last container.
Done(o) ==
  /\ taken \in Seq(Byte) /\ taken # <<>>
  /\ Reaches(taken, With(At(Len(taken) + 1, o, <<>>), last))
  /\ Bound(o, Len(taken) - 1) /\ Obj(last)
  /\ head = HEAD_BYTE_REQUIRED /\ raw.left = 0

\* A break byte has come.
Broke(o) == raw.left = 0 /\ \E s : Ahead(s, o) /\ taken = s \o <<255>>

Phase(o) == /\ pc.r \in {"start", "yield"} => Midway(o)
            /\ pc.r = "complete" => Done(o)
            /\ pc.r = "break" => Broke(o)

\* A skip has counted frames down, or may have.
Skipping == (pc.op = "skip" \/ within = "skip") /\ (stack # <<>> \/ pc.r \in {"complete", "break"})

\* The stack stands for the containers that the bytes taken are in.
ReadsInv == ~lost /\ ~Skipping => \E o : Image(stack, o) /\ Phase(o)

\* No more bytes than are not told apart.
PendingInv == Len(taken) + Len(unread) <= MaxPending

\* the head and its argument
HeadBytes == <<Ib>> \o SubSeq(AfterHead, 1, ArgWidth(Ib))

\* All bytes are numbers below 256.
LEMMA BytesIn ==
  ASSUME BytesInv
  PROVE  /\ unread \in Seq(Byte) /\ taken \in Seq(Byte)
         /\ HasHead => Ib \in Byte /\ AfterHead \in Seq(Byte)
         /\ HasHead /\ HasArg => AfterArg \in Seq(Byte)
<1>1. unread \in Seq(Byte) /\ taken \in Seq(Byte)
  BY FedIs, SeqMonotonic DEF BytesInv
<1>2. HasHead => Ib \in Byte /\ AfterHead \in Seq(Byte)
  BY HeadFacts, FedIs, SeqMonotonic
<1>3. HasHead /\ HasArg => AfterArg \in Seq(Byte)
  BY ArgFacts, FedIs, SeqMonotonic
<1> QED BY <1>1, <1>2, <1>3

\* The argument is what comes behind the head byte.
LEMMA HeadBytesAre ==
  ASSUME BytesInv, HasHead, HasArg
  PROVE  LET h == HeadBytes
             u == SubSeq(AfterHead, 1, ArgWidth(Ib))
         IN /\ h \in Seq(Byte) /\ h # <<>> /\ h[1] = Ib /\ Len(h) = 1 + ArgWidth(Ib)
            /\ u \in Seq(Byte) /\ h = <<Ib>> \o u /\ AfterHead = u \o AfterArg
            /\ ArgumentAt(h, 1) = Arg
            /\ AI(Ib) < 28 => HeadFirst(h)
<1> DEFINE h == HeadBytes
           w == ArgWidth(Ib)
           u == SubSeq(AfterHead, 1, w)
<1>1. Ib \in Byte /\ AfterHead \in Seq(Byte) /\ Len(AfterHead) \in Nat /\ w \in Nat /\ w <= Len(AfterHead)
  BY BytesIn, WidthAt, LenProperties DEF HasArg
<1>2. AfterArg = SubSeq(AfterHead, w + 1, Len(AfterHead))
  BY DEF AfterArg
<1>3. h = <<Ib>> \o u
  BY DEF HeadBytes
<1>4. <<Ib>> \in Seq(Byte) /\ Len(<<Ib>>) = 1 /\ <<Ib>>[1] = Ib
  BY <1>1, OneByte
<1>5. Arg = IF w = 0 THEN <<AI(Ib)>> ELSE u
  BY DEF Arg, Argument
<1> HIDE DEF w
<1>6. w \in 0 .. Len(AfterHead)
  BY <1>1
<1>7. u \in Seq(Byte) /\ Len(u) = w /\ AfterHead = u \o AfterArg
  BY <1>1, <1>2, <1>6, CutConcat
<1> HIDE DEF u, h
<1>8. IsJoin(<<Ib>>, u, h)
  BY <1>3, <1>4, <1>7, JoinedIs
<1>9. h \in Seq(Byte) /\ Len(h) = 1 + w /\ h[1] = Ib
  BY <1>4, <1>7, <1>8 DEF IsJoin
<1>10. h # <<>>
  <2>1. Len(h) # 0
    BY <1>1, <1>9
  <2> QED BY <2>1, EmptySeq
<1>11. SubSeq(h, 2, Len(h)) = u
  <2>1. SubSeq(<<Ib>> \o u, Len(<<Ib>>) + 1, Len(<<Ib>> \o u)) = u
    BY ONLY <1>4, <1>7, ConcatCut
  <2>2. Len(<<Ib>>) + 1 = 2
    BY <1>4
  <2> QED BY <1>3, <2>1, <2>2
<1>12. ArgumentAt(h, 1) = Arg
  <2>1. ArgAt(h, 1) = SubSeq(h, 2, 1 + w)
    BY <1>9 DEF ArgAt, w
  <2>2. ArgAt(h, 1) = u
    BY <1>9, <1>11, <2>1
  <2>3. ArgumentAt(h, 1) = IF w = 0 THEN <<AI(Ib)>> ELSE SubSeq(u, 1, w)
    BY <1>9, <2>2 DEF ArgumentAt, Argument, w
  <2>4. SubSeq(u, 1, w) = u
    BY <1>7
  <2> QED BY <1>5, <2>3, <2>4
<1>13. AI(Ib) < 28 => HeadFirst(h)
  <2>1. 1 + ArgWidth(h[1]) <= Len(h)
    BY <1>1, <1>9 DEF w
  <2> QED BY <1>9, <1>10, <2>1 DEF HeadFirst
<1> QED BY <1>3, <1>7, <1>9, <1>10, <1>12, <1>13 DEF h, u, w

\* What is taken behind the head byte.
LEMMA TakenBehind ==
  ASSUME BytesInv, HasHead, NEW s, NEW o, Before(s, o),
         NEW u, NEW rest, u \in Seq(Byte), rest \in Seq(Byte), AfterHead = u \o rest, Takes(rest)
  PROVE  taken' = s \o (<<Ib>> \o u) /\ unread' = rest
<1> DEFINE g == SubSeq(unread, 1, Len(unread) - Len(rest))
<1>1. unread' = rest /\ taken' = taken \o g
  BY DEF Takes, Leaves, Gone
<1>2. s \in Seq(Byte) /\ Ib \in Byte /\ unread \in Seq(Byte) /\ <<Ib>> \in Seq(Byte)
  BY BytesIn, OneByte DEF Before, Ahead, Ready
<1>3. CASE head = HEAD_BYTE_REQUIRED
  <2> DEFINE x == <<Ib>> \o u
  <2>1. unread # <<>> /\ Ib = Head(unread) /\ AfterHead = Tail(unread)
    BY <1>3 DEF HasHead, Ib, AfterHead
  <2>2. unread = <<Ib>> \o AfterHead
    BY <1>2, <2>1
  <2>3. x \in Seq(Byte)
    BY <1>2, Joined
  <2>4. unread = x \o rest
    <3>1. unread = <<Ib>> \o (u \o rest)
      BY <2>2
    <3>2. (<<Ib>> \o u) \o rest = <<Ib>> \o (u \o rest)
      BY <1>2, RowAssociative DEF Row
    <3> QED BY <3>1, <3>2
  <2> HIDE DEF x
  <2>5. SubSeq(x \o rest, 1, Len(x)) = x
    BY ONLY <2>3, rest \in Seq(Byte), ConcatCut
  <2>6. Len(unread) - Len(rest) = Len(x)
    <3>1. Len(unread) = Len(x) + Len(rest)
      BY <2>3, <2>4, ConcatProperties
    <3>2. Len(x) \in Nat /\ Len(rest) \in Nat
      BY <2>3, LenProperties
    <3> QED BY <3>1, <3>2
  <2>7. g = x
    BY <2>4, <2>5, <2>6
  <2>8. taken = s
    BY <1>3 DEF Before
  <2> QED BY <1>1, <2>7, <2>8 DEF x
<1>4. CASE head # HEAD_BYTE_REQUIRED
  <2>1. Ib = head /\ AfterHead = unread
    BY <1>4 DEF Ib, AfterHead
  <2>2. unread = u \o rest
    BY <2>1
  <2>3. SubSeq(u \o rest, 1, Len(u)) = u
    BY ONLY u \in Seq(Byte), rest \in Seq(Byte), ConcatCut
  <2>4. Len(unread) - Len(rest) = Len(u)
    <3>1. Len(unread) = Len(u) + Len(rest)
      BY <2>2, ConcatProperties
    <3>2. Len(u) \in Nat /\ Len(rest) \in Nat
      BY LenProperties
    <3> QED BY <3>1, <3>2
  <2>5. g = u
    BY <2>2, <2>3, <2>4
  <2>6. taken = s \o <<Ib>>
    BY <1>4, <2>1 DEF Before
  <2>7. (s \o <<Ib>>) \o u = s \o (<<Ib>> \o u)
    BY <1>2, RowAssociative DEF Row
  <2> QED BY <1>1, <2>5, <2>6, <2>7
<1> QED BY <1>3, <1>4

\* All bytes there are, from the start of the item.
LEMMA AllBytes ==
  ASSUME BytesInv, HasHead, NEW s, NEW o, Before(s, o)
  PROVE  taken \o unread = s \o (<<Ib>> \o AfterHead)
<1>2. s \in Seq(Byte) /\ Ib \in Byte /\ unread \in Seq(Byte) /\ <<Ib>> \in Seq(Byte)
  BY BytesIn, OneByte DEF Before, Ahead, Ready
<1>3. CASE head = HEAD_BYTE_REQUIRED
  <2>1. unread # <<>> /\ Ib = Head(unread) /\ AfterHead = Tail(unread) /\ taken = s
    BY <1>3 DEF HasHead, Ib, AfterHead, Before
  <2>2. unread = <<Ib>> \o AfterHead
    BY <1>2, <2>1
  <2> QED BY <2>1, <2>2
<1>4. CASE head # HEAD_BYTE_REQUIRED
  <2>1. Ib = head /\ AfterHead = unread /\ taken = s \o <<Ib>>
    BY <1>4 DEF Ib, AfterHead, Before
  <2> QED BY <1>2, <2>1, RowAssociative DEF Row
<1> QED BY <1>3, <1>4

\* A head is taken with its argument.
LEMMA HeadGone ==
  ASSUME BytesInv, HasHead, HasArg, NEW s, NEW o, Before(s, o), Takes(AfterArg)
  PROVE  /\ taken' = s \o HeadBytes /\ taken' \in Seq(Byte) /\ taken' # <<>>
         /\ Len(taken') \in Nat /\ Len(s) \in Nat /\ Len(s) <= Len(taken') - 1
<1> DEFINE h == HeadBytes
           u == SubSeq(AfterHead, 1, ArgWidth(Ib))
<1>1. /\ h \in Seq(Byte) /\ h # <<>> /\ u \in Seq(Byte) /\ h = <<Ib>> \o u /\ AfterHead = u \o AfterArg
      /\ AfterArg \in Seq(Byte) /\ s \in Seq(Byte)
  BY HeadBytesAre, BytesIn DEF Before, Ahead, Ready
<1> HIDE DEF u, h
<1>2. taken' = s \o h
  BY <1>1, TakenBehind
<1>3. /\ taken' \in Seq(Byte) /\ Len(taken') = Len(s) + Len(h) /\ Len(s) \in Nat /\ Len(h) \in Nat
      /\ Len(h) > 0 /\ Len(taken') \in Nat
  BY <1>1, <1>2, NextLies
<1>4. taken' # <<>>
  BY <1>3, EmptySeq
<1> QED BY <1>2, <1>3, <1>4 DEF h

\* And with the first bytes behind it.
LEMMA StringGone ==
  ASSUME BytesInv, HasHead, HasArg, NEW s, NEW o, Before(s, o), NEW n \in 0 .. Len(AfterArg),
         Takes(SubSeq(AfterArg, n + 1, Len(AfterArg)))
  PROVE  LET b == SubSeq(AfterArg, 1, n)
         IN taken' = s \o (HeadBytes \o b) /\ b \in Seq(Byte) /\ Len(b) = n
<1> DEFINE h == HeadBytes
           u == SubSeq(AfterHead, 1, ArgWidth(Ib))
           b == SubSeq(AfterArg, 1, n)
           rest == SubSeq(AfterArg, n + 1, Len(AfterArg))
<1>1. /\ h \in Seq(Byte) /\ u \in Seq(Byte) /\ h = <<Ib>> \o u /\ AfterHead = u \o AfterArg
      /\ AfterArg \in Seq(Byte) /\ s \in Seq(Byte) /\ Ib \in Byte
  BY HeadBytesAre, BytesIn DEF Before, Ahead, Ready
<1>2. b \in Seq(Byte) /\ Len(b) = n /\ rest \in Seq(Byte) /\ AfterArg = b \o rest
  BY <1>1, CutConcat
<1> HIDE DEF u, h, b
<1>3. Takes(rest)
  OBVIOUS
<1> HIDE DEF rest
<1>4. AfterHead = (u \o b) \o rest /\ u \o b \in Seq(Byte)
  BY <1>1, <1>2, RowAssociative, RowType DEF Row
<1>5. taken' = s \o (<<Ib>> \o (u \o b))
  BY <1>2, <1>3, <1>4, TakenBehind
<1>6. <<Ib>> \o (u \o b) = h \o b
  BY <1>1, <1>2, OneByte, RowAssociative DEF Row
<1> QED BY <1>2, <1>5, <1>6 DEF h, b

-----------------------------------------------------------------------------
(* The bytes of an item, and what is lost *)

\* Fewer bytes are pending than a count that is not told apart stands for.
LEMMA PendingIs == MaxPending \in Nat /\ MaxPending < Huge /\ Huge \in Nat
  BY PendingAssumption, HugeIs DEF Counted

\* Bytes that leave the buffer are still pending.
LEMMA TakesPending ==
  ASSUME BytesInv, PendingInv, NEW rest \in Seq(Fed), Len(rest) <= Len(unread), Takes(rest)
  PROVE  PendingInv'
<1> DEFINE k == Len(unread) - Len(rest)
           g == SubSeq(unread, 1, k)
<1>1. unread \in Seq(Fed) /\ taken \in Seq(Fed)
  BY DEF BytesInv
<1>2. Len(rest) \in Nat /\ Len(unread) \in Nat /\ Len(taken) \in Nat
  BY <1>1, LenProperties
<1>3. k \in 0 .. Len(unread)
  BY <1>2
<1>4. unread' = rest /\ taken' = taken \o g
  BY DEF Takes, Leaves, Gone
<1>5. g \in Seq(Fed) /\ Len(g) = k
  <2> HIDE DEF k
  <2> QED BY <1>1, <1>3, CutOf
<1> HIDE DEF g, k
<1>6. Len(taken') = Len(taken) + k
  BY <1>1, <1>4, <1>5, ConcatProperties
<1>7. Len(taken') + Len(unread') = Len(taken) + Len(unread)
  BY <1>2, <1>4, <1>6 DEF k
<1> QED BY <1>7 DEF PendingInv

\* A step of a call adds no bytes.
LEMMA StepPending == Inv /\ PendingInv /\ Step => PendingInv'
<1> SUFFICES ASSUME Inv, PendingInv, Step PROVE PendingInv'
  OBVIOUS
<1>1. BytesInv
  BY DEF Inv, TypeInv
<1>2. unread \in Seq(Fed) /\ taken \in Seq(Fed) /\ Len(unread) \in Nat /\ Len(taken) \in Nat
  BY <1>1, LenProperties DEF BytesInv
<1>3. ASSUME HasHead
      PROVE  AfterHead \in Seq(Fed) /\ Len(AfterHead) <= Len(unread) /\ Len(AfterHead) \in Nat
  BY <1>1, <1>3, HeadFacts
<1>4. ASSUME HasHead, HasArg
      PROVE  AfterArg \in Seq(Fed) /\ Len(AfterArg) <= Len(unread) /\ Len(AfterArg) \in Nat
  BY <1>1, <1>3, <1>4, ArgFacts
<1>5. CASE HeadRunsOut
  <2>1. CASE UNCHANGED <<unread, taken>>
    BY <2>1 DEF PendingInv
  <2>2. CASE HasHead /\ Takes(AfterHead)
    BY <1>1, <1>3, <2>2, TakesPending
  <2> QED BY <1>5, <2>1, <2>2 DEF HeadRunsOut
<1>6. CASE AtHead /\ Takes(AfterArg)
  BY <1>1, <1>4, <1>6, TakesPending DEF AtHead
<1>7. CASE WholeString
  <2>1. AtHead /\ Val <= Len(AfterArg) /\ Val > 0 /\ Takes(SubSeq(AfterArg, Val + 1, Len(AfterArg)))
    BY <1>7 DEF WholeString
  <2>2. Val \in 0 .. Len(AfterArg)
    BY <1>1, <2>1, ArgFacts DEF AtHead
  <2> DEFINE rest == SubSeq(AfterArg, Val + 1, Len(AfterArg))
  <2>3. rest \in Seq(Fed) /\ Len(rest) = Len(AfterArg) - Val
    BY <1>4, <2>1, <2>2, CutOf DEF AtHead
  <2>4. Takes(rest)
    BY <2>1
  <2> HIDE DEF rest
  <2>5. Len(rest) <= Len(unread)
    BY <1>2, <1>4, <2>1, <2>2, <2>3 DEF AtHead
  <2> QED BY <1>1, <2>3, <2>4, <2>5, TakesPending
<1>8. CASE SplitString
  <2>1. AtHead /\ Body(MajorType(Ib) = TextString, <<>>, Val, AfterArg)
    BY <1>8 DEF SplitString
  <2>2. Val \in Nat
    BY <1>1, <2>1, ArgFacts DEF AtHead
  <2>3. PICK r \in Seq(Fed) : Len(r) <= Len(AfterArg) /\ Takes(r)
    BY <1>4, <2>1, <2>2, BodyTakes DEF AtHead
  <2>4. Len(r) <= Len(unread)
    <3>1. Len(r) \in Nat
      BY LenProperties
    <3> QED BY <1>2, <1>4, <2>1, <2>3, <3>1 DEF AtHead
  <2> QED BY <1>1, <2>3, <2>4, TakesPending
<1>9. CASE RestOfString
  <2>1. Body(raw.text, raw.body, raw.left, unread)
    BY <1>9 DEF RestOfString
  <2>2. raw.left \in Nat
    BY DEF Inv, TypeInv, ControlInv, IsRaw
  <2>3. PICK r \in Seq(Fed) : Len(r) <= Len(unread) /\ Takes(r)
    BY <1>2, <2>1, <2>2, BodyTakes
  <2> QED BY <1>1, <2>3, TakesPending
<1>10. CASE unread' = unread /\ taken' \in {taken, <<>>}
  <2>1. Len(unread') = Len(unread) /\ (Len(taken') = Len(taken) \/ Len(taken') = 0)
    BY <1>10, EmptySeq
  <2>2. MaxPending \in Nat /\ Len(taken) + Len(unread) <= MaxPending
    BY PendingIs DEF PendingInv
  <2>3. Len(taken') + Len(unread') <= MaxPending
    BY <1>2, <2>1, <2>2
  <2> QED BY <2>3 DEF PendingInv
<1>11. \/ HeadRunsOut
       \/ AtHead /\ Takes(AfterArg)
       \/ WholeString
       \/ SplitString
       \/ RestOfString
       \/ unread' = unread /\ taken' \in {taken, <<>>}
  <2>1. CASE ReadPrimitive
    <3>1. Scalar \/ Open \/ Break \/ Invalid => AtHead /\ Takes(AfterArg)
      BY DEF Scalar, Open, Break, Invalid
    <3> QED BY <2>1, <3>1 DEF ReadPrimitive
  <2>2. CASE Finish
    BY <2>2 DEF Finish, Delivers
  <2>3. CASE CountedElement \/ IndefiniteElement \/ StringChunk
    BY <2>3 DEF CountedElement, IndefiniteElement, StringChunk
  <2>4. CASE TaggedObject \/ BreakByte \/ SkippedElement
    BY <2>4 DEF TaggedObject, BreakByte, SkippedElement
  <2> QED BY <2>1, <2>2, <2>3, <2>4 DEF Step
<1> QED BY <1>5, <1>6, <1>7, <1>8, <1>9, <1>10, <1>11

\* Nothing is read at the start.
LEMMA AheadNone == Ahead(<<>>, <<>>)
<1>1. <<>> \in Seq(Byte) /\ Len(<<>>) + 1 = 1
  BY EmptySeq
<1>2. Reaches(<<>>, At(1, <<>>, <<>>))
  BY <1>1, ReachesStart
<1> QED BY <1>1, <1>2, ImageNone DEF Ready, Ahead

\* An unpacker that is new, or has delivered an item, has read nothing.
LEMMA FreshReads ==
  ASSUME Inv', BreaksEnd, taken' = <<>>, pc'.r \in {"start", "yield"}
  PROVE  ReadsInv'
<1> SUFFICES ASSUME ~lost' PROVE \E o : Image(stack', o) /\ Phase(o)'
  BY DEF ReadsInv
<1>1. head' = HEAD_BYTE_REQUIRED /\ stack' = <<>>
  BY DEF Inv, ResidueInv
<1>2. raw'.left = 0
  <2>1. raw'.left \in Nat /\ (raw'.left > 0 => MajorType(head') \in {ByteString, TextString})
    BY DEF Inv, TypeInv, ControlInv, IsRaw, StringInv
  <2>2. MajorType(223) = 6
    BY DEF MajorType
  <2> QED BY <1>1, <2>1, <2>2 DEF HEAD_BYTE_REQUIRED, IB_UNUSED, ByteString, TextString
<1>3. Before(<<>>, <<>>)'
  BY <1>1, <1>2, AheadNone DEF Before
<1>4. Phase(<<>>)'
  BY <1>3 DEF Phase, Midway
<1> QED BY <1>1, <1>4, ImageNone

\* How a step of read_primitive leaves the call.
LEMMA PrimitiveEnds ==
  ASSUME ReadPrimitive
  PROVE  /\ pc.r = "start"
         /\ \/ RunsOut /\ stack' = stack
            \/ \E r : Raises(r)
            \/ Continues("complete") \/ Continues("break")
            \/ Continues("start") /\ stack' = Append(stack, OpenedFrame)
<1>1. CASE HeadRunsOut
  BY <1>1 DEF HeadRunsOut, AtPrimitive
<1>2. CASE Scalar
  BY <1>2 DEF Scalar, AtHead, AtPrimitive
<1>3. CASE WholeString
  BY <1>3 DEF WholeString, AtHead, AtPrimitive
<1>4. CASE SplitString
  BY <1>4 DEF SplitString, Body, AtHead, AtPrimitive
<1>5. CASE RestOfString
  BY <1>5 DEF RestOfString, Body, AtPrimitive
<1>6. CASE Open
  BY <1>6 DEF Open, AtHead, AtPrimitive
<1>7. CASE Break \/ Invalid
  BY <1>7 DEF Break, Invalid, AtHead, AtPrimitive
<1> QED BY <1>1, <1>2, <1>3, <1>4, <1>5, <1>6, <1>7 DEF ReadPrimitive

\* And how a step that takes no bytes does.
LEMMA OtherEnds ==
  ASSUME Step, ~ReadPrimitive
  PROVE  /\ pc.r \in {"complete", "break"}
         /\ \/ \E v : Delivers(v)
            \/ \E r : Raises(r)
            \/ Continues("complete")
            \/ Continues("start") /\ stack # <<>> /\ \E f : stack' = WithTop(f)
<1>1. CASE Finish
  BY <1>1 DEF Finish, Completed
<1>2. CASE CountedElement
  BY <1>2 DEF CountedElement, Pops, Completed
<1>3. CASE IndefiniteElement \/ StringChunk
  BY <1>3 DEF IndefiniteElement, StringChunk, Completed
<1>4. CASE TaggedObject \/ BreakByte
  BY <1>4 DEF TaggedObject, BreakByte, Pops, Completed
<1>5. CASE SkippedElement
  BY <1>5 DEF SkippedElement, Pops, Completed
<1> QED BY <1>1, <1>2, <1>3, <1>4, <1>5 DEF Step

\* An unpacker that lost its place has lost it, and one that skips a container
\* goes on skipping to its end.
LEMMA SkippingStays ==
  ASSUME Inv, BreaksEnd, Step, Inv', lost \/ Skipping
  PROVE  ReadsInv'
<1>1. ControlInv /\ ControlInv' /\ IsSeq(stack)
  BY DEF Inv, TypeInv, StackInv, FramesOK
<1>2. CASE \E v : Delivers(v)
  BY <1>1, <1>2, DeliversIs, FreshReads DEF Ended
<1>3. CASE \E r : Raises(r)
  BY <1>3 DEF Raises, ReadsInv
<1>4. CASE lost /\ (RunsOut \/ \E r : Continues(r))
  <2>1. lost'
    BY <1>4 DEF RunsOut, Continues
  <2> QED BY <2>1 DEF ReadsInv
<1>5. CASE Skipping /\ RunsOut /\ stack' = stack /\ pc.r = "start"
  <2>1. stack # <<>> /\ (pc.op = "skip" \/ within = "skip")
    BY <1>5 DEF Skipping
  <2>2. within' = "skip"
    BY <1>5, <2>1 DEF RunsOut
  <2> QED BY <1>5, <2>1, <2>2 DEF Skipping, ReadsInv
<1>6. CASE Skipping /\ \E r \in {"complete", "break"} : Continues(r)
  <2>1. pc'.op = pc.op /\ pc'.r \in {"complete", "break"} /\ within' = within
    BY <1>1, <1>6, ContinuesIs DEF Ends
  <2> QED BY <1>6, <2>1 DEF Skipping, ReadsInv
<1>7. CASE Skipping /\ Continues("start") /\ stack' # <<>>
  <2>1. pc'.op = pc.op /\ within' = within
    BY <1>1, <1>7, ContinuesIs DEF Ends
  <2> QED BY <1>7, <2>1 DEF Skipping, ReadsInv
<1>8. Append(stack, OpenedFrame) # <<>>
  BY <1>1, AppendedIs
<1>9. ASSUME stack # <<>>, NEW f, stack' = WithTop(f) PROVE stack' # <<>>
  <2>1. IsSeq(stack') /\ Len(stack') = Len(stack)
    BY <1>1, <1>9, LastReplaced DEF WithTop
  <2> QED BY <1>1, <1>9, <2>1, LengthOf
<1>10. CASE ReadPrimitive
  BY <1>2, <1>3, <1>4, <1>5, <1>6, <1>7, <1>8, <1>10, PrimitiveEnds
<1>11. CASE ~ReadPrimitive
  BY <1>2, <1>3, <1>4, <1>6, <1>7, <1>9, <1>11, OtherEnds
<1> QED BY <1>10, <1>11

-----------------------------------------------------------------------------
(* read_primitive completes an object *)

\* The bytes z end with an object that is v, and goes into the last container.
Comes(z, o, v) == Reaches(z, With(At(Len(z) + 1, o, <<>>), v)) /\ Obj(v)

\* No integer and no simple value is a string.
LEMMA PlainIs ==
  ASSUME NEW ai, NEW arg, NEW negative
  PROVE  Obj(SimpleValue(ai, arg)) /\ Obj(Integer(negative, arg))
<1>1. SimpleValue(ai, arg)[1] # "str"
  <2>1. <<"bool", FALSE>>[1] = "bool" /\ <<"bool", TRUE>>[1] = "bool" /\ Nil[1] = "nil"
    BY DEF Nil
  <2>2. <<"float", Float(arg)>>[1] = "float" /\ <<"simple", BigEndian(arg)>>[1] = "simple"
    OBVIOUS
  <2> QED BY <2>1, <2>2 DEF SimpleValue
<1>2. Integer(negative, arg)[1] # "str"
  BY DEF Integer
<1> QED BY <1>1, <1>2 DEF Obj

\* A head that is an object on its own.
LEMMA ScalarComes ==
  ASSUME NEW s, NEW h, NEW o, Ready(s, o, <<>>), HeadFirst(h), Len(h) = 1 + ArgWidth(h[1]),
         NEW v, MajorType(h[1]) \in {0, 1, 7},
         MajorType(h[1]) = 0 => v = Plus(ArgumentAt(h, 1)),
         MajorType(h[1]) = 1 => v = Minus(ArgumentAt(h, 1)),
         MajorType(h[1]) = 7 => v = SimpleValue(AI(h[1]), ArgumentAt(h, 1))
  PROVE  Comes(s \o h, o, v)
<1>1. Obj(v)
  <2>1. Obj(Plus(ArgumentAt(h, 1))) /\ Obj(Minus(ArgumentAt(h, 1)))
    BY PlainIs DEF Plus, Minus
  <2>2. Obj(SimpleValue(AI(h[1]), ArgumentAt(h, 1)))
    BY PlainIs
  <2> QED BY <2>1, <2>2
<1>2. Reaches(s \o h, With(At(Len(s \o h) + 1, o, <<>>), v))
  BY ReadsScalar
<1> QED BY <1>1, <1>2 DEF Comes

\* A string and its body.
LEMMA StringComes ==
  ASSUME NEW s, NEW h, NEW b, NEW o, Ready(s, o, <<>>), StringHead(h),
         b \in Seq(Byte), Count(ArgumentAt(h, 1)) = Len(b)
  PROVE  Comes(s \o (h \o b), o, StrOf(MajorType(h[1]), b))
<1>1. Reaches(s \o (h \o b), With(At(Len(s \o (h \o b)) + 1, o, <<>>), StrOf(MajorType(h[1]), b)))
  BY ReadsString DEF StringHead
<1>2. Obj(StrOf(MajorType(h[1]), b))
  BY StrIs DEF StrOf
<1> QED BY <1>1, <1>2 DEF Comes

\* A string without a body.
LEMMA EmptyStringComes ==
  ASSUME NEW s, NEW h, NEW o, Ready(s, o, <<>>), StringHead(h), Count(ArgumentAt(h, 1)) = 0,
         NEW v, v = StrOf(MajorType(h[1]), <<>>)
  PROVE  Comes(s \o h, o, v)
<1>1. <<>> \in Seq(Byte) /\ Len(<<>>) = 0
  BY EmptySeq
<1>2. h \o <<>> = h
  BY ConcatEmptySeq DEF StringHead, HeadFirst
<1> QED BY <1>1, <1>2, StringComes

\* An array or a map of no elements.
LEMMA EmptyComes ==
  ASSUME NEW s, NEW h, NEW o, Ready(s, o, <<>>), HeadFirst(h), Len(h) = 1 + ArgWidth(h[1]),
         Count(ArgumentAt(h, 1)) = 0, MajorType(h[1]) \in {4, 5}, h[1] # 187,
         NEW v, v = IF MajorType(h[1]) = 4 THEN <<"array", <<>>>> ELSE <<"hash", <<>>>>
  PROVE  Comes(s \o h, o, v)
<1> DEFINE z == s \o h
           c == Container(MajorType(h[1]), 0, 0)
           t == Append(o, c)
           k == Len(z) + 1
<1>1. s \in Seq(Byte) /\ h \in Seq(Byte)
  BY DEF Ready, HeadFirst
<1>2. z \in Seq(Byte)
  BY <1>1, ConcatProperties
<1>3. c.type = MajorType(h[1]) /\ c.seen = <<>> /\ c.need = 0
  BY DEF Container
<1>4. Reaches(z, At(k, t, <<>>))
  <2>1. MajorType(h[1]) = 5 => c = Container(5, 2 * Count(ArgumentAt(h, 1)), 0)
    OBVIOUS
  <2>2. MajorType(h[1]) = 4 => c = Container(4, Count(ArgumentAt(h, 1)), 0)
    OBVIOUS
  <2> HIDE DEF c
  <2> QED BY <2>1, <2>2, ReadsHead
<1>5. IsSeq(o)
  <2>1. Reaches(s, At(Len(s) + 1, o, <<>>))
    BY DEF Ready
  <2> QED BY <2>1, ReadyIs DEF AreContainers
<1> HIDE DEF c
<1>6. Last(t) = c /\ Front(t) = o /\ t # <<>>
  BY <1>5, AppendedIs
<1>7. ~Waiting(t)
  <2>1. Len(<<>>) = 0
    BY EmptySeq
  <2> QED BY <1>3, <1>6, <2>1 DEF Waiting, IsFull
<1> HIDE DEF t
<1>8. Reaches(z, With(At(k, o, <<>>), ObjectOf(c)))
  <2> HIDE DEF z, k
  <2> QED BY <1>2, <1>4, <1>6, <1>7, ReadsEnd
<1>9. ObjectOf(c) = v
  <2>1. ASSUME MajorType(h[1]) = 4 PROVE ObjectOf(c) = <<"array", c.seen>>
    <3>1. c.type \notin {ByteString, TextString} /\ c.type = ArrayType /\ c.type # MapType /\ c.type # TagType
      BY <1>3, <2>1 DEF ByteString, TextString, ArrayType, MapType, TagType
    <3> QED BY <3>1, Zenon DEF ObjectOf
  <2>2. ASSUME MajorType(h[1]) = 5 PROVE ObjectOf(c) = <<"hash", Pairs(c.seen)>>
    <3>1. c.type \notin {ByteString, TextString} /\ c.type # ArrayType /\ c.type = MapType /\ c.type # TagType
      BY <1>3, <2>2 DEF ByteString, TextString, ArrayType, MapType, TagType
    <3> QED BY <3>1, Zenon DEF ObjectOf
  <2> QED BY <1>3, <2>1, <2>2, ChunksNone
<1>10. Obj(v)
  BY DEF Obj
<1> QED BY <1>8, <1>9, <1>10 DEF Comes

\* At a head the unpacker is at the start of an item or of an element.
LEMMA AtHeadIs ==
  ASSUME NEW o, Midway(o), raw.left = 0
  PROVE  \E s : Before(s, o)
BY DEF Midway, InBody

\* A step that completes the object that has come.
LEMMA Completes ==
  ASSUME NEW s, NEW o, Image(stack, o), Bound(o, Len(s)), Len(s) \in Nat, Len(taken') \in Nat,
         Len(s) <= Len(taken') - 1, taken' \in Seq(Byte), taken' # <<>>,
         NEW v, ObjectComplete(v), Comes(taken', o, v), raw'.left = 0
  PROVE  Done(o)'
<1>1. Bound(o, Len(taken') - 1)
  <2>1. Len(taken') - 1 \in Nat
    OBVIOUS
  <2> QED BY <2>1, BoundMore
<1> QED BY <1>1 DEF Done, Comes, ObjectComplete

\* Integers, simple values, floats, and strings and containers of length 0.
LEMMA ScalarReads ==
  ASSUME BytesInv, Ib # 187, NEW o, Image(stack, o), Midway(o), Scalar
  PROVE  Done(o)'
<1>0. AtHead /\ Takes(AfterArg) /\ raw' = raw /\ raw.left = 0 /\ HasHead /\ HasArg
  BY DEF Scalar, AtHead
<1>1. PICK s : Before(s, o)
  BY <1>0, AtHeadIs
<1> DEFINE h == HeadBytes
<1>2. /\ h[1] = Ib /\ Len(h) = 1 + ArgWidth(h[1]) /\ ArgumentAt(h, 1) = Arg
      /\ AI(Ib) < 28 => HeadFirst(h)
  BY <1>0, HeadBytesAre
<1>3. /\ taken' = s \o h /\ taken' \in Seq(Byte) /\ taken' # <<>>
      /\ Len(taken') \in Nat /\ Len(s) \in Nat /\ Len(s) <= Len(taken') - 1
  BY <1>0, <1>1, HeadGone
<1>4. Ready(s, o, <<>>) /\ Bound(o, Len(s))
  BY <1>1 DEF Before, Ahead
<1>5. ASSUME NEW v, ObjectComplete(v), Comes(s \o h, o, v) PROVE Done(o)'
  <2> HIDE DEF h
  <2> QED BY <1>0, <1>3, <1>4, <1>5, Completes
<1>6. ASSUME NEW type, Is(type, Definite) PROVE MajorType(h[1]) = type /\ HeadFirst(h)
  <2>1. AI(Ib) \in 0 .. 27 /\ MajorType(Ib) = type
    BY <1>6 DEF Is, Definite
  <2> QED BY <1>2, <2>1
<1> HIDE DEF h
<1>7. CASE Is(Unsigned, Definite) /\ ObjectComplete(Integer(FALSE, Arg))
  <2>1. MajorType(h[1]) = 0 /\ HeadFirst(h)
    BY <1>6, <1>7 DEF Unsigned
  <2>2. ASSUME NEW v, v = Plus(ArgumentAt(h, 1)) PROVE Comes(s \o h, o, v)
    <3>1. MajorType(h[1]) \in {0, 1, 7} /\ MajorType(h[1]) # 1 /\ MajorType(h[1]) # 7
      BY <2>1
    <3> QED BY <1>2, <1>4, <2>1, <2>2, <3>1, ScalarComes
  <2>3. ASSUME NEW v, v = Plus(Arg), ObjectComplete(v)
        PROVE  Done(o)'
    BY <1>2, <1>5, <2>2, <2>3
  <2> QED BY <1>7, <2>3 DEF Plus
<1>8. CASE Is(Negative, Definite) /\ ObjectComplete(Integer(TRUE, Arg))
  <2>1. MajorType(h[1]) = 1 /\ HeadFirst(h)
    BY <1>6, <1>8 DEF Negative
  <2>2. ASSUME NEW v, v = Minus(ArgumentAt(h, 1)) PROVE Comes(s \o h, o, v)
    <3>1. MajorType(h[1]) \in {0, 1, 7} /\ MajorType(h[1]) # 0 /\ MajorType(h[1]) # 7
      BY <2>1
    <3> QED BY <1>2, <1>4, <2>1, <2>2, <3>1, ScalarComes
  <2>3. ASSUME NEW v, v = Minus(Arg), ObjectComplete(v)
        PROVE  Done(o)'
    BY <1>2, <1>5, <2>2, <2>3
  <2> QED BY <1>8, <2>3 DEF Minus
<1>9. CASE Is(Prim, Definite) /\ ObjectComplete(SimpleValue(AI(Ib), Arg))
  <2>1. MajorType(h[1]) = 7 /\ HeadFirst(h)
    BY <1>6, <1>9 DEF Prim
  <2>2. ASSUME NEW v, v = SimpleValue(AI(h[1]), ArgumentAt(h, 1)) PROVE Comes(s \o h, o, v)
    <3>1. MajorType(h[1]) \in {0, 1, 7} /\ MajorType(h[1]) # 0 /\ MajorType(h[1]) # 1
      BY <2>1
    <3> QED BY <1>2, <1>4, <2>1, <2>2, <3>1, ScalarComes
  <2>3. ASSUME NEW v, v = SimpleValue(AI(Ib), Arg), ObjectComplete(v)
        PROVE  Done(o)'
    BY <1>2, <1>5, <2>2, <2>3
  <2> QED BY <1>9, <2>3
<1>10. CASE Is(ByteString, Definite) /\ Val = 0 /\ ObjectComplete(Str(FALSE, <<>>))
  <2>1. MajorType(h[1]) = 2 /\ HeadFirst(h)
    BY <1>6, <1>10 DEF ByteString
  <2>2. StringHead(h)
    BY <1>2, <2>1 DEF StringHead
  <2>3. StrOf(MajorType(h[1]), <<>>) = Str(FALSE, <<>>)
    <3>1. (MajorType(h[1]) = TextString) = FALSE
      BY <2>1 DEF TextString
    <3> QED BY <3>1 DEF StrOf
  <2>4. Count(ArgumentAt(h, 1)) = 0
    BY <1>2, <1>10 DEF Val
  <2> QED BY <1>4, <1>5, <1>10, <2>2, <2>3, <2>4, EmptyStringComes
<1>11. CASE Is(TextString, Definite) /\ Val = 0 /\ ObjectComplete(Str(TRUE, <<>>))
  <2>1. MajorType(h[1]) = 3 /\ HeadFirst(h)
    BY <1>6, <1>11 DEF TextString
  <2>2. StringHead(h)
    BY <1>2, <2>1 DEF StringHead
  <2>3. StrOf(MajorType(h[1]), <<>>) = Str(TRUE, <<>>)
    <3>1. (MajorType(h[1]) = TextString) = TRUE
      BY <2>1 DEF TextString
    <3> QED BY <3>1 DEF StrOf
  <2>4. Count(ArgumentAt(h, 1)) = 0
    BY <1>2, <1>11 DEF Val
  <2> QED BY <1>4, <1>5, <1>11, <2>2, <2>3, <2>4, EmptyStringComes
<1>12. CASE Is(ArrayType, Definite) /\ Val = 0 /\ ObjectComplete(<<"array", <<>>>>)
  <2>1. MajorType(h[1]) = 4 /\ HeadFirst(h) /\ Count(ArgumentAt(h, 1)) = 0 /\ h[1] # 187
    BY <1>2, <1>6, <1>12 DEF ArrayType, Val
  <2> QED BY <1>2, <1>4, <1>5, <1>12, <2>1, EmptyComes
<1>13. CASE Is(MapType, Definite) /\ Val = 0 /\ ObjectComplete(<<"hash", <<>>>>)
  <2>1. MajorType(h[1]) = 5 /\ HeadFirst(h) /\ Count(ArgumentAt(h, 1)) = 0 /\ h[1] # 187
    BY <1>2, <1>6, <1>13 DEF MapType, Val
  <2> QED BY <1>2, <1>4, <1>5, <1>13, <2>1, EmptyComes
<1> QED BY <1>7, <1>8, <1>9, <1>10, <1>11, <1>12, <1>13 DEF Scalar

-----------------------------------------------------------------------------
(* The bytes of strings *)

\* The head of a string is taken.
LEMMA StringHeadIs ==
  ASSUME BytesInv, HasHead, HasArg, Is(ByteString, Definite) \/ Is(TextString, Definite)
  PROVE  /\ StringHead(HeadBytes) /\ HeadBytes[1] = Ib
         /\ Count(ArgumentAt(HeadBytes, 1)) = Val
<1> DEFINE h == HeadBytes
<1>1. /\ h[1] = Ib /\ Len(h) = 1 + ArgWidth(Ib) /\ ArgumentAt(h, 1) = Arg
      /\ AI(Ib) < 28 => HeadFirst(h)
  BY HeadBytesAre
<1> HIDE DEF h
<1>2. AI(Ib) \in 0 .. 27 /\ MajorType(Ib) \in {2, 3}
  BY DEF Is, Definite, ByteString, TextString
<1> QED BY <1>1, <1>2 DEF StringHead, Val, h

\* Bytes behind others.
LEMMA Lengthened ==
  ASSUME NEW s, NEW h, NEW b, s \in Seq(Byte), StringHead(h), b \in Seq(Byte)
  PROVE  LET z == s \o (h \o b)
         IN /\ z \in Seq(Byte) /\ z # <<>> /\ Len(z) \in Nat /\ Len(s) \in Nat /\ Len(b) \in Nat
            /\ Len(s) <= Len(z) - 1 /\ Len(b) <= Len(z)
<1> DEFINE x == h \o b
<1>1. h \in Seq(Byte) /\ h # <<>>
  BY DEF StringHead, HeadFirst
<1>2. x \in Seq(Byte) /\ Len(x) = Len(h) + Len(b)
  BY <1>1, ConcatProperties
<1>3. Len(h) \in Nat /\ Len(b) \in Nat /\ Len(h) > 0 /\ Len(<<>>) = 0
  BY <1>1, LenProperties, EmptySeq
<1>4. x # <<>>
  BY <1>2, <1>3
<1> HIDE DEF x
<1>5. LET z == s \o x
      IN /\ z \in Seq(Byte) /\ Len(z) = Len(s) + Len(x)
         /\ Len(s) \in Nat /\ Len(x) \in Nat /\ Len(x) > 0 /\ Len(z) \in Nat
  BY <1>2, <1>4, NextLies
<1> DEFINE z == s \o x
<1>6. z \in Seq(Byte) /\ Len(z) = Len(s) + Len(x) /\ Len(s) \in Nat /\ Len(x) > 0 /\ Len(z) \in Nat
  BY <1>5
<1> HIDE DEF z
<1>7. z # <<>> /\ Len(s) <= Len(z) - 1 /\ Len(b) <= Len(z)
  BY <1>2, <1>3, <1>6
<1> QED BY <1>3, <1>6, <1>7 DEF x, z

\* All of a string comes at once.
LEMMA WholeStringReads ==
  ASSUME ~SymbolizeKeys, BytesInv, NEW o, Image(stack, o), Midway(o), WholeString
  PROVE  Done(o)'
<1>0. /\ AtHead /\ raw' = raw /\ raw.left = 0 /\ HasHead /\ HasArg
      /\ Is(ByteString, Definite) \/ Is(TextString, Definite)
      /\ Val > 0 /\ Val <= Len(AfterArg)
      /\ Takes(SubSeq(AfterArg, Val + 1, Len(AfterArg)))
      /\ ObjectComplete(Str(MajorType(Ib) = TextString, SubSeq(AfterArg, 1, Val)))
  BY DEF WholeString, AtHead
<1>1. PICK s : Before(s, o)
  BY <1>0, AtHeadIs
<1>2. Val \in 0 .. Len(AfterArg)
  BY <1>0, ArgFacts
<1> DEFINE h == HeadBytes
           b == SubSeq(AfterArg, 1, Val)
<1>3. taken' = s \o (h \o b) /\ b \in Seq(Byte) /\ Len(b) = Val
  BY <1>0, <1>1, <1>2, StringGone
<1>4. StringHead(h) /\ h[1] = Ib /\ Count(ArgumentAt(h, 1)) = Val
  BY <1>0, StringHeadIs
<1>5. Ready(s, o, <<>>) /\ Bound(o, Len(s)) /\ s \in Seq(Byte)
  BY <1>1 DEF Before, Ahead, Ready
<1> DEFINE v == StrOf(MajorType(Ib), b)
<1>6. ObjectComplete(v)
  BY <1>0 DEF StrOf
<1> HIDE DEF h, b, v
<1>7. Comes(s \o (h \o b), o, v)
  BY <1>3, <1>4, <1>5, StringComes DEF v
<1>8. LET z == s \o (h \o b)
      IN /\ z \in Seq(Byte) /\ z # <<>> /\ Len(z) \in Nat /\ Len(s) \in Nat
         /\ Len(s) <= Len(z) - 1
  BY <1>3, <1>4, <1>5, Lengthened
<1> QED BY <1>0, <1>3, <1>5, <1>6, <1>7, <1>8, Completes

\* How many bytes a string has, by its head.
LEMMA StringCount ==
  ASSUME NEW h, StringHead(h)
  PROVE  LET count == Count(ArgumentAt(h, 1))
         IN /\ count \in Nat /\ (count < Counted \/ count = Huge)
            /\ Counted \in Nat /\ Counted < Huge /\ Huge \in Nat
<1>1. ArgumentAt(h, 1) \in Seq(Byte)
  <2>1. HeadAt(h, 1) /\ h \in Seq(Byte)
    BY LenProperties DEF StringHead, HeadFirst, HeadAt
  <2> QED BY <2>1, ArgumentType
<1>2. Counted \in Nat /\ Counted < Huge /\ Huge \in Nat
  BY HugeIs DEF Counted
<1> QED BY <1>1, <1>2, CountIs

\* The bytes that a step takes follow b.
TakesBehind(s, h, b, rest) ==
  \A n \in 0 .. Len(rest) :
    Takes(SubSeq(rest, n + 1, Len(rest))) => taken' = s \o (h \o (b \o SubSeq(rest, 1, n)))

\* All bytes of a string, or as many as there are.
LEMMA BodyReads ==
  ASSUME NEW s, NEW h, NEW b, NEW o, Image(stack, o), Ahead(s, o), StringHead(h), b \in Seq(Byte),
         NEW text, text = (MajorType(h[1]) = TextString), NEW left \in Nat, left > 0,
         Lacks(b, left, Count(ArgumentAt(h, 1))), NEW rest \in Seq(Byte),
         Body(text, b, left, rest), TakesBehind(s, h, b, rest), PendingInv', unread' \in Seq(Byte)
  PROVE  /\ stack' = stack
         /\ (Continues("complete") /\ Done(o)') \/ (RunsOut /\ Midway(o)')
<1> DEFINE n == IF left <= Len(rest) THEN left ELSE Len(rest)
           cut == SubSeq(rest, 1, n)
           bytes == b \o cut
           count == Count(ArgumentAt(h, 1))
<1>1. /\ Takes(SubSeq(rest, n + 1, Len(rest))) /\ stack' = stack
      /\ \/ /\ n = left
            /\ ObjectComplete(Str(text, bytes)) /\ raw' = NoRaw /\ Continues("complete")
         \/ /\ n < left
            /\ raw' = [open |-> TRUE, body |-> bytes, left |-> LeftAfter(left, n), text |-> text]
            /\ RunsOut
  BY DEF Body
<1>2. Len(rest) \in Nat
  BY LenProperties
<1>3. n \in 0 .. Len(rest) /\ n <= left
  BY <1>2
<1> HIDE DEF n
<1>4. taken' = s \o (h \o bytes)
  BY <1>1, <1>3 DEF TakesBehind
<1>5. cut \in Seq(Byte) /\ Len(cut) = n
  BY <1>3, CutOf
<1> HIDE DEF cut
<1>6. bytes \in Seq(Byte) /\ Len(bytes) = Len(b) + n /\ Len(b) \in Nat
  BY <1>5, ConcatProperties, LenProperties
<1> HIDE DEF bytes
<1>7. Ready(s, o, <<>>) /\ Bound(o, Len(s)) /\ s \in Seq(Byte)
  BY DEF Ahead, Ready
<1>8. LET z == s \o (h \o bytes)
      IN /\ z \in Seq(Byte) /\ z # <<>> /\ Len(z) \in Nat /\ Len(s) \in Nat
         /\ Len(s) <= Len(z) - 1 /\ Len(bytes) <= Len(z)
  BY <1>6, <1>7, Lengthened
<1>9. Len(bytes) < Huge
  <2>1. Len(unread') \in Nat /\ MaxPending \in Nat /\ MaxPending < Huge /\ Huge \in Nat
    BY PendingIs, LenProperties
  <2>2. Len(taken') + Len(unread') <= MaxPending
    BY DEF PendingInv
  <2>3. Len(taken') \in Nat /\ Len(bytes) <= Len(taken') /\ Len(bytes) \in Nat
    BY <1>4, <1>6, <1>8, LenProperties
  <2> QED BY <2>1, <2>2, <2>3
<1>10. count \in Nat /\ (count < Counted \/ count = Huge) /\ Counted \in Nat /\ Counted < Huge /\ Huge \in Nat
  BY StringCount
<1> HIDE DEF count
<1>11. left = IF count = Huge THEN Huge ELSE count - Len(b)
  BY DEF Lacks, count
<1>12. CASE n = left
  <2>1. count = Len(bytes)
    BY <1>3, <1>6, <1>9, <1>10, <1>11, <1>12
  <2>2. ObjectComplete(Str(text, bytes)) /\ raw' = NoRaw /\ Continues("complete")
    BY <1>1, <1>3, <1>12
  <2>3. raw'.left = 0
    BY <2>2 DEF NoRaw
  <2>4. Comes(s \o (h \o bytes), o, StrOf(MajorType(h[1]), bytes))
    BY <1>6, <1>7, <2>1, StringComes DEF count
  <2>5. Str(text, bytes) = StrOf(MajorType(h[1]), bytes)
    BY DEF StrOf
  <2>6. Done(o)'
    BY <1>4, <1>7, <1>8, <2>2, <2>3, <2>4, <2>5, Completes
  <2> QED BY <1>1, <2>2, <2>6
<1>13. CASE n < left
  <2>1. RunsOut /\ raw' = [open |-> TRUE, body |-> bytes, left |-> LeftAfter(left, n), text |-> text]
    BY <1>1, <1>3, <1>13
  <2>2. raw'.body = bytes /\ raw'.left = LeftAfter(left, n) /\ raw'.text = text
    BY <2>1
  <2>3. LeftAfter(left, n) > 0 /\ Lacks(bytes, LeftAfter(left, n), count)
    BY <1>3, <1>6, <1>10, <1>11, <1>13 DEF LeftAfter, Lacks
  <2>4. InBody(s, h, bytes, o)'
    BY <1>4, <1>6, <2>2, <2>3 DEF InBody, count
  <2> QED BY <1>1, <2>1, <2>4 DEF Midway
<1> QED BY <1>1, <1>12, <1>13

\* A string whose bytes come in more than one chunk, or not all at once.
LEMMA SplitStringReads ==
  ASSUME Inv, PendingInv', NEW o, Image(stack, o), Midway(o), SplitString, unread' \in Seq(Byte)
  PROVE  /\ stack' = stack
         /\ (Continues("complete") /\ Done(o)') \/ (RunsOut /\ Midway(o)')
<1>0. /\ AtHead /\ raw.left = 0 /\ HasHead /\ HasArg /\ BytesInv
      /\ Is(ByteString, Definite) \/ Is(TextString, Definite)
      /\ Val > 0 /\ Body(MajorType(Ib) = TextString, <<>>, Val, AfterArg)
  BY DEF SplitString, AtHead, Inv, TypeInv
<1>1. PICK s : Before(s, o)
  BY <1>0, AtHeadIs
<1>2. Val \in Nat /\ AfterArg \in Seq(Byte) /\ Len(AfterArg) \in Nat
  BY <1>0, ArgFacts, BytesIn
<1> DEFINE h == HeadBytes
           text == MajorType(Ib) = TextString
<1>3. TakesBehind(s, h, <<>>, AfterArg)
  <2> SUFFICES ASSUME NEW n \in 0 .. Len(AfterArg), Takes(SubSeq(AfterArg, n + 1, Len(AfterArg)))
               PROVE  taken' = s \o (h \o (<<>> \o SubSeq(AfterArg, 1, n)))
    BY DEF TakesBehind
  <2> DEFINE b == SubSeq(AfterArg, 1, n)
  <2>1. taken' = s \o (h \o b) /\ b \in Seq(Byte)
    BY <1>0, <1>1, StringGone
  <2>2. <<>> \o b = b
    <3> HIDE DEF b
    <3> QED BY <2>1, ConcatEmptySeq
  <2> QED BY <2>1, <2>2
<1>4. StringHead(h) /\ h[1] = Ib /\ Count(ArgumentAt(h, 1)) = Val
  BY <1>0, StringHeadIs
<1> HIDE DEF h
<1>5. Lacks(<<>>, Val, Count(ArgumentAt(h, 1))) /\ <<>> \in Seq(Byte)
  <2>1. Len(<<>>) = 0 /\ <<>> \in Seq(Byte)
    BY EmptySeq
  <2> QED BY <1>2, <1>4, <2>1 DEF Lacks
<1>6. text = (MajorType(h[1]) = TextString) /\ Body(text, <<>>, Val, AfterArg)
  BY <1>0, <1>4
<1> HIDE DEF text
<1>7. Ahead(s, o)
  BY <1>1 DEF Before
<1> QED BY <1>0, <1>2, <1>3, <1>4, <1>5, <1>6, <1>7, BodyReads

\* A string goes on where its bytes had run out.
LEMMA RestOfStringReads ==
  ASSUME Inv, PendingInv', NEW o, Image(stack, o), Midway(o), RestOfString, unread' \in Seq(Byte)
  PROVE  /\ stack' = stack
         /\ (Continues("complete") /\ Done(o)') \/ (RunsOut /\ Midway(o)')
<1>0. /\ raw.left > 0 /\ raw.left \in Nat /\ unread \in Seq(Byte)
      /\ Body(raw.text, raw.body, raw.left, unread)
  <2>1. raw.left \in Nat
    BY DEF Inv, TypeInv, ControlInv, IsRaw
  <2>2. unread \in Seq(Byte)
    BY BytesIn DEF Inv, TypeInv
  <2> QED BY <2>1, <2>2 DEF RestOfString
<1>1. PICK s, h, b : InBody(s, h, b, o)
  BY <1>0 DEF Midway, Before
<1>2. /\ Ahead(s, o) /\ StringHead(h) /\ b \in Seq(Byte) /\ taken = s \o (h \o b)
      /\ raw.body = b /\ raw.text = (MajorType(h[1]) = TextString)
      /\ Lacks(b, raw.left, Count(ArgumentAt(h, 1)))
  BY <1>1 DEF InBody
<1>3. TakesBehind(s, h, b, unread)
  <2> SUFFICES ASSUME NEW n \in 0 .. Len(unread), Takes(SubSeq(unread, n + 1, Len(unread)))
               PROVE  taken' = s \o (h \o (b \o SubSeq(unread, 1, n)))
    BY DEF TakesBehind
  <2> DEFINE rest == SubSeq(unread, n + 1, Len(unread))
             x == SubSeq(unread, 1, n)
  <2>1. Len(rest) = Len(unread) - n /\ x \in Seq(Byte)
    BY <1>0, CutOf
  <2>2. taken' = taken \o SubSeq(unread, 1, Len(unread) - Len(rest))
    BY DEF Takes, Gone
  <2> HIDE DEF rest
  <2>3. Len(unread) - Len(rest) = n
    BY <1>0, <2>1, LenProperties
  <2>4. taken' = (s \o (h \o b)) \o x
    BY <1>2, <2>2, <2>3
  <2> HIDE DEF x
  <2>5. s \in Seq(Byte) /\ h \in Seq(Byte)
    BY <1>2 DEF Ahead, Ready, StringHead, HeadFirst
  <2>6. h \o b \in Seq(Byte)
    BY <1>2, <2>5, ConcatProperties
  <2>7. (s \o (h \o b)) \o x = s \o ((h \o b) \o x)
    <3> DEFINE y == h \o b
    <3>1. y \in Seq(Byte)
      BY <2>6
    <3> HIDE DEF y
    <3>2. (s \o y) \o x = s \o (y \o x)
      BY ONLY <2>1, <2>5, <3>1, ConcatAssociative
    <3> QED BY <3>2 DEF y
  <2>8. (h \o b) \o x = h \o (b \o x)
    BY ONLY <1>2, <2>1, <2>5, ConcatAssociative
  <2> QED BY <2>4, <2>7, <2>8 DEF x
<1>4. Body(raw.text, b, raw.left, unread)
  BY <1>0, <1>2
<1> DEFINE text == raw.text
           left == raw.left
<1>5. text = (MajorType(h[1]) = TextString) /\ left \in Nat /\ left > 0
      /\ Lacks(b, left, Count(ArgumentAt(h, 1))) /\ Body(text, b, left, unread)
  BY <1>0, <1>2, <1>4
<1> HIDE DEF text, left
<1> QED BY <1>0, <1>2, <1>3, <1>5, BodyReads

\* An item's head byte runs out, or its argument does.
LEMMA HeadRunsOutReads ==
  ASSUME BytesInv, ControlInv, NEW o, Image(stack, o), Midway(o), HeadRunsOut
  PROVE  stack' = stack /\ RunsOut /\ Midway(o)'
<1>1. raw.left = 0 /\ RunsOut /\ UNCHANGED <<stack, raw, last>>
  BY DEF HeadRunsOut
<1>2. PICK s : Before(s, o)
  BY <1>1, AtHeadIs
<1>3. CASE UNCHANGED <<unread, head, taken>>
  <2>1. Before(s, o)'
    BY <1>1, <1>2, <1>3 DEF Before, Ahead
  <2> QED BY <1>1, <2>1 DEF Midway
<1>4. CASE HasHead /\ ~HasArg /\ Takes(AfterHead) /\ head' = Ib
  <2>1. Ib \in Byte /\ AfterHead \in Seq(Byte)
    BY <1>4, BytesIn
  <2>2. Ib # HEAD_BYTE_REQUIRED
    <3>1. Len(AfterHead) \in Nat
      BY <2>1, LenProperties
    <3>2. ArgWidth(Ib) # 0
      BY <1>4, <3>1 DEF HasArg
    <3>3. ArgWidth(223) = 0
      BY DEF ArgWidth, AI
    <3> QED BY <3>2, <3>3 DEF HEAD_BYTE_REQUIRED, IB_UNUSED
  <2>3. <<>> \in Seq(Byte) /\ <<>> \o AfterHead = AfterHead /\ <<Ib>> \o <<>> = <<Ib>>
    <3>1. <<Ib>> \in Seq(Byte)
      BY <2>1, OneByte
    <3> QED BY <2>1, <3>1, EmptySeq, ConcatEmptySeq
  <2>4. taken' = s \o (<<Ib>> \o <<>>)
    BY <1>2, <1>4, <2>1, <2>3, TakenBehind
  <2>5. taken' = s \o <<head'>> /\ head' # HEAD_BYTE_REQUIRED
    BY <1>4, <2>2, <2>3, <2>4
  <2>6. Before(s, o)'
    BY <1>1, <1>2, <2>5 DEF Before, Ahead
  <2> QED BY <1>1, <2>6 DEF Midway
<1> QED BY <1>1, <1>3, <1>4 DEF HeadRunsOut, KeptHead

-----------------------------------------------------------------------------
(* A container is opened *)

\* A container that has seen nothing.
LEMMA FreshIs ==
  ASSUME NEW type, NEW need, NEW tag
  PROVE  LET c == Container(type, need, tag)
         IN /\ IsContainer(c) /\ c.type = type /\ c.need = need /\ c.tag = tag
            /\ c.seen = <<>> /\ Len(c.seen) = 0
<1> DEFINE c == Container(type, need, tag)
<1>1. c.type = type /\ c.need = need /\ c.tag = tag /\ c.seen = <<>>
      /\ c = [type |-> c.type, need |-> c.need, tag |-> c.tag, seen |-> c.seen]
  BY DEF Container
<1> HIDE DEF c
<1>2. IsSeq(<<>>) /\ Len(<<>>) = 0
  BY EmptyIsSeq
<1> QED BY <1>1, <1>2 DEF IsContainer, c

\* The parts of a frame.
LEMMA FrameParts ==
  ASSUME NEW type, NEW count, NEW object, NEW tag
  PROVE  LET f == Frame(type, count, object, tag)
         IN f.type = type /\ f.count = count /\ f.object = object /\ f.tag = tag
BY DEF Frame

\* It waits for an object.
LEMMA FreshSound ==
  ASSUME NEW type \in {2, 3, 4, 5, 6}, NEW need, NEW tag, need = Endless \/ (need \in Nat /\ need > 0),
         type \in {2, 3} => need = Endless, type = 6 => need = 1
  PROVE  Sound(Container(type, need, tag))
<1> DEFINE c == Container(type, need, tag)
<1>1. /\ IsContainer(c) /\ c.type = type /\ c.need = need /\ Len(c.seen) = 0
  BY FreshIs
<1> HIDE DEF c
<1>2. Strings(c)
  BY <1>1 DEF Strings
<1>3. c.type \in {ByteString, TextString, ArrayType, MapType, TagType}
  BY <1>1 DEF ByteString, TextString, ArrayType, MapType, TagType
<1>4. c.type \in {ByteString, TextString} => c.need = Endless
  BY <1>1 DEF ByteString, TextString
<1>5. c.type = TagType => c.need = 1
  BY <1>1 DEF TagType
<1>6. c.need = Endless \/ (c.need \in Nat /\ Len(c.seen) < c.need)
  BY <1>1
<1> QED BY <1>1, <1>2, <1>3, <1>4, <1>5, <1>6 DEF Sound, c

\* The type of its frame.
LEMMA FreshType ==
  ASSUME NEW type \in {2, 3, 4, 5, 6}, NEW need, NEW tag
  PROVE  TypeOf(Container(type, need, tag)) =
           CASE type \in {2, 3} -> "string_indef"
             [] type = 6 -> "tag"
             [] type = 4 -> IF need = Endless THEN "array_indef" ELSE "array"
             [] type = 5 -> IF need = Endless THEN "map_key_indef" ELSE "map_key"
<1> DEFINE c == Container(type, need, tag)
<1>1. c.type = type /\ c.need = need /\ Len(c.seen) = 0
  BY FreshIs
<1> HIDE DEF c
<1>2. Len(c.seen) % 2 = 0
  BY <1>1
<1> QED BY <1>1, <1>2 DEF TypeOf, ByteString, TextString, ArrayType, TagType, c

\* Its frame.
LEMMA FreshMirrors ==
  ASSUME NEW type \in {2, 3, 4, 5, 6}, NEW need, NEW tag, NEW f,
         f.type = TypeOf(Container(type, need, tag)),
         type \in {2, 3} => f.object = Str(type = TextString, <<>>),
         type = 4 => f.object = <<"array", <<>>>>,
         type = 5 => f.object = <<"hash", <<>>>>,
         type = 6 => f.tag = tag,
         need # Endless => f.count = IF need >= Huge THEN Huge ELSE need,
         need = Endless \/ need \in Nat
  PROVE  Mirrors(f, Container(type, need, tag))
<1> DEFINE c == Container(type, need, tag)
<1>1. c.type = type /\ c.need = need /\ c.tag = tag /\ c.seen = <<>> /\ Len(c.seen) = 0
  BY FreshIs
<1>2. f.type = TypeOf(c)
  OBVIOUS
<1> HIDE DEF c
<1>3. Chunks(c.seen) = <<>> /\ Pairs(c.seen) = <<>>
  BY <1>1, ChunksNone
<1>4. c.type \in {ByteString, TextString} => f.object = Str(c.type = TextString, Chunks(c.seen))
  <2>1. c.type \in {ByteString, TextString} => type \in {2, 3}
    BY <1>1 DEF ByteString, TextString
  <2> QED BY <1>1, <1>3, <2>1
<1>5. c.type = ArrayType => f.object = <<"array", c.seen>>
  BY <1>1 DEF ArrayType
<1>6. c.type = MapType => f.object = <<"hash", Pairs(c.seen)>>
  BY <1>1, <1>3 DEF MapType
<1>7. Len(c.seen) % 2 # 1
  BY <1>1
<1>8. c.type = TagType => f.tag = c.tag
  BY <1>1 DEF TagType
<1>9. c.need # Endless => f.count = Missing(c)
  <2>1. Huge \in Nat
    BY HugeIs
  <2> QED BY <1>1, <2>1 DEF Missing
<1>10. Looks(f, c)
  BY <1>2, <1>4, <1>5, <1>6, <1>7, <1>8 DEF Looks
<1> QED BY <1>9, <1>10 DEF Mirrors, c

\* A frame for a container whose head has come is pushed.
LEMMA Pushes ==
  ASSUME StackInv, NEW s, NEW o, Image(stack, o), Bound(o, Len(s)), Len(s) \in Nat,
         NEW z, z = taken', NEW n, n = Len(z), n \in Nat, Len(s) <= n, z \in Seq(Byte),
         NEW c, Sound(c), c.seen = <<>>, NEW f, Mirrors(f, c), stack' = Append(stack, f),
         Reaches(z, At(n + 1, Append(o, c), <<>>)),
         head' = HEAD_BYTE_REQUIRED, raw'.left = 0
  PROVE  \E p : Image(stack', p) /\ Midway(p)'
<1> DEFINE p == Append(o, c)
<1>1. Image(stack', p)
  BY ImagePushed
<1>2. AreContainers(o)
  BY DEF Image
<1>3. Last(p) = c
  BY <1>2, AppendedIs DEF AreContainers
<1>4. Bound(p, n)
  <2>1. Bound(o, n)
    BY BoundMore
  <2> HIDE DEF p
  <2> QED BY <1>2, <2>1, BoundPushed DEF p
<1>5. Reaches(z, At(n + 1, p, <<>>))
  OBVIOUS
<1> HIDE DEF p
<1>6. Waiting(p)
  BY <1>3, SoundWaits DEF Waiting
<1>7. Ready(z, p, <<>>)
  BY <1>5, <1>6 DEF Ready
<1>8. Before(z, p)'
  BY <1>4, <1>7 DEF Before, Ahead
<1> QED BY <1>1, <1>8 DEF Midway

\* That of a tag.
LEMMA TagMirrors ==
  ASSUME NEW n \in Nat, NEW tag, NEW f, f.type = TypeOf(Container(6, n, tag)), f.tag = tag,
         f.count = IF n >= Huge THEN Huge ELSE n
  PROVE  Mirrors(f, Container(6, n, tag))
<1> DEFINE type == 6
<1>1. type \in {2, 3, 4, 5, 6} /\ type \notin {2, 3} /\ type # 4 /\ type # 5
  OBVIOUS
<1>2. f.type = TypeOf(Container(type, n, tag))
  OBVIOUS
<1>3. ASSUME Mirrors(f, Container(type, n, tag)) PROVE Mirrors(f, Container(6, n, tag))
  BY <1>3
<1> HIDE DEF type
<1> QED BY <1>1, <1>2, <1>3, FreshMirrors

\* h is the head of c, with or without an argument.
HeadOpens(h, c) ==
  \/ /\ HeadFirst(h) /\ Len(h) = 1 + ArgWidth(h[1]) /\ MajorType(h[1]) \in {4, 5, 6} /\ h[1] # 187
     /\ MajorType(h[1]) = 4 => c = Container(4, Count(ArgumentAt(h, 1)), 0)
     /\ MajorType(h[1]) = 5 => c = Container(5, 2 * Count(ArgumentAt(h, 1)), 0)
     /\ MajorType(h[1]) = 6 => c = Container(6, 1, Count(ArgumentAt(h, 1)))
  \/ /\ h = <<h[1]>> /\ h[1] \in Byte /\ AI(h[1]) = 31 /\ MajorType(h[1]) \in {2, 3, 4, 5}
     /\ c = Container(MajorType(h[1]), Endless, 0)

\* It is read as that.
LEMMA OpensReads ==
  ASSUME NEW s, NEW h, NEW o, NEW c, Ready(s, o, <<>>), HeadOpens(h, c)
  PROVE  Reaches(s \o h, At(Len(s \o h) + 1, Append(o, c), <<>>))
<1>1. CASE h = <<h[1]>> /\ h[1] \in Byte /\ AI(h[1]) = 31 /\ MajorType(h[1]) \in {2, 3, 4, 5}
           /\ c = Container(MajorType(h[1]), Endless, 0)
  <2> DEFINE b == h[1]
  <2>1. h = <<b>> /\ b \in Byte /\ AI(b) = 31 /\ MajorType(b) \in {2, 3, 4, 5}
        /\ c = Container(MajorType(b), Endless, 0)
    BY <1>1
  <2> HIDE DEF b
  <2>2. LET z == s \o <<b>>
        IN Reaches(z, At(Len(z) + 1, Append(o, Container(MajorType(b), Endless, 0)), <<>>))
    BY <2>1, EndlessRead
  <2> QED BY <2>1, <2>2
<1>2. CASE HeadFirst(h) /\ Len(h) = 1 + ArgWidth(h[1]) /\ MajorType(h[1]) \in {4, 5, 6} /\ h[1] # 187
           /\ (MajorType(h[1]) = 4 => c = Container(4, Count(ArgumentAt(h, 1)), 0))
           /\ (MajorType(h[1]) = 5 => c = Container(5, 2 * Count(ArgumentAt(h, 1)), 0))
           /\ (MajorType(h[1]) = 6 => c = Container(6, 1, Count(ArgumentAt(h, 1))))
  BY <1>2, ReadsHead
<1> QED BY <1>1, <1>2 DEF HeadOpens

\* The head of a container or a tag is taken.
LEMMA CountedHead ==
  ASSUME BytesInv, HasHead, HasArg, Ib # 187, NEW type \in {4, 5, 6}, Is(type, Definite),
         NEW c, type = 4 => c = Container(4, Val, 0), type = 5 => c = Container(5, 2 * Val, 0),
         type = 6 => c = Container(6, 1, Val)
  PROVE  HeadOpens(HeadBytes, c)
<1> DEFINE h == HeadBytes
<1>1. /\ h[1] = Ib /\ Len(h) = 1 + ArgWidth(Ib) /\ ArgumentAt(h, 1) = Arg
      /\ AI(Ib) < 28 => HeadFirst(h)
  BY HeadBytesAre
<1> HIDE DEF h
<1>2. AI(Ib) \in 0 .. 27 /\ MajorType(Ib) = type
  BY DEF Is, Definite
<1>3. Count(ArgumentAt(h, 1)) = Val
  BY <1>1 DEF Val
<1> QED BY <1>1, <1>2, <1>3 DEF HeadOpens, h

\* A head byte without an argument is all of its head.
LEMMA HeadAlone ==
  ASSUME BytesInv, HasHead, AI(Ib) = 31
  PROVE  HeadBytes = <<Ib>>
<1>1. Ib \in Byte /\ AfterHead \in Seq(Byte)
  BY BytesIn
<1>2. ArgWidth(Ib) = 0
  BY DEF ArgWidth
<1>3. SubSeq(AfterHead, 1, 0) = <<>>
  BY <1>1, SubSeqEmpty
<1>4. <<Ib>> \in Seq(Byte)
  BY <1>1, OneByte
<1>5. <<Ib>> \o <<>> = <<Ib>>
  BY <1>4, ConcatEmptySeq
<1> QED BY <1>2, <1>3, <1>5 DEF HeadBytes

\* That of a container without an end in it.
LEMMA EndlessHead ==
  ASSUME BytesInv, HasHead, HasArg, NEW type \in {2, 3, 4, 5}, Is(type, {AI_INDEF}),
         NEW c, c = Container(type, Endless, 0)
  PROVE  HeadOpens(HeadBytes, c)
<1> DEFINE h == HeadBytes
<1>1. AI(Ib) = 31 /\ MajorType(Ib) = type
  BY DEF Is, AI_INDEF
<1>2. Ib \in Byte /\ AfterHead \in Seq(Byte)
  BY BytesIn
<1>3. h = <<Ib>>
  BY <1>1, HeadAlone
<1> HIDE DEF h
<1>4. h[1] = Ib /\ h = <<h[1]>>
  BY <1>3
<1> QED BY <1>1, <1>2, <1>4 DEF HeadOpens, h

\* The frame that is pushed for it.
LEMMA OpenedMirrors ==
  ASSUME BytesInv, HasHead, HasArg, Opening, Ib # 187
  PROVE  \E c : Sound(c) /\ c.seen = <<>> /\ Mirrors(OpenedFrame, c) /\ HeadOpens(HeadBytes, c)
<1>1. /\ Ib \in Byte /\ Arg \in Seq(Byte)
      /\ Val \in Nat /\ (Val < Counted \/ Val = Huge) /\ Val = Count(Arg)
  BY HeadFacts, ArgFacts DEF Val
<1>2. Huge \in Nat /\ 2 * Counted < Huge /\ Counted \in Nat
  BY HugeIs DEF Counted
<1>3. Endless \notin Nat
  BY DEF Endless
<1>4. CASE Is(ArrayType, Definite) /\ Val > 0
  <2>1. /\ ~Is(MapType, Definite) /\ ~Is(TagType, Definite) /\ ~Is(ArrayType, {AI_INDEF})
        /\ ~Is(MapType, {AI_INDEF}) /\ ~Is(ByteString, {AI_INDEF}) /\ ~Is(TextString, {AI_INDEF})
    BY <1>4 DEF Is, ByteString, TextString, ArrayType, MapType, TagType, AI_INDEF, Definite
  <2>2. OpenedFrame = Frame("array", Val, <<"array", <<>>>>, 0)
    BY <1>4, <2>1, Zenon DEF OpenedFrame
  <2>3. /\ OpenedFrame.type = "array" /\ OpenedFrame.count = Val
        /\ OpenedFrame.object = <<"array", <<>>>>
    BY <2>2, FrameParts
  <2> DEFINE c == Container(4, Val, 0)
  <2>4. Sound(c) /\ c.seen = <<>>
    BY <1>1, <1>4, FreshSound, FreshIs
  <2>5. Mirrors(OpenedFrame, c)
    <3>1. TypeOf(c) = "array"
      BY <1>1, <1>3, FreshType
    <3>2. Val = IF Val >= Huge THEN Huge ELSE Val
      BY <1>1, <1>2
    <3> QED BY <1>1, <2>3, <3>1, <3>2, FreshMirrors
  <2>6. HeadOpens(HeadBytes, c)
    BY <1>4, CountedHead DEF ArrayType
  <2> QED BY <2>4, <2>5, <2>6
<1>5. CASE Is(MapType, Definite) /\ Val > 0
  <2>1. /\ ~Is(ArrayType, Definite) /\ ~Is(TagType, Definite) /\ ~Is(ArrayType, {AI_INDEF})
        /\ ~Is(MapType, {AI_INDEF}) /\ ~Is(ByteString, {AI_INDEF}) /\ ~Is(TextString, {AI_INDEF})
    BY <1>5 DEF Is, ByteString, TextString, ArrayType, MapType, TagType, AI_INDEF, Definite
  <2>2. OpenedFrame = Frame("map_key", KeysAndValues(Arg), <<"hash", <<>>>>, 0)
    BY <1>5, <2>1, Zenon DEF OpenedFrame
  <2>3. Len(Arg) # 8
    <3>1. MajorType(Ib) = MapType
      BY <1>5 DEF Is
    <3> QED BY <1>1, <3>1, LongMapIs, ArgFacts
  <2>4. KeysAndValues(Arg) = IF Val = Huge THEN Huge ELSE Val * 2
    BY <1>1, <2>3 DEF KeysAndValues
  <2> DEFINE n == 2 * Val
             c == Container(5, n, 0)
  <2>5. n \in Nat /\ n > 0 /\ KeysAndValues(Arg) = IF n >= Huge THEN Huge ELSE n
    BY <1>1, <1>2, <1>5, <2>4
  <2>6. HeadOpens(HeadBytes, c)
    BY <1>5, CountedHead DEF MapType
  <2> HIDE DEF n
  <2>7. /\ OpenedFrame.type = "map_key" /\ OpenedFrame.count = KeysAndValues(Arg)
        /\ OpenedFrame.object = <<"hash", <<>>>>
    BY <2>2, FrameParts
  <2>8. Sound(c) /\ c.seen = <<>>
    BY <2>5, FreshSound, FreshIs
  <2>9. Mirrors(OpenedFrame, c)
    <3>1. TypeOf(c) = "map_key"
      BY <1>3, <2>5, FreshType
    <3> QED BY <2>5, <2>7, <3>1, FreshMirrors
  <2> QED BY <2>6, <2>8, <2>9
<1>6. CASE Is(TagType, Definite)
  <2>1. /\ ~Is(ArrayType, Definite) /\ ~Is(MapType, Definite) /\ ~Is(ArrayType, {AI_INDEF})
        /\ ~Is(MapType, {AI_INDEF}) /\ ~Is(ByteString, {AI_INDEF}) /\ ~Is(TextString, {AI_INDEF})
    BY <1>6 DEF Is, ByteString, TextString, ArrayType, MapType, TagType, AI_INDEF, Definite
  <2>2. OpenedFrame = Frame("tag", 1, Nil, Val)
    BY <1>6, <2>1, Zenon DEF OpenedFrame
  <2>3. /\ OpenedFrame.type = "tag" /\ OpenedFrame.count = 1 /\ OpenedFrame.tag = Val
    BY <2>2, FrameParts
  <2> DEFINE n == 1
             c == Container(6, n, Val)
  <2>4. HeadOpens(HeadBytes, c)
    BY <1>6, CountedHead DEF TagType
  <2>5. n \in Nat /\ n > 0 /\ n = 1 /\ n = IF n >= Huge THEN Huge ELSE n
    BY <1>2, HugeIs DEF Counted
  <2> HIDE DEF n
  <2>6. Sound(c) /\ c.seen = <<>>
    BY <2>5, FreshSound, FreshIs
  <2>7. Mirrors(OpenedFrame, c)
    <3>1. TypeOf(c) = "tag"
      BY FreshType
    <3> QED BY <2>3, <2>5, <3>1, TagMirrors
  <2> QED BY <2>4, <2>6, <2>7
<1>7. CASE Is(ArrayType, {AI_INDEF})
  <2>1. /\ ~Is(ArrayType, Definite) /\ ~Is(MapType, Definite) /\ ~Is(TagType, Definite)
        /\ ~Is(MapType, {AI_INDEF}) /\ ~Is(ByteString, {AI_INDEF}) /\ ~Is(TextString, {AI_INDEF})
    BY <1>7 DEF Is, ByteString, TextString, ArrayType, MapType, TagType, AI_INDEF, Definite
  <2>2. OpenedFrame = Frame("array_indef", 0, <<"array", <<>>>>, 0)
    BY <1>7, <2>1, Zenon DEF OpenedFrame
  <2>3. OpenedFrame.type = "array_indef" /\ OpenedFrame.object = <<"array", <<>>>>
    BY <2>2, FrameParts
  <2> DEFINE c == Container(4, Endless, 0)
  <2>4. Sound(c) /\ c.seen = <<>>
    BY FreshSound, FreshIs
  <2>5. Mirrors(OpenedFrame, c)
    <3>1. TypeOf(c) = "array_indef"
      BY FreshType
    <3> QED BY <2>3, <3>1, FreshMirrors
  <2>6. HeadOpens(HeadBytes, c)
    BY <1>7, EndlessHead DEF ArrayType
  <2> QED BY <2>4, <2>5, <2>6
<1>8. CASE Is(MapType, {AI_INDEF})
  <2>1. /\ ~Is(ArrayType, Definite) /\ ~Is(MapType, Definite) /\ ~Is(TagType, Definite)
        /\ ~Is(ArrayType, {AI_INDEF}) /\ ~Is(ByteString, {AI_INDEF}) /\ ~Is(TextString, {AI_INDEF})
    BY <1>8 DEF Is, ByteString, TextString, ArrayType, MapType, TagType, AI_INDEF, Definite
  <2>2. OpenedFrame = Frame("map_key_indef", 0, <<"hash", <<>>>>, 0)
    BY <1>8, <2>1, Zenon DEF OpenedFrame
  <2>3. OpenedFrame.type = "map_key_indef" /\ OpenedFrame.object = <<"hash", <<>>>>
    BY <2>2, FrameParts
  <2> DEFINE c == Container(5, Endless, 0)
  <2>4. Sound(c) /\ c.seen = <<>>
    BY FreshSound, FreshIs
  <2>5. Mirrors(OpenedFrame, c)
    <3>1. TypeOf(c) = "map_key_indef"
      BY FreshType
    <3> QED BY <2>3, <3>1, FreshMirrors
  <2>6. HeadOpens(HeadBytes, c)
    BY <1>8, EndlessHead DEF MapType
  <2> QED BY <2>4, <2>5, <2>6
<1>9. CASE Is(ByteString, {AI_INDEF})
  <2>1. /\ ~Is(ArrayType, Definite) /\ ~Is(MapType, Definite) /\ ~Is(TagType, Definite)
        /\ ~Is(ArrayType, {AI_INDEF}) /\ ~Is(MapType, {AI_INDEF}) /\ ~Is(TextString, {AI_INDEF})
    BY <1>9 DEF Is, ByteString, TextString, ArrayType, MapType, TagType, AI_INDEF, Definite
  <2>2. OpenedFrame = Frame("string_indef", 0, Str(FALSE, <<>>), 0)
    BY <1>9, <2>1, Zenon DEF OpenedFrame
  <2>3. OpenedFrame.type = "string_indef" /\ OpenedFrame.object = Str(FALSE, <<>>)
    BY <2>2 DEF Frame
  <2> DEFINE c == Container(2, Endless, 0)
  <2>4. Sound(c) /\ c.seen = <<>>
    BY FreshSound, FreshIs
  <2>5. Mirrors(OpenedFrame, c)
    <3>1. TypeOf(c) = "string_indef"
      BY FreshType
    <3>2. (2 = TextString) = FALSE
      BY DEF TextString
    <3>3. OpenedFrame.object = Str(2 = TextString, <<>>)
      BY <2>3, <3>2
    <3> QED BY <2>3, <3>1, <3>3, FreshMirrors
  <2>6. HeadOpens(HeadBytes, c)
    BY <1>9, EndlessHead DEF ByteString
  <2> QED BY <2>4, <2>5, <2>6
<1>10. CASE Is(TextString, {AI_INDEF})
  <2>1. /\ ~Is(ArrayType, Definite) /\ ~Is(MapType, Definite) /\ ~Is(TagType, Definite)
        /\ ~Is(ArrayType, {AI_INDEF}) /\ ~Is(MapType, {AI_INDEF}) /\ ~Is(ByteString, {AI_INDEF})
    BY <1>10 DEF Is, ByteString, TextString, ArrayType, MapType, TagType, AI_INDEF, Definite
  <2>2. OpenedFrame = Frame("string_indef", 32, Str(TRUE, <<>>), 0)
    BY <1>10, <2>1, Zenon DEF OpenedFrame
  <2>3. OpenedFrame.type = "string_indef" /\ OpenedFrame.object = Str(TRUE, <<>>)
    BY <2>2 DEF Frame
  <2> DEFINE c == Container(3, Endless, 0)
  <2>4. Sound(c) /\ c.seen = <<>>
    BY FreshSound, FreshIs
  <2>5. Mirrors(OpenedFrame, c)
    <3>1. TypeOf(c) = "string_indef"
      BY FreshType
    <3>2. (3 = TextString) = TRUE
      BY DEF TextString
    <3>3. OpenedFrame.object = Str(3 = TextString, <<>>)
      BY <2>3, <3>2
    <3> QED BY <2>3, <3>1, <3>3, FreshMirrors
  <2>6. HeadOpens(HeadBytes, c)
    BY <1>10, EndlessHead DEF TextString
  <2> QED BY <2>4, <2>5, <2>6
<1> QED BY <1>4, <1>5, <1>6, <1>7, <1>8, <1>9, <1>10 DEF Opening

\* A container, a tag or an indefinite string is opened.
LEMMA OpenReads ==
  ASSUME Inv, NEW o, Image(stack, o), Midway(o), Ib # 187, Open
  PROVE  \/ Continues("start") /\ \E p : Image(stack', p) /\ Midway(p)'
         \/ \E r : Raises(r)
<1>0. /\ Opening /\ raw' = raw /\ raw.left = 0 /\ HasHead /\ HasArg /\ BytesInv /\ StackInv
      /\ Takes(AfterArg) /\ head' = HEAD_BYTE_REQUIRED
      /\ \/ stack' = Append(stack, OpenedFrame) /\ Continues("start")
         \/ Raises("deep")
  BY DEF Open, AtHead, Inv, TypeInv
<1>1. PICK s : Before(s, o)
  BY <1>0, AtHeadIs
<1>2. PICK z : z = taken'
  OBVIOUS
<1>3. /\ z = s \o HeadBytes /\ z \in Seq(Byte) /\ Len(z) \in Nat /\ Len(s) \in Nat
      /\ Len(s) <= Len(z)
  <2>1. /\ taken' = s \o HeadBytes /\ taken' \in Seq(Byte)
        /\ Len(taken') \in Nat /\ Len(s) \in Nat /\ Len(s) <= Len(taken') - 1
    BY <1>0, <1>1, HeadGone
  <2> QED BY <1>2, <2>1
<1>4. PICK c : Sound(c) /\ c.seen = <<>> /\ Mirrors(OpenedFrame, c) /\ HeadOpens(HeadBytes, c)
  BY <1>0, OpenedMirrors
<1>5. Ready(s, o, <<>>) /\ Bound(o, Len(s))
  BY <1>1 DEF Before, Ahead
<1>6. Reaches(z, At(Len(z) + 1, Append(o, c), <<>>))
  BY <1>3, <1>4, <1>5, OpensReads
<1>7. CASE stack' = Append(stack, OpenedFrame) /\ Continues("start")
  <2>1. \E p : Image(stack', p) /\ Midway(p)'
    BY <1>0, <1>2, <1>3, <1>4, <1>5, <1>6, <1>7, Pushes
  <2> QED BY <1>7, <2>1
<1> QED BY <1>0, <1>7

\* A break byte.
LEMMA BreakReads ==
  ASSUME BytesInv, NEW o, Midway(o), Break
  PROVE  Broke(o)'
<1>0. /\ Is(Prim, {AI_INDEF}) /\ raw' = raw /\ raw.left = 0 /\ HasHead /\ HasArg /\ Takes(AfterArg)
  BY DEF Break, AtHead
<1>1. PICK s : Before(s, o)
  BY <1>0, AtHeadIs
<1>2. taken' = s \o HeadBytes
  BY <1>0, <1>1, HeadGone
<1>3. AI(Ib) = 31 /\ MajorType(Ib) = 7
  BY <1>0 DEF Is, Prim, AI_INDEF
<1>4. Ib = 255
  <2>1. Ib \in Byte
    BY <1>0, BytesIn
  <2>2. Ib = 32 * MajorType(Ib) + AI(Ib)
    BY <2>1, ArgWidthIs
  <2> QED BY <1>3, <2>2
<1>5. HeadBytes = <<255>>
  BY <1>0, <1>3, <1>4, HeadAlone
<1>6. Ahead(s, o)
  BY <1>1 DEF Before
<1> QED BY <1>0, <1>2, <1>5, <1>6 DEF Broke, Ahead

\* What read_primitive leaves is a reading again.
LEMMA PrimitiveReads ==
  ASSUME Inv, Inv', PendingInv', ~SymbolizeKeys, AtHead => Ib # 187,
         NEW o, Image(stack, o), Midway(o), ReadPrimitive
  PROVE  ReadsInv'
<1>1. BytesInv /\ ControlInv /\ unread' \in Seq(Byte)
  <2>1. BytesInv /\ ControlInv /\ BytesInv'
    BY DEF Inv, TypeInv
  <2>2. unread' \in Seq(Fed) /\ Fed \subseteq Byte
    BY <2>1, FedIs DEF BytesInv
  <2>3. unread' \in Seq(Byte)
    BY ONLY <2>2
  <2> QED BY <2>1, <2>3
<1>2. ASSUME Continues("complete"), stack' = stack, Done(o)' PROVE ReadsInv'
  <2>1. pc'.r = "complete"
    BY <1>1, <1>2, ContinuesIs DEF Ends
  <2>2. Phase(o)'
    BY <1>2, <2>1 DEF Phase
  <2> QED BY <1>2, <2>2 DEF ReadsInv
<1>3. ASSUME RunsOut, stack' = stack, Midway(o)' PROVE ReadsInv'
  <2>1. pc'.r \in {"start", "yield"}
    BY <1>1, <1>3, RunsOutIs DEF Ended
  <2>2. Phase(o)'
    BY <1>3, <2>1 DEF Phase
  <2> QED BY <1>3, <2>2 DEF ReadsInv
<1>4. CASE HeadRunsOut
  BY <1>1, <1>3, <1>4, HeadRunsOutReads
<1>5. CASE Scalar
  <2>1. Continues("complete") /\ stack' = stack /\ Ib # 187
    BY <1>5 DEF Scalar
  <2> QED BY <1>1, <1>2, <1>5, <2>1, ScalarReads
<1>6. CASE WholeString
  <2>1. Continues("complete") /\ stack' = stack
    BY <1>6 DEF WholeString
  <2> QED BY <1>1, <1>2, <1>6, <2>1, WholeStringReads
<1>7. CASE SplitString
  BY <1>1, <1>2, <1>3, <1>7, SplitStringReads
<1>8. CASE RestOfString
  BY <1>1, <1>2, <1>3, <1>8, RestOfStringReads
<1>9. CASE Open
  <2>1. Ib # 187
    BY <1>9 DEF Open
  <2>2. CASE \E r : Raises(r)
    BY <2>2 DEF Raises, ReadsInv
  <2>3. CASE Continues("start") /\ \E p : Image(stack', p) /\ Midway(p)'
    <3>1. PICK p : Image(stack', p) /\ Midway(p)'
      BY <2>3
    <3>2. pc'.r = "start"
      BY <1>1, <2>3, ContinuesIs DEF Ends
    <3>3. Phase(p)'
      BY <3>1, <3>2 DEF Phase
    <3> QED BY <3>1, <3>3 DEF ReadsInv
  <2> QED BY <1>9, <2>1, <2>2, <2>3, OpenReads
<1>10. CASE Break
  <2>1. Continues("break") /\ stack' = stack
    BY <1>10 DEF Break
  <2>2. pc'.r = "break"
    BY <1>1, <2>1, ContinuesIs DEF Ends
  <2>3. Phase(o)'
    BY <1>1, <1>10, <2>2, BreakReads DEF Phase
  <2> QED BY <2>1, <2>3 DEF ReadsInv
<1>11. CASE Invalid
  BY <1>11 DEF Invalid, Raises, ReadsInv
<1> QED BY <1>4, <1>5, <1>6, <1>7, <1>8, <1>9, <1>10, <1>11 DEF ReadPrimitive

-----------------------------------------------------------------------------
(* An object goes into its container *)

\* An object that is complete goes into the container on top, and there it is.
LEMMA DoneIn ==
  ASSUME StackInv, stack # <<>>, NEW o, Image(stack, o), Done(o)
  PROVE  LET p == Put(o, last)
             g == Grown(Last(o), last)
         IN /\ AreContainers(p) /\ p # <<>> /\ Last(p) = g /\ Front(p) = Front(o) /\ IsContainer(g)
            /\ taken \in Seq(Byte) /\ Len(taken) \in Nat /\ Len(taken) > 0
            /\ Reaches(taken, At(Len(taken) + 1, p, <<>>))
            /\ Len(Last(o).seen) <= Len(taken) - 1 /\ Len(taken) < Len(taken) + 1
            /\ Bound(p, Len(taken))
<1> DEFINE p == Put(o, last)
           g == Grown(Last(o), last)
           n == Len(taken)
<1>1. AreContainers(o) /\ o # <<>>
  BY ImageTop DEF Image
<1>2. AreContainers(p) /\ p # <<>> /\ Last(p) = g /\ Front(p) = Front(o) /\ IsContainer(g)
  BY <1>1, PutIs DEF Grown
<1>3. /\ taken \in Seq(Byte) /\ taken # <<>> /\ Bound(o, Len(taken) - 1)
      /\ Reaches(taken, With(At(n + 1, o, <<>>), last))
  BY DEF Done
<1>4. n \in Nat /\ n > 0
  BY <1>3, LenProperties, EmptySeq
<1>5. Reaches(taken, At(n + 1, p, <<>>))
  <2>1. With(At(n + 1, o, <<>>), last) = At(n + 1, p, <<>>)
    <3> HIDE DEF n
    <3> QED BY <1>1, WithIs
  <2> QED BY <1>3, <2>1
<1>6. Len(Last(o).seen) <= n - 1
  <2>1. Last(o) = o[Len(o)] /\ Len(o) \in 1 .. Len(o)
    BY ImageTop
  <2> QED BY <1>3, <2>1 DEF Bound
<1>7. Bound(p, n)
  <2>1. n - 1 \in Nat /\ n - 1 < n /\ Bound(o, n - 1)
    BY <1>3, <1>4
  <2> HIDE DEF n
  <2> QED BY <1>4, <2>1, BoundPut
<1> QED BY <1>2, <1>3, <1>4, <1>5, <1>6, <1>7

\* The container waits for its next object.
LEMMA ElementIn ==
  ASSUME StackInv, stack # <<>>, NEW o, Image(stack, o), Done(o),
         Sound(Grown(Last(o), last)), NEW f, Mirrors(f, Grown(Last(o), last)),
         stack' = WithTop(f), UNCHANGED <<head, raw, taken>>
  PROVE  \E p : Image(stack', p) /\ Midway(p)'
<1> DEFINE p == Put(o, last)
<1>1. Image(stack', p)
  BY ImageGrown
<1>2. /\ Last(p) = Grown(Last(o), last) /\ taken \in Seq(Byte)
      /\ Reaches(taken, At(Len(taken) + 1, p, <<>>)) /\ Bound(p, Len(taken))
  BY DoneIn
<1>3. head' = HEAD_BYTE_REQUIRED /\ raw'.left = 0
  BY DEF Done
<1> HIDE DEF p
<1>4. Waiting(p)
  BY <1>2, SoundWaits DEF Waiting
<1>5. PICK z : z = taken
  OBVIOUS
<1>6. Ready(z, p, <<>>) /\ Bound(p, Len(z))
  BY <1>2, <1>4, <1>5 DEF Ready
<1>7. PICK q : q = p
  OBVIOUS
<1>8. Image(stack', q) /\ Ready(z, q, <<>>) /\ Bound(q, Len(z))
  BY <1>1, <1>6, <1>7
<1>9. Before(z, q)'
  BY <1>3, <1>5, <1>8 DEF Before, Ahead
<1> QED BY <1>8, <1>9 DEF Midway

\* The container is complete, and is an object itself.
LEMMA ElementFull ==
  ASSUME StackInv, stack # <<>>, NEW o, Image(stack, o), Done(o),
         IsFull(Grown(Last(o), last)), NEW v, v = ObjectOf(Grown(Last(o), last)), Obj(v),
         ObjectComplete(v), stack' = Front(stack), UNCHANGED <<raw, taken>>
  PROVE  \E p : Image(stack', p) /\ Done(p)'
<1> DEFINE p == Put(o, last)
<1>1. /\ Last(p) = Grown(Last(o), last) /\ p # <<>> /\ Front(p) = Front(o) /\ taken \in Seq(Byte)
      /\ Len(taken) \in Nat /\ Reaches(taken, At(Len(taken) + 1, p, <<>>))
  BY DoneIn
<1>2. AreContainers(o) /\ o # <<>> /\ taken # <<>> /\ Bound(o, Len(taken) - 1) /\ raw.left = 0
  BY ImageTop DEF Image, Done
<1> HIDE DEF p
<1>3. ~Waiting(p)
  BY <1>1 DEF Waiting
<1>4. PICK q : q = Front(o)
  OBVIOUS
<1> DEFINE k == Len(taken) + 1
<1>5. Reaches(taken, With(At(k, q, <<>>), v))
  <2>1. Reaches(taken, At(k, p, <<>>))
    BY <1>1
  <2> HIDE DEF k
  <2> QED BY <1>1, <1>3, <1>4, <2>1, ReadsEnd
<1>6. Bound(q, Len(taken) - 1)
  BY <1>2, <1>4, BoundFront
<1>7. Image(stack', q)
  BY <1>4, ImagePopped
<1>8. last' = v /\ head' = HEAD_BYTE_REQUIRED
  BY DEF ObjectComplete
<1>9. Done(q)'
  BY <1>1, <1>2, <1>5, <1>6, <1>8 DEF Done
<1> QED BY <1>7, <1>9

\* A call goes on with the containers p.
LEMMA GoesOn ==
  ASSUME ControlInv, Continues("start"), \E p : Image(stack', p) /\ Midway(p)'
  PROVE  ReadsInv'
<1>1. pc'.r = "start"
  BY ContinuesIs DEF Ends
<1>2. PICK p : Image(stack', p) /\ Midway(p)'
  OBVIOUS
<1>3. Phase(p)'
  BY <1>1, <1>2 DEF Phase
<1> QED BY <1>2, <1>3 DEF ReadsInv

\* A container has been popped as an object.
LEMMA Popped ==
  ASSUME ControlInv, Continues("complete"), \E p : Image(stack', p) /\ Done(p)'
  PROVE  ReadsInv'
<1>1. pc'.r = "complete"
  BY ContinuesIs DEF Ends
<1>2. PICK p : Image(stack', p) /\ Done(p)'
  OBVIOUS
<1>3. Phase(p)'
  BY <1>1, <1>2 DEF Phase
<1> QED BY <1>2, <1>3 DEF ReadsInv

\* The container on top, with the object that has come.
LEMMA TopGrown ==
  ASSUME StackInv, stack # <<>>, NEW o, Image(stack, o)
  PROVE  LET c == Last(o)
             g == Grown(c, last)
         IN /\ Sound(c) /\ Mirrors(Top, c) /\ Looks(Top, c) /\ IsContainer(c) /\ Len(c.seen) \in Nat
            /\ IsContainer(g) /\ g.type = c.type /\ g.need = c.need /\ g.tag = c.tag
            /\ Len(g.seen) = Len(c.seen) + 1 /\ g.seen[Len(c.seen) + 1] = last
<1> DEFINE c == Last(o)
<1>1. Sound(c) /\ Mirrors(Top, c)
  BY ImageTop
<1> HIDE DEF c
<1>2. IsContainer(c) /\ Len(c.seen) \in Nat
  BY <1>1, SoundWaits
<1>3. Looks(Top, c)
  BY <1>1 DEF Mirrors
<1> QED BY <1>1, <1>2, <1>3, GrownIs DEF c

\* An object more in an array or a map that counts them.
LEMMA CountedReads ==
  ASSUME Inv, PendingInv, NEW o, Image(stack, o), Done(o), CountedElement
  PROVE  ReadsInv'
<1> DEFINE c == Last(o)
           g == Grown(c, last)
           count == Decremented(Top.count)
           f == [Filled EXCEPT !.count = count]
<1>1. /\ StackInv /\ ControlInv /\ BytesInv /\ stack # <<>> /\ UNCHANGED <<raw, taken>>
      /\ Top.type \in {"array", "map_key", "map_value"}
      /\ \/ count # 0 /\ stack' = WithTop(f) /\ Continues("start") /\ UNCHANGED head
         \/ count = 0 /\ Pops(f.object)
  BY DEF CountedElement, Inv, TypeInv
<1>2. /\ Sound(c) /\ Mirrors(Top, c) /\ Looks(Top, c) /\ IsContainer(c) /\ Len(c.seen) \in Nat
      /\ IsContainer(g) /\ g.type = c.type /\ g.need = c.need /\ Len(g.seen) = Len(c.seen) + 1
  BY <1>1, TopGrown
<1>3. c.type \in {4, 5} /\ c.need # Endless /\ c.need \in Nat /\ Len(c.seen) < c.need
  BY <1>1, <1>2, SortOf DEF Sound
<1>4. Top.count = Missing(c)
  BY <1>2, <1>3 DEF Mirrors
<1>5. Looks(f, g)
  <2>1. FilledWith(Top, last, Filled) /\ IsFrame(Filled)
    BY <1>1, FilledLooks
  <2>2. Looks(Filled, g)
    <3> HIDE DEF c
    <3> QED BY <1>2, <1>3, <2>1, LooksGrown
  <2> HIDE DEF g, count
  <2> QED BY <2>1, <2>2, LooksCounted
<1>6. f.count = count
  <2>1. IsFrame(Filled) /\ FilledWith(Top, last, Filled)
    BY <1>1, FilledLooks
  <2>2. Looks(Filled, g)
    <3> HIDE DEF c
    <3> QED BY <1>2, <1>3, <2>1, LooksGrown
  <2> HIDE DEF g, count
  <2> QED BY <2>1, <2>2, LooksCounted
<1>7. Len(c.seen) + 1 < Huge
  <2>1. Len(c.seen) <= Len(taken) - 1 /\ Len(taken) \in Nat
    BY <1>1, DoneIn
  <2>2. Len(unread) \in Nat /\ MaxPending \in Nat /\ MaxPending < Huge /\ Huge \in Nat
    BY <1>1, PendingIs, LenProperties DEF BytesInv
  <2>3. Len(taken) + Len(unread) <= MaxPending
    BY DEF PendingInv
  <2> HIDE DEF c
  <2> QED BY <1>2, <2>1, <2>2, <2>3
<1> HIDE DEF g, f, count
<1>8. count = Missing(g) /\ (count # 0 => Len(g.seen) < g.need) /\ (count = 0 => Len(g.seen) = g.need)
  <2>1. Huge \in Nat /\ Huge > 0
    BY HugeIs DEF Counted
  <2> HIDE DEF c
  <2>2. CASE c.need >= Huge
    <3>1. Top.count = Huge /\ Missing(g) = Huge
      BY <1>2, <1>4, <2>2 DEF Missing
    <3>2. count = Huge
      BY <2>1, <3>1, DecrementedIs DEF count
    <3> QED BY <1>2, <1>3, <1>7, <2>1, <2>2, <3>1, <3>2
  <2>3. CASE ~(c.need >= Huge)
    <3>1. Top.count = c.need - Len(c.seen) /\ Missing(g) = c.need - Len(g.seen)
      BY <1>2, <1>4, <2>3 DEF Missing
    <3>2. Top.count \in Nat /\ Top.count # 0 /\ Top.count < Huge
      BY <1>2, <1>3, <2>1, <2>3, <3>1
    <3>3. count = Top.count - 1
      BY <3>2, DecrementedIs DEF count
    <3> QED BY <1>2, <1>3, <2>3, <3>1, <3>3
  <2> QED BY <2>2, <2>3
<1>9. CASE count # 0
  <2>1. Sound(g)
    <3>1. g.type \in {ByteString, TextString, ArrayType, MapType, TagType}
          /\ g.type \notin {ByteString, TextString} /\ g.type # TagType
      BY <1>2, <1>3 DEF ByteString, TextString, ArrayType, MapType, TagType
    <3> QED BY <1>2, <1>3, <1>8, <1>9, <3>1 DEF Sound
  <2>2. Mirrors(f, g)
    BY <1>5, <1>6, <1>8 DEF Mirrors
  <2>3. stack' = WithTop(f) /\ Continues("start") /\ UNCHANGED head
    BY <1>1, <1>9
  <2>4. \E p : Image(stack', p) /\ Midway(p)'
    BY <1>1, <2>1, <2>2, <2>3, ElementIn DEF g
  <2> QED BY <1>1, <2>3, <2>4, GoesOn
<1>10. CASE count = 0
  <2>1. IsFull(g)
    BY <1>8, <1>10 DEF IsFull
  <2>2. Pops(f.object)
    BY <1>1, <1>10
  <2>3. f.object = ObjectOf(g)
    BY <1>2, <1>3, <1>5, LooksObject
  <2>4. Obj(ObjectOf(g))
    BY <1>2, <1>3, ObjectOfIs
  <2>5. ObjectComplete(f.object) /\ stack' = Front(stack) /\ Continues("complete")
    BY <2>2 DEF Pops
  <2>6. \E p : Image(stack', p) /\ Done(p)'
    BY <1>1, <2>1, <2>3, <2>4, <2>5, ElementFull DEF g
  <2> QED BY <1>1, <2>5, <2>6, Popped
<1> QED BY <1>9, <1>10

\* An object more in an array or a map that ends with a break byte.
LEMMA IndefiniteReads ==
  ASSUME Inv, NEW o, Image(stack, o), Done(o), IndefiniteElement
  PROVE  ReadsInv'
<1> DEFINE c == Last(o)
           g == Grown(c, last)
<1>1. /\ StackInv /\ ControlInv /\ stack # <<>> /\ UNCHANGED <<head, raw, taken>>
      /\ Top.type \in {"array_indef", "map_key_indef", "map_value_indef"}
      /\ stack' = WithTop(Filled) /\ Continues("start")
  BY DEF IndefiniteElement, Inv, TypeInv
<1>2. /\ Sound(c) /\ Looks(Top, c) /\ IsContainer(c)
      /\ IsContainer(g) /\ g.type = c.type /\ g.need = c.need
  BY <1>1, TopGrown
<1>3. c.type \in {4, 5} /\ c.need = Endless
  BY <1>1, <1>2, SortOf
<1>4. FilledWith(Top, last, Filled)
  BY <1>1, FilledLooks
<1>5. Looks(Filled, g)
  <2> HIDE DEF c
  <2> QED BY <1>2, <1>3, <1>4, LooksGrown
<1> HIDE DEF g
<1>6. Sound(g)
  <2>1. g.type \in {ByteString, TextString, ArrayType, MapType, TagType}
        /\ g.type \notin {ByteString, TextString} /\ g.type # TagType
    BY <1>2, <1>3 DEF ByteString, TextString, ArrayType, MapType, TagType
  <2> QED BY <1>2, <1>3, <2>1 DEF Sound
<1>7. Mirrors(Filled, g)
  BY <1>2, <1>3, <1>5 DEF Mirrors
<1>8. \E p : Image(stack', p) /\ Midway(p)'
  BY <1>1, <1>6, <1>7, ElementIn DEF g
<1> QED BY <1>1, <1>8, GoesOn

\* A chunk of an indefinite string.
LEMMA ChunkReads ==
  ASSUME Inv, NEW o, Image(stack, o), Done(o), StringChunk
  PROVE  ReadsInv'
<1> DEFINE c == Last(o)
           g == Grown(c, last)
           f == [Top EXCEPT !.object = Str(last[2], Top.object[3] \o last[3])]
<1>1. /\ StackInv /\ ControlInv /\ stack # <<>> /\ UNCHANGED <<head, raw, taken>>
      /\ Top.type = "string_indef"
      /\ \/ IsChunk(last, Top.object) /\ stack' = WithTop(f) /\ Continues("start")
         \/ Raises("malformed")
  BY DEF StringChunk, Inv, TypeInv
<1>2. /\ Sound(c) /\ Looks(Top, c) /\ IsContainer(c)
      /\ IsContainer(g) /\ g.type = c.type /\ g.need = c.need
  BY <1>1, TopGrown
<1>3. c.type \in {2, 3}
  BY <1>1, <1>2, SortOf
<1>4. c.need = Endless /\ Top.object = Str(c.type = TextString, Chunks(c.seen))
  BY <1>2, <1>3 DEF Sound, Looks, ByteString, TextString
<1>5. CASE Raises("malformed")
  BY <1>5 DEF Raises, ReadsInv
<1>6. CASE IsChunk(last, Top.object) /\ stack' = WithTop(f) /\ Continues("start")
  <2>1. last[1] = "str" /\ last[2] = Top.object[2]
    BY <1>6 DEF IsChunk
  <2>2. Obj(last)
    BY DEF Done
  <2>3. last = Str(last[2], last[3]) /\ last[3] \in Seq(Byte)
    BY <2>1, <2>2 DEF Obj
  <2>4. Top.object[2] = (c.type = TextString)
    BY <1>4 DEF Str
  <2>5. last = Str(c.type = TextString, last[3])
    BY <2>1, <2>3, <2>4, Zenon
  <2>6. IsFrame(Top)
    BY <1>1, TopIs
  <2>7. Looks(f, g) /\ Strings(g)
    <3> HIDE DEF c
    <3> QED BY <1>2, <1>3, <2>3, <2>5, <2>6, LooksChunk
  <2> HIDE DEF g, f
  <2>8. Sound(g)
    <3>1. g.type \in {ByteString, TextString, ArrayType, MapType, TagType} /\ g.type # TagType
      BY <1>2, <1>3 DEF ByteString, TextString, ArrayType, MapType, TagType
    <3> QED BY <1>2, <1>4, <2>7, <3>1 DEF Sound
  <2>9. Mirrors(f, g)
    BY <1>2, <1>4, <2>7 DEF Mirrors
  <2>10. stack' = WithTop(f) /\ Continues("start")
    BY <1>6
  <2>11. \E p : Image(stack', p) /\ Midway(p)'
    BY <1>1, <2>8, <2>9, <2>10, ElementIn DEF g
  <2> QED BY <1>1, <2>10, <2>11, GoesOn
<1> QED BY <1>1, <1>5, <1>6

\* The object of a tag.
LEMMA TaggedReads ==
  ASSUME Inv, NEW o, Image(stack, o), Done(o), TaggedObject
  PROVE  ReadsInv'
<1> DEFINE c == Last(o)
           g == Grown(c, last)
           v == ProcessTag(Top.tag, last)
<1>1. /\ StackInv /\ ControlInv /\ stack # <<>> /\ UNCHANGED <<raw, taken>>
      /\ Top.type = "tag"
      /\ Pops(v) \/ Raises("raised")
  BY DEF TaggedObject, Inv, TypeInv
<1>2. /\ Sound(c) /\ Looks(Top, c) /\ IsContainer(c) /\ Len(c.seen) \in Nat
      /\ IsContainer(g) /\ g.type = c.type /\ g.need = c.need /\ g.tag = c.tag
      /\ Len(g.seen) = Len(c.seen) + 1 /\ g.seen[Len(c.seen) + 1] = last
  BY <1>1, TopGrown
<1>3. c.type = 6
  BY <1>1, <1>2, SortOf
<1>4. c.need = 1 /\ Len(c.seen) = 0 /\ Top.tag = c.tag
  <2>1. c.type = TagType
    BY <1>3 DEF TagType
  <2>2. c.need = 1 /\ (c.need = Endless \/ (c.need \in Nat /\ Len(c.seen) < c.need))
    BY <1>2, <2>1 DEF Sound
  <2>3. Top.tag = c.tag
    BY <1>2, <2>1 DEF Looks
  <2> HIDE DEF c
  <2> QED BY <1>2, <2>2, <2>3 DEF Endless
<1> HIDE DEF c
<1>5. IsFull(g) /\ g.seen[1] = last
  BY <1>2, <1>4 DEF IsFull
<1> HIDE DEF g
<1>6. v = ObjectOf(g)
  BY <1>2, <1>3, <1>4, <1>5, TagObject
<1>7. Obj(v)
  BY ProcessedIs
<1> HIDE DEF v
<1>8. CASE Raises("raised")
  BY <1>8 DEF Raises, ReadsInv
<1>9. CASE Pops(v)
  <2>1. ObjectComplete(v) /\ stack' = Front(stack) /\ Continues("complete")
    BY <1>9 DEF Pops
  <2>2. \E p : Image(stack', p) /\ Done(p)'
    BY <1>1, <1>5, <1>6, <1>7, <2>1, ElementFull DEF g, c
  <2> QED BY <1>1, <2>1, <2>2, Popped
<1> QED BY <1>1, <1>8, <1>9

\* A break byte ends the container on top, if it may.
LEMMA BreakByteReads ==
  ASSUME Inv, NEW o, Image(stack, o), Broke(o), BreakByte
  PROVE  ReadsInv'
<1> DEFINE c == Last(o)
<1>1. /\ StackInv /\ ControlInv /\ stack # <<>> /\ UNCHANGED <<raw, taken>>
      /\ (BreakAllowed(Top.type) /\ Pops(Top.object)) \/ Raises("malformed")
  BY DEF BreakByte, Inv, TypeInv
<1>2. Sound(c) /\ Looks(Top, c) /\ IsContainer(c) /\ Len(c.seen) \in Nat
  BY <1>1, TopGrown
<1>3. CASE Raises("malformed")
  BY <1>3 DEF Raises, ReadsInv
<1>4. CASE BreakAllowed(Top.type) /\ Pops(Top.object)
  <2>1. o # <<>> /\ AreContainers(o)
    BY <1>1, ImageTop DEF Image
  <2>2. Top.type \in {"map_key_indef", "array_indef", "string_indef"}
    BY <1>4 DEF BreakAllowed
  <2>3. ObjectComplete(Top.object) /\ stack' = Front(stack) /\ Continues("complete")
    BY <1>4 DEF Pops
  <2> HIDE DEF c
  <2>4. c.type \in {2, 3, 4, 5} /\ c.need = Endless /\ (c.type = 5 => Len(c.seen) % 2 = 0)
        /\ (c.type \in {2, 3} => Strings(c))
    <3>1. c.type \in {2, 3} => c.need = Endless /\ Strings(c)
      BY <1>2 DEF Sound, ByteString, TextString
    <3>2. CASE Top.type = "string_indef"
      <4>1. c.type \in {2, 3}
        BY <1>2, <3>2, SortOf
      <4>2. c.type # 5 /\ c.type \in {2, 3, 4, 5}
        BY <4>1
      <4> QED BY <3>1, <4>1, <4>2, Zenon
    <3>3. CASE Top.type = "array_indef"
      <4>1. c.type = 4 /\ c.need = Endless
        BY <1>2, <3>3, SortOf
      <4>2. c.type # 5 /\ c.type \notin {2, 3} /\ c.type \in {2, 3, 4, 5}
        BY <4>1
      <4> QED BY <4>1, <4>2, Zenon
    <3>4. CASE Top.type = "map_key_indef"
      <4>1. c.type = 5 /\ Len(c.seen) % 2 = 0 /\ c.need = Endless
        BY <1>2, <3>4, SortOf
      <4>2. c.type \notin {2, 3} /\ c.type \in {2, 3, 4, 5}
        BY <4>1
      <4> QED BY <4>1, <4>2, Zenon
    <3> QED BY <2>2, <3>2, <3>3, <3>4
  <2>5. MayBreak(c)
    <3>1. DOMAIN c.seen = 1 .. Len(c.seen)
      BY <1>2, LengthOf DEF IsContainer
    <3>2. c.type = MapType => Len(c.seen) % 2 = 0
      BY <2>4 DEF MapType
    <3>3. c.type \in {ByteString, TextString} => Strings(c)
      BY <2>4 DEF ByteString, TextString
    <3>4. c.type \in {ByteString, TextString} =>
            \A k \in DOMAIN c.seen : c.seen[k] = Str(c.type = TextString, c.seen[k][3])
      BY <3>1, <3>3 DEF Strings
    <3> QED BY <2>4, <3>2, <3>4 DEF MayBreak
  <2>6. Top.object = ObjectOf(c)
    BY <1>2, <2>4, LooksObject
  <2>7. Obj(ObjectOf(c))
    BY <1>2, <2>4, ObjectOfIs
  <2>8. PICK s : Ahead(s, o) /\ taken = s \o <<255>>
    BY DEF Broke
  <2>9. PICK z : z = s \o <<255>>
    OBVIOUS
  <2>10. PICK q : q = Front(o)
    OBVIOUS
  <2>11. Ready(s, o, <<>>) /\ Bound(o, Len(s)) /\ s \in Seq(Byte)
    BY <2>8 DEF Ahead, Ready
  <2>12. /\ z \in Seq(Byte) /\ Len(z) = Len(s) + 1 /\ Len(s) \in Nat
    <3>1. 255 \in Byte /\ AI(255) = 31
      BY DEF Byte, AI
    <3> QED BY <2>9, <2>11, <3>1, NextByteIs
  <2>13. z # <<>> /\ Len(z) - 1 = Len(s)
    BY <2>12, EmptySeq
  <2>14. Reaches(z, With(At(Len(z) + 1, q, <<>>), ObjectOf(c)))
    BY <2>1, <2>5, <2>9, <2>10, <2>11, BreakRead DEF c
  <2>15. Bound(q, Len(z) - 1)
    BY <2>1, <2>10, <2>11, <2>13, BoundFront
  <2>16. Image(stack', q)
    BY <1>1, <2>3, <2>10, ImagePopped
  <2>17. last' = ObjectOf(c) /\ head' = HEAD_BYTE_REQUIRED /\ taken' = z /\ raw'.left = 0
    BY <1>1, <2>3, <2>6, <2>8, <2>9 DEF ObjectComplete, Broke
  <2>18. Done(q)'
    BY <2>7, <2>12, <2>13, <2>14, <2>15, <2>17 DEF Done
  <2> QED BY <1>1, <2>3, <2>16, <2>18, Popped
<1> QED BY <1>1, <1>3, <1>4

-----------------------------------------------------------------------------
(* Every step keeps the reading *)

\* No item begins with the head of a map whose count has eight bytes: the
\* count of its keys and values wraps around.
NoLongMap == AtHead => Ib # 187

\* A step of a call.
LEMMA StepReads ==
  ASSUME Inv, BreaksEnd, ~SymbolizeKeys, PendingInv, NoLongMap, ReadsInv, Step
  PROVE  ReadsInv'
<1>1. Inv' /\ PendingInv'
  BY StepKeeps, StepPending
<1>2. CASE lost \/ Skipping
  BY <1>1, <1>2, SkippingStays
<1>3. CASE ~lost /\ ~Skipping
  <2>1. PICK o : Image(stack, o) /\ Phase(o)
    BY <1>3 DEF ReadsInv
  <2>2. CASE ReadPrimitive
    <3>1. Midway(o)
      BY <2>1, <2>2, PrimitiveEnds DEF Phase
    <3> QED BY <1>1, <2>1, <2>2, <3>1, PrimitiveReads DEF NoLongMap
  <2>3. CASE Finish
    <3>1. CASE \E r : Raises(r)
      BY <3>1 DEF Raises, ReadsInv
    <3>2. CASE Delivers(last)
      <4>1. taken' = <<>> /\ pc'.r \in {"start", "yield"}
        BY <3>2, DeliversIs DEF Ended, Inv, TypeInv
      <4> QED BY <1>1, <4>1, FreshReads
    <3> QED BY <2>3, <3>1, <3>2 DEF Finish
  <2>4. CASE CountedElement
    <3>1. Done(o)
      BY <2>1, <2>4 DEF CountedElement, Phase
    <3> QED BY <2>1, <2>4, <3>1, CountedReads
  <2>5. CASE IndefiniteElement
    <3>1. Done(o)
      BY <2>1, <2>5 DEF IndefiniteElement, Phase
    <3> QED BY <2>1, <2>5, <3>1, IndefiniteReads
  <2>6. CASE StringChunk
    <3>1. Done(o)
      BY <2>1, <2>6 DEF StringChunk, Phase
    <3> QED BY <2>1, <2>6, <3>1, ChunkReads
  <2>7. CASE TaggedObject
    <3>1. Done(o)
      BY <2>1, <2>7 DEF TaggedObject, Phase
    <3> QED BY <2>1, <2>7, <3>1, TaggedReads
  <2>8. CASE BreakByte
    <3>1. Broke(o)
      BY <2>1, <2>8 DEF BreakByte, Phase
    <3> QED BY <2>1, <2>8, <3>1, BreakByteReads
  <2>9. CASE SkippedElement
    <3>1. Skipping
      BY <2>9 DEF SkippedElement, InSkip, Completed, Skipping
    <3> QED BY <1>3, <3>1
  <2> QED BY <2>2, <2>3, <2>4, <2>5, <2>6, <2>7, <2>8, <2>9 DEF Step
<1> QED BY <1>2, <1>3

\* A call begins, its block goes on, or bytes are fed.
LEMMA QuietReads ==
  ASSUME RubyRuns, pc'.r \in {"start", "yield"}, UNCHANGED <<reader, taken, within, lost>>, ReadsInv
  PROVE  ReadsInv'
<1>1. pc.op # "skip" /\ pc.r \in {"start", "yield"}
  BY RubyRunsIs
<1>2. head' = head /\ stack' = stack /\ raw' = raw
  BY DEF reader
<1>3. Skipping => Skipping'
  BY <1>1, <1>2 DEF Skipping
<1>4. ASSUME NEW o, Image(stack, o), Midway(o) PROVE Phase(o)'
  <2>1. Midway(o)'
    BY <1>2, <1>4 DEF Midway, Before, InBody, Ahead
  <2> QED BY <2>1 DEF Phase
<1>5. CASE ~lost /\ ~Skipping
  <2>1. PICK o : Image(stack, o) /\ Phase(o)
    BY <1>5 DEF ReadsInv
  <2>2. Midway(o)
    BY <1>1, <2>1 DEF Phase
  <2> QED BY <1>2, <1>4, <2>1, <2>2 DEF ReadsInv
<1>6. CASE lost \/ Skipping
  BY <1>3, <1>6 DEF ReadsInv
<1> QED BY <1>5, <1>6

\* The methods that leave a head byte in head_byte as they find it.
Peeks == {"skip_nil", "read_array_header", "read_map_header"}

\* The mark for no head byte, 0xdf, is not fed, or nobody looks at a head byte.
NoMark == HEAD_BYTE_REQUIRED \notin Fed \/ Methods \cap Peeks = {}

\* skip_nil, and the header methods that find another head, or none.
LEMMA PeekReads ==
  ASSUME Inv, RubyRuns, HEAD_BYTE_REQUIRED \notin Fed, UNCHANGED <<stack, raw, last, pc, within, lost>>,
         \/ UNCHANGED <<unread, head, taken>>
         \/ HasHead /\ Takes(AfterHead) /\ head' = Ib,
         ReadsInv
  PROVE  ReadsInv'
<1>1. pc.op # "skip" /\ pc.r \in {"start", "yield"} /\ pc'.r \in {"start", "yield"} /\ BytesInv /\ StringInv
  BY RubyRunsIs DEF Inv, TypeInv
<1>2. CASE UNCHANGED <<unread, head, taken>>
  BY <1>1, <1>2, QuietReads DEF reader
<1>3. CASE HasHead /\ Takes(AfterHead) /\ head' = Ib /\ head # HEAD_BYTE_REQUIRED
  <2>1. AfterHead = unread /\ Ib = head /\ unread \in Seq(Byte) /\ taken \in Seq(Byte)
    BY <1>1, <1>3, BytesIn, HeadFacts
  <2>2. unread' = unread /\ taken' = taken \o SubSeq(unread, 1, Len(unread) - Len(unread))
    BY <1>3, <2>1 DEF Takes, Leaves, Gone
  <2>3. SubSeq(unread, 1, Len(unread) - Len(unread)) = <<>>
    <3>1. Len(unread) - Len(unread) = 0
      BY <2>1, LenProperties
    <3> QED BY <2>1, <3>1, SubSeqEmpty
  <2>4. taken' = taken
    BY <2>1, <2>2, <2>3, ConcatEmptySeq
  <2> QED BY <1>1, <1>3, <2>1, <2>4, QuietReads DEF reader
<1>4. CASE HasHead /\ Takes(AfterHead) /\ head' = Ib /\ head = HEAD_BYTE_REQUIRED
  <2>1. raw.left = 0
    <3>1. raw.left \in Nat
      BY DEF Inv, TypeInv, ControlInv, IsRaw
    <3>2. MajorType(223) = 6
      BY DEF MajorType
    <3> QED BY <1>1, <1>4, <3>1, <3>2 DEF StringInv, HEAD_BYTE_REQUIRED, IB_UNUSED, ByteString, TextString
  <2>2. Ib \in Fed /\ Ib \in Byte /\ AfterHead \in Seq(Byte)
    BY <1>1, <1>4, HeadFacts, BytesIn
  <2>3. Skipping => Skipping'
    BY <1>1 DEF Skipping
  <2>4. CASE lost \/ Skipping
    BY <2>3, <2>4 DEF ReadsInv
  <2>5. CASE ~lost /\ ~Skipping
    <3>1. PICK o : Image(stack, o) /\ Phase(o)
      BY <2>5 DEF ReadsInv
    <3>2. PICK s : Before(s, o)
      BY <1>1, <2>1, <3>1, AtHeadIs DEF Phase
    <3>3. <<>> \in Seq(Byte) /\ <<>> \o AfterHead = AfterHead /\ <<Ib>> \o <<>> = <<Ib>>
      <4>1. <<Ib>> \in Seq(Byte)
        BY <2>2, OneByte
      <4> QED BY <2>2, <4>1, EmptySeq, ConcatEmptySeq
    <3>4. taken' = s \o (<<Ib>> \o <<>>)
      BY <1>1, <1>4, <2>2, <3>2, <3>3, TakenBehind
    <3>5. taken' = s \o <<head'>> /\ head' # HEAD_BYTE_REQUIRED
      BY <1>4, <2>2, <3>3, <3>4
    <3>6. Before(s, o)'
      BY <3>2, <3>5 DEF Before, Ahead
    <3>7. Phase(o)'
      BY <1>1, <3>6 DEF Phase, Midway
    <3> QED BY <3>1, <3>7 DEF ReadsInv
  <2> QED BY <2>4, <2>5
<1> QED BY <1>2, <1>3, <1>4

\* A header is taken at the start of an item, or within one, which is lost then.
LEMMA HeaderReads ==
  ASSUME Inv', BreaksEnd, NoMark, Inv, NEW op \in Methods \cap Peeks, NEW type, ReadHeader(op, type), ReadsInv
  PROVE  ReadsInv'
<1>1. RubyRuns /\ UNCHANGED <<stack, raw, last, pc, within>> /\ HEAD_BYTE_REQUIRED \notin Fed
  BY DEF ReadHeader, NoMark
<1>2. CASE UNCHANGED lost /\ (UNCHANGED <<unread, head, taken>> \/ (HasHead /\ Takes(AfterHead) /\ head' = Ib))
  BY <1>1, <1>2, PeekReads
<1>3. CASE taken' = <<>>
  <2>1. pc'.r \in {"start", "yield"}
    BY <1>1, RubyRunsIs
  <2> QED BY <1>3, <2>1, FreshReads
<1> QED BY <1>2, <1>3 DEF ReadHeader

-----------------------------------------------------------------------------
(* The reading holds of every state *)

\* A step of somebody else leaves the reading as it is.
LEMMA StaysReads ==
  ASSUME ReadsInv, UNCHANGED vars
  PROVE  ReadsInv'
<1>1. UNCHANGED <<head, stack, raw, last, pc, taken, within, lost>>
  BY DEF vars
<1>2. ASSUME NEW o, Image(stack, o), Phase(o) PROVE Image(stack', o) /\ Phase(o)'
  BY <1>1, <1>2 DEF Phase, Midway, Before, InBody, Ahead, Done, Broke
<1>3. Skipping' = Skipping /\ lost' = lost
  BY <1>1 DEF Skipping
<1> QED BY <1>2, <1>3 DEF ReadsInv

\* Every step keeps the reading.
LEMMA NextReads ==
  ASSUME Inv, BreaksEnd, ~SymbolizeKeys, NoMark, PendingInv, NoLongMap, ReadsInv, [Next]_vars
  PROVE  ReadsInv'
<1>1. Inv' /\ ControlInv
  BY NextInv DEF Inv, TypeInv
<1>2. CASE Step
  BY <1>2, StepReads
<1>3. ASSUME NEW op \in {"read", "skip", "each"} \cap Methods, Call(op) PROVE ReadsInv'
  <2>1. RubyRuns /\ UNCHANGED <<reader, taken, within, lost>> /\ pc'.r = "start"
    BY <1>3 DEF Call
  <2> QED BY <2>1, QuietReads
<1>4. CASE CallDecode
  <2>1. RubyRuns /\ UNCHANGED <<reader, taken, within, lost>> /\ pc'.r = "start"
    BY <1>4 DEF CallDecode, RubyRuns, Idle
  <2> QED BY <2>1, QuietReads
<1>5. CASE BlockReturns \/ BlockLeaves
  <2>1. RubyRuns /\ UNCHANGED <<reader, taken, within, lost>>
    BY <1>5 DEF BlockReturns, BlockLeaves, RubyRuns
  <2>2. pc'.r = "start"
    BY <1>1, <1>5 DEF BlockReturns, BlockLeaves, Idle, ControlInv, Calls
  <2> QED BY <2>1, <2>2, QuietReads
<1>6. ASSUME "skip_nil" \in Methods, SkipNil PROVE ReadsInv'
  <2>1. HEAD_BYTE_REQUIRED \notin Fed
    BY <1>6 DEF NoMark, Peeks
  <2>2. /\ RubyRuns /\ UNCHANGED <<stack, raw, last, pc, within, lost>>
        /\ UNCHANGED <<unread, head, taken>> \/ (HasHead /\ Takes(AfterHead) /\ head' = Ib)
    BY <1>6 DEF SkipNil
  <2> QED BY <2>1, <2>2, PeekReads
<1>7. ASSUME NEW op \in Methods, op \in {"read_array_header", "read_map_header"}, NEW type, ReadHeader(op, type)
      PROVE  ReadsInv'
  <2>1. op \in Methods \cap Peeks
    BY <1>7 DEF Peeks
  <2> QED BY <1>1, <1>7, <2>1, HeaderReads
<1>8. ASSUME NEW bytes, Feed(bytes) PROVE ReadsInv'
  <2>1. RubyRuns /\ UNCHANGED <<reader, pc, taken, within, lost>>
    BY <1>8 DEF Feed
  <2>2. pc'.r \in {"start", "yield"}
    BY <2>1, RubyRunsIs
  <2> QED BY <2>1, <2>2, QuietReads
<1>9. ASSUME NEW bytes, FeedEach(bytes) PROVE ReadsInv'
  <2>1. RubyRuns /\ UNCHANGED <<reader, taken, within, lost>> /\ pc'.r = "start"
    BY <1>9 DEF FeedEach, RubyRuns, Idle
  <2> QED BY <2>1, QuietReads
<1>10. CASE Reset
  <2>1. RubyRuns /\ pc' = pc /\ taken' = <<>>
    BY <1>10 DEF Reset
  <2>2. pc'.r \in {"start", "yield"}
    BY <2>1, RubyRunsIs
  <2> QED BY <1>1, <2>1, <2>2, FreshReads
<1>11. CASE UNCHANGED vars
  BY <1>11, StaysReads
<1> QED BY <1>2, <1>3, <1>4, <1>5, <1>6, <1>7, <1>8, <1>9, <1>10, <1>11 DEF Next

\* Nor does one add bytes beyond the bound.
LEMMA NextPending == Inv /\ PendingInv /\ [Next]_vars => PendingInv'
<1> SUFFICES ASSUME Inv, PendingInv, [Next]_vars PROVE PendingInv'
  OBVIOUS
<1>1. BytesInv /\ unread \in Seq(Fed) /\ taken \in Seq(Fed) /\ Len(unread) \in Nat /\ Len(taken) \in Nat
      /\ MaxPending \in Nat
  <2>1. BytesInv
    BY DEF Inv, TypeInv
  <2>2. MaxPending \in Nat
    BY PendingIs
  <2> QED BY <2>1, <2>2, LenProperties DEF BytesInv
<1>2. CASE Step
  BY <1>2, StepPending
<1>3. CASE UNCHANGED <<unread, taken>>
  BY <1>3 DEF PendingInv
<1>4. CASE HasHead /\ Takes(AfterHead)
  <2>1. AfterHead \in Seq(Fed) /\ Len(AfterHead) <= Len(unread)
    BY <1>1, <1>4, HeadFacts
  <2> QED BY <1>1, <1>4, <2>1, TakesPending
<1>5. CASE HasHead /\ HasArg /\ Leaves(AfterArg) /\ taken' = <<>>
  <2>1. Len(AfterArg) \in Nat /\ Len(AfterArg) <= Len(AfterHead) /\ unread' = AfterArg
    BY <1>1, <1>5, ArgFacts DEF Leaves
  <2>2. Len(AfterHead) \in Nat /\ Len(AfterHead) <= Len(unread)
    BY <1>1, <1>5, HeadFacts
  <2>3. Len(taken') = 0 /\ Len(unread') \in Nat /\ Len(unread') <= Len(unread)
    BY <1>1, <1>5, <2>1, <2>2
  <2>4. Len(taken) + Len(unread) <= MaxPending
    BY DEF PendingInv
  <2>5. Len(taken') + Len(unread') <= MaxPending
    BY <1>1, <2>3, <2>4
  <2> QED BY <2>5 DEF PendingInv
<1>6. ASSUME NEW bytes \in Pieces, Len(taken) + Len(unread) + Len(bytes) <= MaxPending,
             unread' = unread \o bytes, UNCHANGED taken
      PROVE  PendingInv'
  <2>1. bytes \in Seq(Byte) /\ unread \in Seq(Byte)
    BY <1>1, BytesIn, PiecesAssumption DEF Byte
  <2>2. Len(unread') = Len(unread) + Len(bytes) /\ Len(bytes) \in Nat
    BY <1>6, <2>1, ConcatProperties, LenProperties
  <2> QED BY <1>1, <1>6, <2>2 DEF PendingInv
<1>7. ASSUME NEW op, NEW type, ReadHeader(op, type) PROVE PendingInv'
  <2>1. \/ UNCHANGED <<unread, taken>>
        \/ HasHead /\ Takes(AfterHead)
        \/ HasHead /\ HasArg /\ Leaves(AfterArg) /\ taken' = <<>>
    BY <1>7 DEF ReadHeader
  <2> QED BY <1>3, <1>4, <1>5, <2>1
<1>8. CASE SkipNil
  <2>1. UNCHANGED <<unread, taken>> \/ (HasHead /\ Takes(AfterHead))
    BY <1>8 DEF SkipNil
  <2> QED BY <1>3, <1>4, <2>1
<1>9. ASSUME NEW bytes \in Pieces, Feed(bytes) \/ FeedEach(bytes) PROVE PendingInv'
  <2>1. Len(taken) + Len(unread) + Len(bytes) <= MaxPending /\ unread' = unread \o bytes /\ UNCHANGED taken
    BY <1>9 DEF Feed, FeedEach
  <2> QED BY <1>6, <2>1
<1>10. CASE Reset
  <2>1. unread' = <<>> /\ taken' = <<>>
    BY <1>10 DEF Reset
  <2>2. Len(unread') = 0 /\ Len(taken') = 0
    BY <2>1
  <2> QED BY <1>1, <2>2 DEF PendingInv
<1>11. CASE (\E op : Call(op)) \/ CallDecode \/ BlockReturns \/ BlockLeaves \/ UNCHANGED vars
  <2>1. UNCHANGED <<unread, taken>>
    BY <1>11 DEF Call, CallDecode, BlockReturns, BlockLeaves, vars
  <2> QED BY <1>3, <2>1
<1> QED BY <1>2, <1>7, <1>8, <1>9, <1>10, <1>11 DEF Next

\* A new unpacker has read nothing.
LEMMA InitReads == Init => ReadsInv /\ PendingInv
<1> SUFFICES ASSUME Init PROVE ReadsInv /\ PendingInv
  OBVIOUS
<1>1. /\ unread = <<>> /\ head = HEAD_BYTE_REQUIRED /\ stack = <<>> /\ raw = NoRaw
      /\ pc = Idle /\ taken = <<>>
  BY DEF Init
<1>2. raw.left = 0 /\ pc.r = "start"
  BY <1>1 DEF NoRaw, Idle
<1>3. Before(<<>>, <<>>)
  BY <1>1, <1>2, AheadNone DEF Before
<1>4. Image(stack, <<>>) /\ Phase(<<>>)
  BY <1>1, <1>2, <1>3, ImageNone DEF Phase, Midway
<1>5. Len(taken) = 0 /\ Len(unread) = 0 /\ MaxPending >= 0
  BY <1>1, PendingIs
<1> QED BY <1>4, <1>5 DEF ReadsInv, PendingInv

-----------------------------------------------------------------------------
(* What a call that ends has read *)

\* A call that goes on has not returned.
LEMMA NoReturn ==
  ASSUME ControlInv, InRead, NEW r \in {"start", "complete", "break"}, Continues(r)
  PROVE  ~RubyRuns'
<1>1. pc'.op = pc.op /\ pc'.r = r
  BY ContinuesIs DEF Ends
<1> QED BY <1>1 DEF RubyRuns, Yields, Idle, InRead

\* How a read ends: in an error, with an object, or when the bytes run out.
LEMMA ReadEnds ==
  ASSUME Inv, InRead, Step, RubyRuns'
  PROVE  \/ out'.r \notin {"ok", "eof"}
         \/ pc.r = "complete" /\ stack = <<>> /\ Delivers(last)
         \/ out'.r = "eof" /\ HeadRunsOut
         \/ out'.r = "eof" /\ SplitString /\ Val > Len(AfterArg)
         \/ out'.r = "eof" /\ RestOfString /\ raw.left > Len(unread)
<1>1. ASSUME NEW r \in {"malformed", "deep", "raised"}, Raises(r)
      PROVE  out'.r \notin {"ok", "eof"}
  BY <1>1 DEF Raises
<1>2. ASSUME NEW r \in {"start", "complete", "break"} PROVE ~Continues(r)
  BY <1>2, NoReturn DEF Inv, TypeInv
<1>3. ASSUME RunsOut PROVE out'.r = "eof"
  BY <1>3 DEF RunsOut
<1>4. ASSUME NEW text, NEW body, NEW left \in Nat, NEW rest \in Seq(Byte), Body(text, body, left, rest)
      PROVE  RunsOut /\ left > Len(rest)
  <2> DEFINE n == IF left <= Len(rest) THEN left ELSE Len(rest)
  <2>1. Continues("complete") \/ (n < left /\ RunsOut)
    BY <1>4 DEF Body
  <2>2. Len(rest) \in Nat
    BY LenProperties
  <2>3. n < left => left > Len(rest)
    BY <2>2
  <2> HIDE DEF n
  <2> QED BY <1>2, <2>1, <2>3
<1>5. CASE HeadRunsOut
  BY <1>3, <1>5 DEF HeadRunsOut
<1>6. CASE SplitString
  <2>1. AtHead /\ Body(MajorType(Ib) = TextString, <<>>, Val, AfterArg)
    BY <1>6 DEF SplitString
  <2>2. Val \in Nat /\ AfterArg \in Seq(Byte)
    BY <2>1, ArgFacts, BytesIn DEF AtHead, Inv, TypeInv
  <2> DEFINE text == MajorType(Ib) = TextString
  <2>3. Body(text, <<>>, Val, AfterArg)
    BY <2>1
  <2> HIDE DEF text
  <2>4. RunsOut /\ Val > Len(AfterArg)
    BY <1>4, <2>2, <2>3
  <2> QED BY <1>3, <1>6, <2>4
<1>7. CASE RestOfString
  <2>1. raw.left \in Nat /\ unread \in Seq(Byte)
    BY BytesIn DEF Inv, TypeInv, ControlInv, IsRaw
  <2>2. RunsOut /\ raw.left > Len(unread)
    BY <1>4, <1>7, <2>1 DEF RestOfString
  <2> QED BY <1>3, <1>7, <2>2
<1>8. CASE Scalar \/ WholeString \/ Break
  BY <1>2, <1>8 DEF Scalar, WholeString, Break
<1>9. CASE Open \/ Invalid
  BY <1>1, <1>2, <1>9 DEF Open, Invalid
<1>10. CASE Finish
  <2>1. ~InSkip
    BY DEF InRead, InSkip
  <2> QED BY <1>1, <1>10, <2>1 DEF Finish
<1>11. CASE CountedElement \/ IndefiniteElement
  BY <1>2, <1>11 DEF CountedElement, IndefiniteElement, Pops
<1>12. CASE StringChunk \/ TaggedObject \/ BreakByte
  BY <1>1, <1>2, <1>12 DEF StringChunk, TaggedObject, BreakByte, Pops
<1>13. CASE SkippedElement
  BY <1>13 DEF SkippedElement, InSkip, InRead
<1> QED BY <1>5, <1>6, <1>7, <1>8, <1>9, <1>10, <1>11, <1>12, <1>13 DEF Step, ReadPrimitive

\* The object that is returned is the item its bytes stand for.
LEMMA DeliveredIs ==
  ASSUME NEW o, o = <<>>, Done(o)
  PROVE  HoldsItems(taken, <<last>>)
<1>1. taken \in Seq(Byte) /\ Reaches(taken, With(At(Len(taken) + 1, o, <<>>), last))
  BY DEF Done
<1>2. With(At(Len(taken) + 1, o, <<>>), last) = At(Len(taken) + 1, o, Append(<<>>, last))
  <2> DEFINE k == Len(taken) + 1
             w == <<>>
  <2> HIDE DEF k, w
  <2>1. With(At(k, o, w), last) = At(k, o, Append(w, last))
    BY WithIs
  <2> QED BY <2>1 DEF k, w
<1>3. Append(<<>>, last) = <<last>>
  OBVIOUS
<1> QED BY <1>1, <1>2, <1>3 DEF HoldsItems

\* That is what a reading of them gives.
LEMMA DeliveredReads ==
  ASSUME NEW o, o = <<>>, Done(o)
  PROVE  Reading(taken) = At(Len(taken) + 1, o, <<last>>)
<1>1. Ready(taken, o, <<last>>)
  BY DeliveredIs, ImageNone DEF Ready, HoldsItems
<1> QED BY <1>1, ReadsAll

\* A head that is not there, or whose argument is not, begins no item.
LEMMA NoHeadReads ==
  ASSUME BytesInv, NEW o, Midway(o), HeadRunsOut
  PROVE  Reading(taken \o unread).items = <<>>
<1>1. raw.left = 0 /\ (~HasHead \/ (HasHead /\ ~HasArg))
  BY DEF HeadRunsOut
<1>2. PICK s : Before(s, o)
  BY <1>1, AtHeadIs
<1>3. Ready(s, o, <<>>)
  BY <1>2 DEF Before, Ahead
<1>4. CASE ~HasHead
  <2>1. head = HEAD_BYTE_REQUIRED /\ unread = <<>>
    BY <1>4 DEF HasHead
  <2>2. taken = s /\ s \in Seq(Byte)
    BY <1>2, <1>3, <2>1 DEF Before, Ready
  <2>3. taken \o unread = s
    BY <2>1, <2>2, ConcatEmptySeq
  <2>4. Reading(s) = At(Len(s) + 1, o, <<>>)
    BY <1>3, ReadsAll
  <2> QED BY <2>3, <2>4, AtIs
<1>5. CASE HasHead /\ ~HasArg
  <2> DEFINE x == <<Ib>> \o AfterHead
  <2>1. taken \o unread = s \o x
    BY <1>2, <1>5, AllBytes
  <2>2. Ib \in Byte /\ AfterHead \in Seq(Byte)
    BY <1>5, BytesIn
  <2>3. <<Ib>> \in Seq(Byte) /\ Len(<<Ib>>) = 1 /\ <<Ib>>[1] = Ib
    BY <2>2, OneByte
  <2>4. x \in Seq(Byte) /\ Len(x) = 1 + Len(AfterHead) /\ x[1] = Ib /\ Len(AfterHead) \in Nat
    BY <2>2, <2>3, ConcatProperties, LenProperties
  <2> HIDE DEF x
  <2>5. x # <<>>
    BY <2>4
  <2>6. ArgWidth(Ib) \in Nat
    BY WidthAt
  <2>7. ~(1 + ArgWidth(x[1]) <= Len(x))
    BY <1>5, <2>4, <2>6 DEF HasArg
  <2>8. Reading(s \o x) = At(Len(s) + 1, o, <<>>)
    BY <1>3, <2>4, <2>5, <2>7, UnfinishedHead
  <2> QED BY <2>1, <2>8, AtIs
<1> QED BY <1>1, <1>4, <1>5

\* Nor does the head of a string whose bytes are not all there.
LEMMA NoBodyReads ==
  ASSUME BytesInv, NEW o, Midway(o), SplitString, Val > Len(AfterArg)
  PROVE  Reading(taken \o unread).items = <<>>
<1>1. AtHead /\ raw.left = 0 /\ HasHead /\ HasArg /\ (Is(ByteString, Definite) \/ Is(TextString, Definite))
  BY DEF SplitString, AtHead
<1>2. PICK s : Before(s, o)
  BY <1>1, AtHeadIs
<1>3. Ready(s, o, <<>>)
  BY <1>2 DEF Before, Ahead
<1> DEFINE h == HeadBytes
           u == SubSeq(AfterHead, 1, ArgWidth(Ib))
<1>4. taken \o unread = s \o (<<Ib>> \o AfterHead)
  BY <1>1, <1>2, AllBytes
<1>5. h = <<Ib>> \o u /\ u \in Seq(Byte) /\ AfterHead = u \o AfterArg
  BY <1>1, HeadBytesAre
<1>6. AfterArg \in Seq(Byte) /\ Ib \in Byte
  BY <1>1, BytesIn
<1>7. StringHead(h) /\ Count(ArgumentAt(h, 1)) = Val
  BY <1>1, StringHeadIs
<1> HIDE DEF h, u
<1>8. <<Ib>> \o AfterHead = h \o AfterArg
  <2> DEFINE i == <<Ib>>
             v == AfterArg
  <2>1. i \in Seq(Byte) /\ v \in Seq(Byte)
    BY <1>6, OneByte
  <2> HIDE DEF i, v
  <2>2. (i \o u) \o v = i \o (u \o v)
    BY ONLY <1>5, <2>1, ConcatAssociative
  <2> QED BY <1>5, <2>2 DEF i, v
<1>9. Len(AfterArg) < Val
  <2>1. Val \in Nat /\ Len(AfterArg) \in Nat
    BY <1>1, <1>6, ArgFacts, LenProperties
  <2> QED BY <2>1
<1> DEFINE b == AfterArg
<1>10. b \in Seq(Byte) /\ Len(b) < Count(ArgumentAt(h, 1))
  BY <1>6, <1>7, <1>9
<1> HIDE DEF b
<1>11. Reading(s \o (h \o b)) = At(Len(s) + 1, o, <<>>)
  BY <1>3, <1>7, <1>10, UnfinishedBody DEF StringHead
<1>12. taken \o unread = s \o (h \o b)
  BY <1>4, <1>8 DEF b
<1> QED BY <1>11, <1>12, AtIs

\* Nor does a string of which some bytes are there.
LEMMA NoRestReads ==
  ASSUME BytesInv, ControlInv, PendingInv, NEW o, Midway(o), RestOfString, raw.left > Len(unread)
  PROVE  Reading(taken \o unread).items = <<>>
<1>1. raw.left > 0
  BY DEF RestOfString
<1>2. PICK s, h, b : InBody(s, h, b, o)
  BY <1>1 DEF Midway, Before
<1>3. /\ Ready(s, o, <<>>) /\ StringHead(h) /\ b \in Seq(Byte) /\ taken = s \o (h \o b)
      /\ Lacks(b, raw.left, Count(ArgumentAt(h, 1)))
  BY <1>2 DEF InBody, Ahead
<1>4. s \in Seq(Byte) /\ h \in Seq(Byte) /\ unread \in Seq(Byte)
  BY <1>3, BytesIn DEF Ready, StringHead, HeadFirst
<1> DEFINE x == unread
           t == b \o x
           count == Count(ArgumentAt(h, 1))
<1>5. t \in Seq(Byte) /\ Len(t) = Len(b) + Len(x) /\ Len(b) \in Nat /\ Len(x) \in Nat
  BY <1>3, <1>4, ConcatProperties, LenProperties
<1>6. taken \o unread = s \o (h \o t)
  <2> DEFINE y == h \o b
  <2>1. y \in Seq(Byte) /\ x \in Seq(Byte)
    BY <1>3, <1>4, ConcatProperties
  <2>2. y \o x = h \o t
    <3> HIDE DEF x
    <3>1. (h \o b) \o x = h \o (b \o x)
      BY ONLY <1>3, <1>4, <2>1, ConcatAssociative
    <3> QED BY <3>1
  <2> HIDE DEF x, y, t
  <2>3. (s \o y) \o x = s \o (y \o x)
    BY ONLY <1>4, <2>1, ConcatAssociative
  <2> QED BY <1>3, <2>2, <2>3 DEF x, y
<1>7. Len(b) + Len(x) < Huge
  <2>1. Len(b) <= Len(taken) /\ Len(taken) \in Nat
    BY <1>3, <1>4, Lengthened
  <2>2. Len(taken) + Len(x) <= MaxPending
    BY DEF PendingInv
  <2>3. MaxPending \in Nat /\ MaxPending < Huge /\ Huge \in Nat
    BY PendingIs
  <2> QED BY <1>5, <2>1, <2>2, <2>3
<1>8. count \in Nat /\ Huge \in Nat
  BY <1>3, StringCount
<1> HIDE DEF count
<1>9. Len(b) + Len(x) < count
  <2>1. raw.left = IF count = Huge THEN Huge ELSE count - Len(b)
    BY <1>3 DEF Lacks, count
  <2> QED BY <1>5, <1>7, <1>8, <2>1
<1> HIDE DEF t, x
<1>10. Len(t) < Count(ArgumentAt(h, 1))
  BY <1>5, <1>9 DEF count
<1>11. Reading(s \o (h \o t)) = At(Len(s) + 1, o, <<>>)
  BY <1>3, <1>5, <1>10, UnfinishedBody DEF StringHead
<1> QED BY <1>6, <1>11, AtIs

\* A read that ends has returned the item, or there is none.
LEMMA DeliversStep ==
  ASSUME Inv, PendingInv, ReadsInv, ~lost, within # "skip", InRead, Step, RubyRuns'
  PROVE  /\ out'.r = "ok" => Reading(taken) = [at |-> Len(taken) + 1, open |-> <<>>, items |-> <<out'.v>>]
         /\ out'.r = "eof" => Reading(taken \o unread).items = <<>>
<1>1. BytesInv /\ ControlInv /\ StackInv
  BY DEF Inv, TypeInv
<1>2. ~Skipping
  BY DEF Skipping, InRead
<1>3. PICK o : Image(stack, o) /\ Phase(o)
  BY <1>2 DEF ReadsInv
<1>4. CASE out'.r \notin {"ok", "eof"}
  BY <1>4
<1>5. CASE pc.r = "complete" /\ stack = <<>> /\ Delivers(last)
  <2>1. o = <<>> /\ Done(o)
    BY <1>1, <1>3, <1>5, ImageTop DEF Phase
  <2>2. Reading(taken) = At(Len(taken) + 1, <<>>, <<last>>)
    <3>1. Reading(taken) = At(Len(taken) + 1, o, <<last>>)
      BY <2>1, DeliveredReads
    <3> QED BY <2>1, <3>1
  <2>3. pc.op # "skip"
    BY DEF InRead
  <2>4. out'.r # "eof" /\ (out'.r = "ok" => out'.v = last)
    BY <1>5, <2>3 DEF Delivers
  <2> QED BY <2>2, <2>4 DEF At
<1>6. CASE /\ out'.r = "eof"
            /\ \/ HeadRunsOut
               \/ SplitString /\ Val > Len(AfterArg)
               \/ RestOfString /\ raw.left > Len(unread)
  <2>1. pc.r = "start"
    BY <1>6 DEF HeadRunsOut, SplitString, RestOfString, AtHead, AtPrimitive
  <2>2. Midway(o)
    BY <1>3, <2>1 DEF Phase
  <2>3. CASE HeadRunsOut
    BY <1>1, <1>6, <2>2, <2>3, NoHeadReads
  <2>4. CASE SplitString /\ Val > Len(AfterArg)
    BY <1>1, <1>6, <2>2, <2>4, NoBodyReads
  <2>5. CASE RestOfString /\ raw.left > Len(unread)
    BY <1>1, <1>6, <2>2, <2>5, NoRestReads
  <2> QED BY <1>6, <2>3, <2>4, <2>5
<1> QED BY <1>4, <1>5, <1>6, ReadEnds

-----------------------------------------------------------------------------
(* What a stream of reads does with its bytes *)

\* r is the end of what has not been taken.
EndsUnread(r) == r \in Seq(Byte) /\ \E g \in Seq(Byte) : unread = g \o r

\* Bytes that are taken are still there.
LEMMA TakesNone ==
  ASSUME BytesInv, NEW r, EndsUnread(r), Takes(r)
  PROVE  taken' \o unread' = taken \o unread
<1> DEFINE x == SubSeq(unread, 1, Len(unread) - Len(r))
<1>1. unread' = r /\ taken' = taken \o x
  BY DEF Takes, Leaves, Gone
<1>2. r \in Seq(Byte) /\ taken \in Seq(Byte)
  BY BytesIn DEF EndsUnread
<1>3. PICK g \in Seq(Byte) : unread = g \o r
  BY DEF EndsUnread
<1>4. SubSeq(g \o r, 1, Len(g)) = g
  BY ONLY <1>2, <1>3, ConcatCut
<1>5. Len(unread) - Len(r) = Len(g)
  <2>1. Len(unread) = Len(g) + Len(r)
    BY <1>2, <1>3, ConcatProperties
  <2>2. Len(g) \in Nat /\ Len(r) \in Nat
    BY <1>2, LenProperties
  <2> QED BY <2>1, <2>2
<1>6. x = g
  BY <1>3, <1>4, <1>5
<1> HIDE DEF x
<1>7. (taken \o g) \o r = taken \o (g \o r)
  BY <1>2, RowAssociative DEF Row
<1> QED BY <1>1, <1>3, <1>6, <1>7

\* All of it, and what is behind a head byte and behind its argument.
LEMMA EndsAre ==
  ASSUME BytesInv
  PROVE  /\ EndsUnread(unread)
         /\ HasHead => EndsUnread(AfterHead)
         /\ HasHead /\ HasArg => EndsUnread(AfterArg)
<1>1. unread \in Seq(Byte) /\ <<>> \in Seq(Byte)
  BY BytesIn, EmptySeq
<1>2. EndsUnread(unread)
  <2>1. <<>> \o unread = unread
    BY ONLY <1>1, ConcatEmptySeq
  <2> QED BY <1>1, <2>1 DEF EndsUnread
<1>3. ASSUME HasHead PROVE EndsUnread(AfterHead)
  <2>1. Ib \in Byte /\ AfterHead \in Seq(Byte) /\ <<Ib>> \in Seq(Byte)
    BY <1>3, BytesIn, OneByte
  <2>2. CASE head = HEAD_BYTE_REQUIRED
    <3>1. unread # <<>> /\ Ib = Head(unread) /\ AfterHead = Tail(unread)
      BY <1>3, <2>2 DEF HasHead, Ib, AfterHead
    <3>2. unread = <<Ib>> \o AfterHead
      BY <1>1, <3>1
    <3> QED BY <2>1, <3>2 DEF EndsUnread
  <2>3. CASE head # HEAD_BYTE_REQUIRED
    BY <1>2, <2>3 DEF AfterHead
  <2> QED BY <2>2, <2>3
<1>4. ASSUME HasHead, HasArg PROVE EndsUnread(AfterArg)
  <2> DEFINE u == SubSeq(AfterHead, 1, ArgWidth(Ib))
             v == AfterArg
             h == AfterHead
  <2>1. u \in Seq(Byte) /\ h = u \o v /\ v \in Seq(Byte)
    BY <1>4, HeadBytesAre, BytesIn
  <2>2. PICK g \in Seq(Byte) : unread = g \o h
    BY <1>3, <1>4 DEF EndsUnread
  <2> HIDE DEF u, v, h
  <2>3. (g \o u) \o v = g \o (u \o v)
    BY ONLY <2>1, <2>2, RowAssociative DEF Row
  <2>4. g \o u \in Seq(Byte)
    BY <2>1, <2>2, Joined
  <2> QED BY <2>1, <2>2, <2>3, <2>4 DEF EndsUnread, v
<1> QED BY <1>2, <1>3, <1>4

\* What is left of it behind so many bytes.
LEMMA EndsCut ==
  ASSUME NEW r, EndsUnread(r), NEW n \in 0 .. Len(r)
  PROVE  EndsUnread(SubSeq(r, n + 1, Len(r)))
<1> DEFINE u == SubSeq(r, 1, n)
           v == SubSeq(r, n + 1, Len(r))
<1>1. PICK g \in Seq(Byte) : unread = g \o r
  BY DEF EndsUnread
<1>2. u \in Seq(Byte) /\ v \in Seq(Byte) /\ r = u \o v
  BY CutConcat DEF EndsUnread
<1> HIDE DEF u, v
<1>3. (g \o u) \o v = g \o (u \o v)
  BY ONLY <1>1, <1>2, RowAssociative DEF Row
<1>4. g \o u \in Seq(Byte)
  BY <1>1, <1>2, Joined
<1> QED BY <1>1, <1>2, <1>3, <1>4 DEF EndsUnread, v

\* The bytes of a string are taken from what it is offered.
LEMMA BodyStays ==
  ASSUME BytesInv, NEW text, NEW body, NEW left \in Nat, NEW rest, EndsUnread(rest),
         Body(text, body, left, rest)
  PROVE  taken' \o unread' = taken \o unread
<1> DEFINE n == IF left <= Len(rest) THEN left ELSE Len(rest)
           r == SubSeq(rest, n + 1, Len(rest))
<1>1. Takes(r)
  BY DEF Body
<1>2. Len(rest) \in Nat
  BY LenProperties DEF EndsUnread
<1>3. n \in 0 .. Len(rest)
  BY <1>2
<1> HIDE DEF n
<1>4. EndsUnread(r)
  BY <1>3, EndsCut
<1> HIDE DEF r
<1> QED BY <1>1, <1>4, TakesNone

\* A step that gives no object keeps the bytes of the item, those that it has
\* taken before those that it has not.
LEMMA BytesStay ==
  ASSUME BytesInv, ControlInv, Step, ~(Finish /\ Delivers(last))
  PROVE  taken' \o unread' = taken \o unread
<1>1. CASE HeadRunsOut
  <2>1. CASE HasHead /\ Takes(AfterHead)
    BY <2>1, EndsAre, TakesNone
  <2> QED BY <1>1, <2>1 DEF HeadRunsOut
<1>2. CASE AtHead /\ Takes(AfterArg)
  BY <1>2, EndsAre, TakesNone DEF AtHead
<1>3. CASE WholeString
  <2>1. AtHead /\ Val <= Len(AfterArg) /\ Val > 0 /\ Takes(SubSeq(AfterArg, Val + 1, Len(AfterArg)))
    BY <1>3 DEF WholeString
  <2>2. Val \in 0 .. Len(AfterArg)
    BY <2>1, ArgFacts DEF AtHead
  <2> DEFINE r == SubSeq(AfterArg, Val + 1, Len(AfterArg))
  <2>3. EndsUnread(r)
    BY <2>1, <2>2, EndsAre, EndsCut DEF AtHead
  <2>4. Takes(r)
    BY <2>1
  <2> HIDE DEF r
  <2> QED BY <2>3, <2>4, TakesNone
<1>4. CASE SplitString
  <2> DEFINE text == MajorType(Ib) = TextString
  <2>1. AtHead /\ Body(text, <<>>, Val, AfterArg)
    BY <1>4 DEF SplitString
  <2>2. Val \in Nat /\ EndsUnread(AfterArg)
    BY <2>1, ArgFacts, EndsAre DEF AtHead
  <2> HIDE DEF text
  <2> QED BY <2>1, <2>2, BodyStays
<1>5. CASE RestOfString
  <2>1. Body(raw.text, raw.body, raw.left, unread)
    BY <1>5 DEF RestOfString
  <2>2. raw.left \in Nat
    BY DEF ControlInv, IsRaw
  <2> QED BY <2>1, <2>2, EndsAre, BodyStays
<1>6. CASE UNCHANGED <<unread, taken>>
  BY <1>6
<1>7. \/ HeadRunsOut
      \/ AtHead /\ Takes(AfterArg)
      \/ WholeString
      \/ SplitString
      \/ RestOfString
      \/ UNCHANGED <<unread, taken>>
  <2>1. CASE ReadPrimitive
    <3>1. Scalar \/ Open \/ Break \/ Invalid => AtHead /\ Takes(AfterArg)
      BY DEF Scalar, Open, Break, Invalid
    <3> QED BY <2>1, <3>1 DEF ReadPrimitive
  <2>2. CASE Finish
    BY <2>2 DEF Finish
  <2>3. CASE CountedElement \/ IndefiniteElement \/ StringChunk
    BY <2>3 DEF CountedElement, IndefiniteElement, StringChunk
  <2>4. CASE TaggedObject \/ BreakByte \/ SkippedElement
    BY <2>4 DEF TaggedObject, BreakByte, SkippedElement
  <2> QED BY <2>1, <2>2, <2>3, <2>4 DEF Step
<1> QED BY <1>1, <1>2, <1>3, <1>4, <1>5, <1>6, <1>7

\* And it goes on, or ends without one.
LEMMA StepEnds ==
  ASSUME Step, ~(Finish /\ Delivers(last))
  PROVE  \/ RunsOut
         \/ \E r : Raises(r)
         \/ \E r \in {"start", "complete", "break"} : Continues(r)
<1>1. CASE ReadPrimitive
  BY <1>1, PrimitiveEnds
<1>2. CASE Finish
  BY <1>2 DEF Finish
<1>3. CASE CountedElement
  BY <1>3 DEF CountedElement, Pops
<1>4. CASE IndefiniteElement \/ StringChunk
  BY <1>4 DEF IndefiniteElement, StringChunk
<1>5. CASE TaggedObject \/ BreakByte
  BY <1>5 DEF TaggedObject, BreakByte, Pops
<1>6. CASE SkippedElement
  BY <1>6 DEF SkippedElement, Pops
<1> QED BY <1>1, <1>2, <1>3, <1>4, <1>5, <1>6 DEF Step

\* each alone, with nothing but its own reads within: an exception ends it.
Streams == /\ within # "skip" /\ ~pc.inEach /\ pc.op \in {"none", "each"}
           /\ lost => pc.op = "none"

\* Its reading is not a skip's.
LEMMA ReadsHere ==
  ASSUME ReadsInv, Streams, pc.op = "each"
  PROVE  \E o : Image(stack, o) /\ Phase(o)
BY DEF ReadsInv, Skipping, Streams

\* A turn of each gives the object that its bytes stand for and is at the start
\* of the next, or it keeps them.
LEMMA EachReads ==
  ASSUME Inv, ReadsInv, Streams, Step
  PROVE  /\ Streams' /\ ~lost
         /\ pc'.r = "yield" =>
              /\ ~lost' /\ taken' = <<>> /\ unread' = unread
              /\ HoldsItems(taken, <<out'.v>>)
         /\ pc'.r # "yield" => taken' \o unread' = taken \o unread
<1>1. BytesInv /\ ControlInv /\ StackInv /\ pc \in Calls
  BY DEF Inv, TypeInv, ControlInv
<1>2. pc.op = "each" /\ ~lost
  <2>1. ReadPrimitive => pc.op # "none"
    BY DEF ReadPrimitive, HeadRunsOut, Scalar, WholeString, SplitString, RestOfString, Open, Break,
       Invalid, AtHead, AtPrimitive
  <2>2. pc.op # "none"
    BY <2>1 DEF Step, Finish, CountedElement, IndefiniteElement, StringChunk, TaggedObject, BreakByte,
       SkippedElement, Completed
  <2> QED BY <2>2 DEF Streams
<1>3. CASE Finish /\ Delivers(last)
  <2>1. /\ pc' = [pc EXCEPT !.r = "yield"] /\ within' = "no" /\ lost' = lost /\ taken' = <<>>
        /\ out' = [op |-> "each", r |-> "ok", v |-> last]
    <3>1. pc.op # "decode" /\ pc.op # "skip" /\ pc.op = "each"
      BY <1>2
    <3>2. pc' = [pc EXCEPT !.r = "yield"]
      BY <1>3, <3>1 DEF Delivers
    <3>3. out' = [op |-> pc.op, r |-> "ok", v |-> last]
      BY <1>3, <3>1 DEF Delivers
    <3>4. lost' = (lost \/ pc.op = "decode") /\ within' = "no" /\ taken' = <<>>
      BY <1>3, Zenon DEF Delivers
    <3>5. lost' = lost
      BY <1>1, <1>2, <3>1, <3>4 DEF ControlInv
    <3> QED BY <3>1, <3>2, <3>3, <3>4, <3>5
  <2>2. pc'.op = "each" /\ pc'.r = "yield" /\ pc'.inEach = pc.inEach
    BY <1>1, <1>2, <2>1 DEF Calls
  <2>3. stack = <<>> /\ pc.r = "complete" /\ unread' = unread
    <3>1. ~Raises("malformed")
      BY <2>2 DEF Raises, Returns, Idle, Streams
    <3>2. ~InSkip
      BY <1>2 DEF InSkip
    <3> QED BY <1>3, <3>1, <3>2 DEF Finish
  <2>4. PICK o : Image(stack, o) /\ Phase(o)
    BY <1>2, ReadsHere
  <2>5. o = <<>> /\ Done(o)
    BY <1>1, <2>3, <2>4, ImageTop DEF Phase
  <2>6. HoldsItems(taken, <<last>>)
    BY <2>5, DeliveredIs
  <2> QED BY <1>2, <2>1, <2>2, <2>3, <2>6 DEF Streams
<1>4. CASE ~(Finish /\ Delivers(last))
  <2>1. taken' \o unread' = taken \o unread
    BY <1>1, <1>4, BytesStay
  <2>2. CASE RunsOut \/ \E r : Raises(r)
    <3>1. pc' = Idle
      BY <2>2 DEF RunsOut, Raises, Returns, Streams
    <3>2. within' \in {"no", "read", within}
      BY <1>2, <2>2 DEF RunsOut, Raises, Streams
    <3> QED BY <1>2, <2>1, <3>1, <3>2 DEF Idle, Streams
  <2>3. CASE \E r \in {"start", "complete", "break"} : Continues(r)
    <3>1. PICK r \in {"start", "complete", "break"} : Continues(r)
      BY <2>3
    <3>2. pc'.op = pc.op /\ pc'.r = r /\ pc'.inEach = pc.inEach /\ within' = within /\ lost' = lost
      BY <1>1, <3>1 DEF Continues, Calls
    <3> QED BY <1>2, <2>1, <3>2 DEF Streams
  <2> QED BY <1>4, <2>2, <2>3, StepEnds
<1> QED BY <1>3, <1>4

\* A reading of s comes to the head of a map with a count of eight bytes.
MeetsLongMap(s) == \E p : Reaches(s, p) /\ LongMap(s, p)

\* When such a head is next for the unpacker, a reading of all the bytes that
\* it was fed comes to it, those of the items before among them.
LEMMA LongMapComes ==
  ASSUME Inv, ReadsInv, Streams, AtHead, Ib = 187, NEW d, NEW w, HoldsItems(d, w)
  PROVE  MeetsLongMap(d \o (taken \o unread))
<1>1. BytesInv /\ HasHead /\ HasArg /\ raw.left = 0 /\ pc.op = "each" /\ ~lost /\ pc.r = "start"
  BY DEF Inv, TypeInv, AtHead, AtPrimitive, Streams
<1>2. PICK o : Image(stack, o) /\ Phase(o)
  BY <1>1, ReadsHere
<1>3. PICK s : Before(s, o)
  BY <1>1, <1>2, AtHeadIs DEF Phase
<1> DEFINE x == <<Ib>> \o AfterHead
           t == taken \o unread
           k == Len(s) + 1
           w0 == <<>>
           r == At(k, o, w0)
           q == Moved(d, w, r)
           j == Len(d) + k
           z == d \o t
<1>4. t = s \o x
  BY <1>1, <1>3, AllBytes
<1>5. s \in Seq(Byte) /\ Reaches(s, r) /\ Waiting(o)
  BY <1>3 DEF Before, Ahead, Ready
<1>6. HeadFirst(x) /\ x[1] = 187 /\ x \in Seq(Byte)
  <2>1. Ib \in Byte /\ AfterHead \in Seq(Byte) /\ <<Ib>> \in Seq(Byte)
    BY <1>1, BytesIn, OneByte
  <2>2. x \in Seq(Byte) /\ Len(x) = 1 + Len(AfterHead) /\ x[1] = Ib /\ Len(AfterHead) \in Nat
    BY <2>1, ConcatProperties, LenProperties
  <2> HIDE DEF x
  <2>3. x # <<>>
    BY <2>2
  <2>4. ArgWidth(Ib) \in Nat
    BY WidthAt
  <2>5. 1 + ArgWidth(x[1]) <= Len(x)
    BY <1>1, <2>2, <2>4 DEF HasArg
  <2>6. AI(x[1]) < 28
    BY <2>2, LongMapHead
  <2> QED BY <2>2, <2>3, <2>5, <2>6 DEF HeadFirst
<1> HIDE DEF x
<1>7. t \in Seq(Byte) /\ Reaches(t, r)
  <2> HIDE DEF r
  <2> QED BY <1>4, <1>5, <1>6, ReachesMore, Joined
<1>8. HeadLies(s, x, t, k)
  BY <1>4, <1>5, <1>6, NextHeadIs
<1>9. HeadAt(t, k) /\ t[k] = 187 /\ k \in Nat \ {0}
  BY <1>6, <1>8 DEF HeadLies
<1> HIDE DEF k, w0, t, z
<1>10. HeadMoved(d, t, z, k, j)
  <2>1. z = d \o t
    BY DEF z
  <2> QED BY <1>7, <1>9, <2>1, HeadMovedIs DEF HoldsItems
<1>11. HeadAt(z, j) /\ z[j] = 187
  BY <1>9, <1>10 DEF HeadMoved
<1>12. Reaches(z, q)
  <2> HIDE DEF r
  <2>1. z = d \o t
    BY DEF z
  <2> QED BY <1>7, <2>1, ReachesBehind DEF HoldsItems
<1>13. q = At(j, o, w \o w0)
  BY MovedIs
<1> HIDE DEF q, j
<1>14. q.at = j /\ q.open = o
  BY <1>13, AtIs
<1>15. LongMap(z, q)
  BY <1>5, <1>11, <1>14 DEF LongMap
<1>16. MeetsLongMap(z)
  BY <1>12, <1>15 DEF MeetsLongMap
<1> QED BY <1>16 DEF z, t

-----------------------------------------------------------------------------
(* The theorem *)

\* A read returns the item that its bytes stand for, from the first to the last
\* and no further, and runs out of bytes only if those there are hold none,
\* whatever was fed and called before: with the keys of maps left strings, for
\* an unpacker that is not fed a break byte if it skips, nor the byte 0xdf if
\* it looks for nil or a header, and as long as no item begins with a map head
\* of eight bytes.
THEOREM ItemsDelivered ==
  ASSUME ~SymbolizeKeys, BreaksEnd, NoMark
  PROVE  Spec /\ []NoLongMap => DeliversItems
<1>1. Init => Inv /\ PendingInv /\ ReadsInv
  BY InitInv, InitReads
<1>2. Inv /\ PendingInv /\ ReadsInv /\ NoLongMap /\ [Next]_vars => Inv' /\ PendingInv' /\ ReadsInv'
  BY NextInv, NextPending, NextReads
<1>3. Inv /\ PendingInv /\ ReadsInv =>
        [~lost /\ within # "skip" /\ InRead /\ Step /\ RubyRuns' =>
           /\ out'.r = "ok" =>
                Reading(taken) = [at |-> Len(taken) + 1, open |-> <<>>, items |-> <<out'.v>>]
           /\ out'.r = "eof" => Reading(taken \o unread).items = <<>>]_vars
  BY DeliversStep
<1> QED BY <1>1, <1>2, <1>3, PTL DEF Spec, DeliversItems

\* In particular if the head byte of such a map is never fed.
COROLLARY ShortMapsDelivered ==
  ASSUME ~SymbolizeKeys, BreaksEnd, NoMark, 187 \notin Fed
  PROVE  Spec => DeliversItems
<1>1. Inv => NoLongMap
  BY HeadFacts DEF Inv, TypeInv, NoLongMap, AtHead
<1> QED BY <1>1, AlwaysInv, ItemsDelivered, PTL
=============================================================================
