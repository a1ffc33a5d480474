------------------------------ MODULE Unpacker ------------------------------
(***************************************************************************)
(* The incremental decoder (ext/cbor/unpacker.c, unpacker.h) and the       *)
(* methods of CBOR::Unpacker (unpacker_class.c).                           *)
(*                                                                         *)
(* A call takes bytes from the buffer until an object is complete, or      *)
(* stops with what it has when the bytes run out, and a later call goes on *)
(* from there.  `unread` is the buffer: what its chunks hold and, for an   *)
(* io, what the io has delivered.  One step is one turn of the loop in     *)
(* msgpack_unpacker_read or msgpack_unpacker_skip, or one container that   *)
(* the object just completed completes.                                    *)
(***************************************************************************)
EXTENDS CborItems

CONSTANTS
  Pieces,          \* what is fed at a time: sequences of bytes
  MaxPending,      \* bound on the bytes fed and not yet delivered
  StackCapacity,   \* MSGPACK_UNPACKER_STACK_CAPACITY, 128 in the code
  SymbolizeKeys,   \* keys_as_symbols
  Methods          \* the methods of CBOR::Unpacker that are called

ASSUME PiecesAssumption == Pieces \subseteq Seq(0 .. 255)
ASSUME StackAssumption == StackCapacity \in Nat
\* The counts from 2^24 on, which are not told apart, are never filled.
ASSUME PendingAssumption == MaxPending \in Nat /\ MaxPending < 16777216
ASSUME MethodsAssumption == Methods \subseteq
  {"read", "skip", "each", "feed_each", "decode", "skip_nil", "read_array_header", "read_map_header"}

VARIABLES
  unread,    \* the bytes in the buffer
  head,      \* head_byte
  stack,     \* stack[1 .. stack_depth]
  raw,       \* reading_raw (if open), reading_raw_remaining and, while
             \* that is not 0, textflag
  last,      \* last_object
  pc,        \* the call under way, and how its last read_primitive ended
  out,       \* what the last call returned or yielded
  taken,     \* history: the bytes of the current item that left the buffer
  within,    \* history: "read" or "skip" when a call ran out of bytes within
             \* a container or tag, "skip" if any of these calls was a skip
  lost       \* history: an exception, or a header read within an item, has
             \* left the unpacker in the middle of an item for good

vars == <<unread, head, stack, raw, last, pc, out, taken, within, lost>>
reader == <<head, stack, raw, last>>

HEAD_BYTE_REQUIRED == IB_UNUSED
NoRaw == [open |-> FALSE, body |-> <<>>, left |-> 0, text |-> FALSE]
Idle == [op |-> "none", r |-> "start", inEach |-> FALSE]

\* Ruby code may call the unpacker: no call is under way, or each has yielded
\* to its block.
Yields == pc.op = "each" /\ pc.r = "yield"
RubyRuns == pc = Idle \/ Yields

\* where a call returns to: its caller, or the block of each
Returns == pc' = IF pc.inEach THEN [op |-> "each", r |-> "yield", inEach |-> FALSE] ELSE Idle

FrameTypes == {"array", "map_key", "map_value", "tag", "map_value_indef",
               "map_key_indef", "array_indef", "string_indef"}

\* enum stack_type_t: a break byte ends only the last three
BreakAllowed(type) == type \in {"map_key_indef", "array_indef", "string_indef"}

Frame(type, count, object, tag) ==
  [type |-> type, count |-> count, object |-> object, key |-> Nil, tag |-> tag]

Top == Last(stack)

\* is_reading_map_key
IsReadingMapKey == stack # <<>> /\ Top.type \in {"map_key", "map_key_indef"}

\* --top->count on a size_t.  0 wraps around, and no number of steps that are
\* made would bring that, or a huge count, down to 0.
Wrapped == Huge + 1
Decremented(count) == IF count = 0 THEN Wrapped ELSE IF count >= Huge THEN count ELSE count - 1

Init ==
  /\ unread = <<>> /\ head = HEAD_BYTE_REQUIRED /\ stack = <<>> /\ raw = NoRaw
  /\ last = Nil /\ pc = Idle /\ taken = <<>> /\ within = "no" /\ lost = FALSE
  /\ out = [op |-> "none", r |-> "ok", v |-> Nil]
-----------------------------------------------------------------------------
(* What every step does to the bytes and how a call ends *)

\* The step leaves `rest` in the buffer.
Leaves(rest) == unread' = rest
Gone(rest) == SubSeq(unread, 1, Len(unread) - Len(rest))

\* a call goes on, its last read_primitive having ended with r
Continues(r) == pc' = [pc EXCEPT !.r = r] /\ UNCHANGED <<out, within, lost>>

\* Seeded fault: the loop goes on when the bytes have run out.
TriesAgain == Continues("start")

\* read_primitive gave PRIMITIVE_EOF, or an io raised EOFError: the item stays
\* as far as it was read.
RunsOut == /\ Returns
           /\ out' = [op |-> pc.op, r |-> "eof", v |-> Nil]
           /\ within' = IF stack = <<>> THEN "no"
                        ELSE IF pc.op = "skip" \/ within = "skip" THEN "skip" ELSE "read"
           /\ lost' = (lost \/ pc.op = "decode")

\* raise_unpacker_error, or an exception out of a tag conversion
Raises(r) == /\ Returns
             /\ out' = [op |-> pc.op, r |-> r, v |-> Nil]
             /\ lost' = TRUE
             /\ UNCHANGED within

\* the object is returned, or yielded by each; CBOR.decode complains about
\* bytes behind it and drops its unpacker
Delivers(v) ==
  /\ IF pc.op = "each" THEN pc' = [pc EXCEPT !.r = "yield"] ELSE Returns
  /\ out' = IF pc.op = "decode" /\ unread # <<>>
            THEN [op |-> pc.op, r |-> "malformed", v |-> Nil]
            ELSE [op |-> pc.op, r |-> "ok", v |-> IF pc.op = "skip" THEN Nil ELSE v]
  /\ taken' = <<>> /\ within' = "no"
  /\ lost' = (lost \/ pc.op = "decode")

\* object_complete
ObjectComplete(v) == last' = v /\ head' = HEAD_BYTE_REQUIRED
-----------------------------------------------------------------------------
(* read_primitive *)

AtPrimitive == pc.op # "none" /\ pc.r = "start"

\* get_head_byte and READ_VAL
HasHead == head # HEAD_BYTE_REQUIRED \/ unread # <<>>
Ib == IF head = HEAD_BYTE_REQUIRED THEN Head(unread) ELSE head
AfterHead == IF head = HEAD_BYTE_REQUIRED THEN Tail(unread) ELSE unread
HasArg == Len(AfterHead) >= ArgWidth(Ib)
Arg == Argument(Ib, AfterHead)
Val == Count(Arg)
AfterArg == SubSeq(AfterHead, ArgWidth(Ib) + 1, Len(AfterHead))

Takes(rest) == Leaves(rest) /\ taken' = taken \o Gone(rest)

\* at the start of an item, with its head byte and argument all there
AtHead == AtPrimitive /\ raw.left = 0 /\ HasHead /\ HasArg
Is(type, ais) == MajorType(Ib) = type /\ AI(Ib) \in ais
Definite == 0 .. 27

\* Seeded fault: the head byte is taken again with its argument.
LosesHead == head' = HEAD_BYTE_REQUIRED

\* A head byte that was read stays in head_byte when its argument is missing.
KeptHead == head' = Ib

HeadRunsOut ==
  /\ AtPrimitive /\ raw.left = 0
  /\ \/ ~HasHead /\ UNCHANGED <<unread, head, taken>>
     \/ HasHead /\ ~HasArg /\ Takes(AfterHead) /\ KeptHead
  /\ RunsOut
  /\ UNCHANGED <<stack, raw, last>>

Scalar ==
  /\ AtHead
  /\ \/ Is(Unsigned, Definite) /\ ObjectComplete(Integer(FALSE, Arg))
     \/ Is(Negative, Definite) /\ ObjectComplete(Integer(TRUE, Arg))
     \/ Is(Prim, Definite) /\ ObjectComplete(SimpleValue(AI(Ib), Arg))
     \/ Is(ByteString, Definite) /\ Val = 0 /\ ObjectComplete(Str(FALSE, <<>>))
     \/ Is(TextString, Definite) /\ Val = 0 /\ ObjectComplete(Str(TRUE, <<>>))
     \/ Is(ArrayType, Definite) /\ Val = 0 /\ ObjectComplete(<<"array", <<>>>>)
     \/ Is(MapType, Definite) /\ Val = 0 /\ ObjectComplete(<<"hash", <<>>>>)
  /\ Takes(AfterArg)
  /\ Continues("complete")
  /\ UNCHANGED <<stack, raw>>

\* read_raw_body_begin when all of the string lies in the top chunk
WholeString ==
  LET text == MajorType(Ib) = TextString
      body == SubSeq(AfterArg, 1, Val)
  IN /\ AtHead /\ (Is(ByteString, Definite) \/ Is(TextString, Definite))
     /\ Val > 0 /\ Val <= Len(AfterArg)
     /\ ObjectComplete(IF IsReadingMapKey /\ text /\ SymbolizeKeys
                       THEN <<"sym", body>> ELSE Str(text, body))
     /\ Takes(SubSeq(AfterArg, Val + 1, Len(AfterArg)))
     /\ UNCHANGED raw
     /\ Continues("complete")
     /\ UNCHANGED stack

\* reading_raw_remaining after n more bytes
LeftAfter(left, n) == IF left = Huge THEN Huge ELSE left - n

\* read_raw_body_cont: left bytes are missing behind those of body
Body(text, body, left, rest) ==
  LET n == IF left <= Len(rest) THEN left ELSE Len(rest)
      bytes == body \o SubSeq(rest, 1, n)
  IN /\ Takes(SubSeq(rest, n + 1, Len(rest)))
     /\ \/ /\ n = left
           /\ ObjectComplete(Str(text, bytes))
           /\ raw' = NoRaw
           /\ Continues("complete")
        \/ /\ n < left
           /\ raw' = [open |-> TRUE, body |-> bytes, left |-> LeftAfter(left, n), text |-> text]
           /\ KeptHead
           /\ RunsOut
           /\ UNCHANGED last
     /\ UNCHANGED stack

\* the string lies in more than one chunk, or is not all there; a buffer that
\* is not empty has a byte in its top chunk
SplitString ==
  /\ AtHead /\ (Is(ByteString, Definite) \/ Is(TextString, Definite))
  /\ Val > 1 \/ Val > Len(AfterArg)
  /\ Val > 0
  /\ Body(MajorType(Ib) = TextString, <<>>, Val, AfterArg)

RestOfString ==
  /\ AtPrimitive /\ raw.left > 0
  /\ Body(raw.text, raw.body, raw.left, unread)
-----------------------------------------------------------------------------
(* Containers: _msgpack_unpacker_stack_push_tag *)

\* Seeded faults: one frame too many, one too few; a map that waits for its
\* keys only.
OneTooDeep == Len(stack) > StackCapacity
OneTooFew == Len(stack) >= StackCapacity - 1
OneEach(arg) == Count(arg)

TooDeep == Len(stack) >= StackCapacity

\* val*2, the keys and values a map still waits for: the upper bit of eight
\* bytes is lost
KeysAndValues(arg) ==
  LET n == Count(IF Len(arg) = 8 THEN <<arg[1] % 128>> \o Tail(arg) ELSE arg)
  IN IF n = Huge THEN Huge ELSE n * 2

\* the frame the head byte opens; the count of an indefinite string is its
\* textflag
Opening ==
  \/ Is(ArrayType, Definite) /\ Val > 0
  \/ Is(MapType, Definite) /\ Val > 0
  \/ Is(TagType, Definite)
  \/ \E type \in {ByteString, TextString, ArrayType, MapType} : Is(type, {AI_INDEF})

OpenedFrame ==
  CASE Is(ArrayType, Definite) -> Frame("array", Val, <<"array", <<>>>>, 0)
    [] Is(MapType, Definite) -> Frame("map_key", KeysAndValues(Arg), <<"hash", <<>>>>, 0)
    [] Is(TagType, Definite) -> Frame("tag", 1, Nil, Val)
    [] Is(ArrayType, {AI_INDEF}) -> Frame("array_indef", 0, <<"array", <<>>>>, 0)
    [] Is(MapType, {AI_INDEF}) -> Frame("map_key_indef", 0, <<"hash", <<>>>>, 0)
    [] Is(ByteString, {AI_INDEF}) -> Frame("string_indef", 0, Str(FALSE, <<>>), 0)
    [] Is(TextString, {AI_INDEF}) -> Frame("string_indef", 32, Str(TRUE, <<>>), 0)

\* PRIMITIVE_CONTAINER_START.  A frame too many raises StackError, after the
\* head byte is gone.
Open ==
  /\ AtHead /\ Opening
  /\ Takes(AfterArg)
  /\ head' = HEAD_BYTE_REQUIRED
  /\ \/ ~TooDeep /\ stack' = Append(stack, OpenedFrame) /\ Continues("start")
     \/ TooDeep /\ Raises("deep") /\ UNCHANGED stack
  /\ UNCHANGED <<raw, last>>

\* PRIMITIVE_BREAK: the break byte stays in head_byte.
Break ==
  /\ AtHead /\ Is(Prim, {AI_INDEF})
  /\ Takes(AfterArg)
  /\ head' = Ib
  /\ Continues("break")
  /\ UNCHANGED <<stack, raw, last>>

\* PRIMITIVE_INVALID_BYTE
Invalid ==
  /\ AtHead
  /\ AI(Ib) \notin Definite /\ ~Opening /\ ~Is(Prim, {AI_INDEF})
  /\ Takes(AfterArg)
  /\ head' = Ib
  /\ Raises("malformed")
  /\ UNCHANGED <<stack, raw, last>>

ReadPrimitive == \/ HeadRunsOut \/ Scalar \/ WholeString \/ SplitString
                 \/ RestOfString \/ Open \/ Break \/ Invalid
-----------------------------------------------------------------------------
(* msgpack_unpacker_read after read_primitive *)

InRead == pc.op \in {"read", "each", "decode"}
InSkip == pc.op = "skip"
Completed == pc.op # "none" /\ pc.r \in {"complete", "break"}

WithTop(frame) == Front(stack) \o <<frame>>

\* a container's object is complete and its frame is popped; the next turn is
\* container_completed, or the return when the stack is empty
Pops(object) == /\ ObjectComplete(object)
                /\ stack' = Front(stack)
                /\ Continues("complete")

\* the stack is empty: a break byte outside of a container is an error of
\* read, but not of skip
Finish ==
  /\ Completed /\ stack = <<>>
  /\ \/ pc.r = "break" /\ InRead /\ Raises("malformed") /\ UNCHANGED taken
     \/ (pc.r = "complete" \/ InSkip) /\ Delivers(last)
  /\ UNCHANGED <<unread, head, stack, raw, last>>

\* last_object goes into the container on top
Added(object, key, type) ==
  IF type \in {"map_value", "map_value_indef"}
  THEN <<"hash", Append(object[2], <<key, last>>)>>
  ELSE <<"array", Append(object[2], last)>>

\* Seeded fault: values of an indefinite map go on as keys.
StaysKey(type) == CASE type = "map_key" -> "map_value"
                    [] type = "map_value" -> "map_key"
                    [] OTHER -> type

\* a key is followed by its value, a value by the next key
TypeAfter(type) == CASE type = "map_key" -> "map_value"
                     [] type = "map_value" -> "map_key"
                     [] type = "map_key_indef" -> "map_value_indef"
                     [] type = "map_value_indef" -> "map_key_indef"
                     [] OTHER -> type

\* the top frame with last_object as its next key, value or element
Filled ==
  LET isKey == Top.type \in {"map_key", "map_key_indef"}
  IN [Top EXCEPT !.type = TypeAfter(Top.type),
                 !.key = IF isKey THEN last ELSE Top.key,
                 !.object = IF isKey THEN Top.object ELSE Added(Top.object, Top.key, Top.type)]

\* what an object adds to a container that counts its elements
CountedElement ==
  /\ InRead /\ Completed /\ stack # <<>> /\ pc.r = "complete"
  /\ Top.type \in {"array", "map_key", "map_value"}
  /\ LET count == Decremented(Top.count)
         frame == [Filled EXCEPT !.count = count]
     IN \/ /\ count # 0
           /\ stack' = WithTop(frame)
           /\ Continues("start")
           /\ UNCHANGED <<head, last>>
        \/ count = 0 /\ Pops(frame.object)
  /\ UNCHANGED <<unread, raw, taken>>

\* what an object adds to a container that ends with a break byte
IndefiniteElement ==
  /\ InRead /\ Completed /\ stack # <<>> /\ pc.r = "complete"
  /\ Top.type \in {"array_indef", "map_key_indef", "map_value_indef"}
  /\ stack' = WithTop(Filled)
  /\ Continues("start")
  /\ UNCHANGED <<unread, head, raw, last, taken>>

\* a chunk of an indefinite string is a string of the same encoding
IsChunk(v, string) == IF v[1] = "str" THEN v[2] = string[2] ELSE FALSE

StringChunk ==
  /\ InRead /\ Completed /\ stack # <<>> /\ pc.r = "complete"
  /\ Top.type = "string_indef"
  /\ \/ /\ IsChunk(last, Top.object)
        /\ stack' = WithTop([Top EXCEPT !.object = Str(last[2], Top.object[3] \o last[3])])
        /\ Continues("start")
     \/ /\ ~IsChunk(last, Top.object)
        /\ Raises("malformed")
        /\ UNCHANGED stack
  /\ UNCHANGED <<unread, head, raw, last, taken>>

\* a tag's object: an exception leaves the frame on the stack
TaggedObject ==
  LET v == ProcessTag(Top.tag, last)
  IN /\ InRead /\ Completed /\ stack # <<>> /\ pc.r = "complete"
     /\ Top.type = "tag"
     /\ \/ v # Raised /\ Pops(v)
        \/ v = Raised /\ Raises("raised") /\ UNCHANGED <<head, stack, last>>
     /\ UNCHANGED <<unread, raw, taken>>

BreakByte ==
  /\ InRead /\ Completed /\ stack # <<>> /\ pc.r = "break"
  /\ \/ BreakAllowed(Top.type) /\ Pops(Top.object)
     \/ ~BreakAllowed(Top.type) /\ Raises("malformed") /\ UNCHANGED <<head, stack, last>>
  /\ UNCHANGED <<unread, raw, taken>>

\* msgpack_unpacker_skip after read_primitive: every frame is counted down,
\* whatever its type, by objects and break bytes alike
SkippedElement ==
  /\ InSkip /\ Completed /\ stack # <<>>
  /\ LET count == Decremented(Top.count)
     IN \/ /\ count # 0
           /\ stack' = WithTop([Top EXCEPT !.count = count])
           /\ Continues("start")
           /\ UNCHANGED <<head, last>>
        \/ count = 0 /\ Pops(Nil)
  /\ UNCHANGED <<unread, raw, taken>>

Step == \/ ReadPrimitive \/ Finish
        \/ CountedElement \/ IndefiniteElement \/ StringChunk
        \/ TaggedObject \/ BreakByte \/ SkippedElement
-----------------------------------------------------------------------------
(* Calls of the methods *)

\* CBOR::Unpacker#read, #skip and #each; each_impl is a loop of reads.  The
\* block of each may read and skip with the same unpacker.
Call(op) ==
  /\ RubyRuns
  /\ Yields => op # "each"
  /\ pc' = [op |-> op, r |-> "start", inEach |-> Yields]
  /\ UNCHANGED <<unread, reader, out, taken, within, lost>>

\* MessagePack_unpack: a new unpacker and one read
CallDecode ==
  /\ pc = Idle
  /\ reader = <<HEAD_BYTE_REQUIRED, <<>>, NoRaw, Nil>> /\ taken = <<>> /\ ~lost
  /\ pc' = [Idle EXCEPT !.op = "decode"]
  /\ UNCHANGED <<unread, reader, out, taken, within, lost>>

\* The block of each leaves the loop with break or an exception, or returns.
BlockLeaves ==
  /\ Yields
  /\ pc' = Idle
  /\ UNCHANGED <<unread, reader, out, taken, within, lost>>

BlockReturns ==
  /\ Yields
  /\ pc' = [pc EXCEPT !.r = "start"]
  /\ UNCHANGED <<unread, reader, out, taken, within, lost>>

Answers(op, r, v) == out' = [op |-> op, r |-> r, v |-> v]

\* msgpack_unpacker_skip_nil takes the head byte and leaves it in head_byte.
SkipNil ==
  /\ RubyRuns
  /\ \/ ~HasHead /\ Answers("skip_nil", "eof", Nil) /\ UNCHANGED <<unread, head, taken>>
     \/ /\ HasHead
        /\ Takes(AfterHead) /\ head' = Ib
        /\ Answers("skip_nil", "ok", <<"bool", Ib = IB_NIL>>)
  /\ UNCHANGED <<stack, raw, last, pc, within, lost>>

\* msgpack_unpacker_read_container_header.  A header read within an item takes
\* one of its elements apart.
ReadHeader(op, type) ==
  /\ RubyRuns
  /\ \/ ~HasHead /\ Answers(op, "eof", Nil) /\ UNCHANGED <<unread, head, taken, lost>>
     \/ /\ HasHead /\ MajorType(Ib) = type /\ AI(Ib) \in Definite /\ ~HasArg
        /\ Takes(AfterHead) /\ head' = Ib
        /\ Answers(op, "eof", Nil)
        /\ UNCHANGED lost
     \/ /\ HasHead /\ MajorType(Ib) = type /\ AI(Ib) \in Definite /\ HasArg
        /\ Leaves(AfterArg) /\ head' = HEAD_BYTE_REQUIRED
        /\ taken' = <<>>
        /\ lost' = (lost \/ stack # <<>>)
        /\ Answers(op, "ok", Integer(FALSE, Arg))
     \/ /\ HasHead /\ ~(MajorType(Ib) = type /\ AI(Ib) \in Definite)
        /\ Takes(AfterHead) /\ head' = Ib
        /\ Answers(op, "type", Nil)
        /\ UNCHANGED lost
  /\ UNCHANGED <<stack, raw, last, pc, within>>

\* Unpacker#feed, << on its buffer, or bytes from the io
Feed(bytes) ==
  /\ RubyRuns /\ ~lost
  /\ Len(taken) + Len(unread) + Len(bytes) <= MaxPending
  /\ unread' = unread \o bytes
  /\ UNCHANGED <<reader, pc, out, taken, within, lost>>

\* CBOR::Unpacker#feed_each: feed and then each, with no Ruby code between
FeedEach(bytes) ==
  /\ pc = Idle /\ ~lost
  /\ Len(taken) + Len(unread) + Len(bytes) <= MaxPending
  /\ unread' = unread \o bytes
  /\ pc' = [Idle EXCEPT !.op = "each"]
  /\ UNCHANGED <<reader, out, taken, within, lost>>

\* Seeded fault: reset forgets the string it is reading.
KeepsRaw == raw

RawAfterReset == NoRaw

\* msgpack_unpacker_reset, from outside or from the block of each
Reset ==
  /\ RubyRuns
  /\ unread' = <<>> /\ head' = HEAD_BYTE_REQUIRED /\ stack' = <<>>
  /\ raw' = RawAfterReset /\ last' = Nil
  /\ taken' = <<>> /\ within' = "no" /\ lost' = FALSE
  /\ Answers("reset", "ok", Nil)
  /\ UNCHANGED pc

Next ==
  \/ Step
  \/ \E op \in {"read", "skip", "each"} \cap Methods : Call(op)
  \/ "decode" \in Methods /\ CallDecode
  \/ BlockReturns \/ BlockLeaves
  \/ "skip_nil" \in Methods /\ SkipNil
  \/ "read_array_header" \in Methods /\ ReadHeader("read_array_header", ArrayType)
  \/ "read_map_header" \in Methods /\ ReadHeader("read_map_header", MapType)
  \/ \E bytes \in Pieces : Feed(bytes)
  \/ "feed_each" \in Methods /\ \E bytes \in Pieces : FeedEach(bytes)
  \/ Reset

Spec == Init /\ [][Next]_vars

\* A call that runs makes its steps: the loops of msgpack_unpacker_read and
\* _skip wait for nothing but their buffer.
FairSpec == Spec /\ WF_vars(Step)
-----------------------------------------------------------------------------
\* Types; the stack never outgrows its memory, and a body is missing bytes
\* exactly while it is being read.
TypeOK ==
  /\ unread \in Seq(0 .. 255) /\ taken \in Seq(0 .. 255)
  /\ head \in 0 .. 255
  /\ Len(stack) <= StackCapacity
  /\ \A i \in DOMAIN stack : stack[i].type \in FrameTypes /\ stack[i].count \in Nat
  /\ raw.open <=> raw.left > 0
  /\ within \in {"no", "read", "skip"} /\ lost \in BOOLEAN
  /\ pc.op \in {"none", "read", "skip", "each", "decode"}
  /\ pc.r \in {"start", "complete", "break", "yield"} /\ pc.inEach \in BOOLEAN

\* A frame that counts waits for at least one more object, so that no count is
\* decremented below zero, and a map waits for an even number of objects
\* exactly when the next one is a key.
CountsOwed ==
  ~lost /\ pc.op # "skip" /\ within # "skip" =>
    \A i \in DOMAIN stack :
      LET frame == stack[i] IN
      /\ frame.type \in {"array", "tag", "map_key", "map_value"} => frame.count \in 1 .. Huge
      /\ frame.type = "map_key" /\ frame.count < Huge => frame.count % 2 = 0
      /\ frame.type = "map_value" /\ frame.count < Huge => frame.count % 2 = 1

\* Nothing of a delivered item is left behind: with no byte of the next item
\* taken, the unpacker is as good as new, for its caller and for the block of
\* each.
NoResidue ==
  ~lost /\ RubyRuns /\ taken = <<>> =>
    head = HEAD_BYTE_REQUIRED /\ stack = <<>> /\ raw.left = 0

\* A read, or a turn of each, gives the object its bytes stand for, read from the
\* first to the last and no further, and it runs out of bytes only if those
\* there are, taken or not, hold no object: however they were fed, and whatever
\* calls ran out of them before.
DeliversItems ==
  [][~lost /\ within # "skip" /\ InRead /\ Step /\ RubyRuns' =>
       /\ out'.r = "ok" =>
            Reading(taken) = [at |-> Len(taken) + 1, open |-> <<>>, items |-> <<out'.v>>]
       /\ out'.r = "eof" => Reading(taken \o unread).items = <<>>]_vars

\* Every call of read, skip or decode returns, and each comes to its next
\* object or to its end: no loop of the decoder goes on without taking bytes.
CallsReturn == ~RubyRuns ~> RubyRuns
=============================================================================
