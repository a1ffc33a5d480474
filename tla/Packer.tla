------------------------------- MODULE Packer -------------------------------
(***************************************************************************)
(* The encoder (ext/cbor/packer.h, packer.c), the methods of CBOR::Packer  *)
(* and CBOR.encode (packer_class.c), and to_cbor of the core classes       *)
(* (core_ext.c).                                                           *)
(*                                                                         *)
(* Writing an array or a hash recurses into its elements; to_cbor of a     *)
(* foreign object is Ruby code, which writes with the same packer and may  *)
(* change the containers that are being written, or raise.  One step is    *)
(* one turn of a loop in packer.c or one value written.  `buffer` is what  *)
(* the packer's buffer holds, in order: that it is a queue of bytes is     *)
(* what Buffer shows.                                                      *)
(***************************************************************************)
EXTENDS CborItems

CONSTANTS
  Object,          \* arrays and hashes
  Values,          \* the values they hold and calls are given
  Heaps,           \* what the arrays and hashes may hold at first
  Arguments,       \* the values given to write and encode
  HasIo,           \* the packer has an io
  Headers,         \* types and counts of the headers written by calls
  MaxBytes,        \* bound on the bytes written before a value or header at the
                   \* top level, where one header is open at a time
  MaxDepth,        \* bound on the calls and containers under way
  MaxSize          \* bound on elements and entries

\* Every object is an array of its elements or a hash of its entries.
ASSUME HeapsAssumption ==
  \A h \in Heaps :
    /\ h = [o \in Object |-> <<h[o][1], h[o][2]>>]
    /\ \A o \in Object :
         /\ h[o][1] \in {"array", "hash"} /\ h[o][2] \in Seq(Range(h[o][2]))
         /\ h[o][1] = "hash" => \A e \in Range(h[o][2]) : e = <<e[1], e[2]>>
ASSUME IoAssumption == HasIo \in BOOLEAN
ASSUME BoundAssumption == MaxBytes \in Nat /\ MaxDepth \in Nat /\ MaxSize \in Nat

ASSUME LengthAssumption ==
  /\ MaxSize \in Lengths
  /\ \A h \in Heaps : \A o \in Object : Len(h[o][2]) \in Lengths
  /\ \A header \in Headers : header[1] \in {ArrayType, MapType} /\ header[2] \in Lengths

VARIABLES
  heap,      \* the contents of arrays and hashes
  buffer,    \* the bytes in the packer's buffer
  sent,      \* the bytes given to the io, or returned by encode
  todo,      \* the calls under way, the innermost last, and before them the
             \* containers whose header the caller has written
  written,   \* history: the values written from outside, as they were when
             \* the traversal came to each of their parts
  mark,      \* history: the bytes there were when the outermost call began
  damaged    \* history: an exception has cut a value short, or a hash lost
             \* entries that its header had counted

vars == <<heap, buffer, sent, todo, written, mark, damaged>>

Gone == <<>>          \* an entry deleted from a hash
Ref(o) == <<"ref", o>>
NewKey == Integer(FALSE, <<99>>)

Frame(kind, o, need, value) ==
  [kind |-> kind, obj |-> o, need |-> need, i |-> 0, at |-> 0, value |-> value, seen |-> <<>>]
Item(v) == Frame("item", Nil, 1, v)

Init == /\ heap \in Heaps
        /\ buffer = <<>> /\ sent = <<>> /\ todo = <<>>
        /\ written = <<>> /\ mark = 0 /\ damaged = FALSE
-----------------------------------------------------------------------------
(* Bytes of the values that have no elements *)

Immediate(n) == n = <<>> \/ (Len(n) = 1 /\ n[1] < 24)

\* Seeded faults: 24 is immediate as well; no argument has two bytes.
UpTo24(n) == IF Immediate(n) \/ n = <<24>> THEN 0 ELSE Min({w \in {1, 2, 4, 8} : Len(n) <= w})
NeverTwo(n) == IF Immediate(n) THEN 0 ELSE Min({w \in {1, 4, 8} : Len(n) <= w})

\* the bytes of the argument behind the initial byte
Width(n) == IF Immediate(n) THEN 0 ELSE Min({w \in {1, 2, 4, 8} : Len(n) <= w})

\* cbor_encoder_write_head
WriteHead(type, n) ==
  LET ai == CASE Width(n) = 0 -> CountOf(n) [] Width(n) = 1 -> 24
              [] Width(n) = 2 -> 25 [] Width(n) = 4 -> 26 [] Width(n) = 8 -> 27
  IN <<32 * type + ai>> \o (IF Width(n) = 0 THEN <<>> ELSE Padded(n, Width(n)))

\* Seeded fault: a bignum has the tag of a positive one.
OneTag(negative, n) ==
  IF Len(n) > 8
  THEN <<194>> \o WriteHead(ByteString, Number(Len(n))) \o n
  ELSE WriteHead(IF negative THEN Negative ELSE Unsigned, n)

\* fixnums, bignums that fit 64 bits, and bignums as tagged strings
IntegerBytes(negative, n) ==
  LET one == IF negative THEN 1 ELSE 0
  IN IF Len(n) > 8
     THEN <<194 + one>> \o WriteHead(ByteString, Number(Len(n))) \o n
     ELSE WriteHead(Unsigned + one, n)

\* String#encode to UTF-8 of the other encoding modelled, ISO-8859-1
Utf8(bytes) ==
  FlattenSeq([i \in DOMAIN bytes |->
    IF bytes[i] < 128 THEN <<bytes[i]>> ELSE <<192 + bytes[i] \div 64, 128 + (bytes[i] % 64)>>])

\* a string as it goes out: binary strings as bytes, all others as UTF-8
Encoded(encoding, bytes) ==
  CASE encoding = "binary" -> Str(FALSE, bytes)
    [] encoding \in {"utf8", "usascii"} -> Str(TRUE, bytes)
    [] encoding = "latin1" -> Str(TRUE, Utf8(bytes))

StringBytes(str) ==
  WriteHead(IF str[2] THEN TextString ELSE ByteString, Number(Len(str[3]))) \o str[3]

Leaves == {"nil", "bool", "int", "float", "string", "sym", "simple"}

LeafBytes(v) ==
  CASE v[1] = "nil" -> <<IB_NIL>>
    [] v[1] = "bool" -> <<IF v[2] THEN 245 ELSE 244>>
    [] v[1] = "int" -> IntegerBytes(v[2], v[3])
    [] v[1] = "float" -> FloatBytes(v[2])
    [] v[1] = "string" -> StringBytes(Encoded(v[2], v[3]))
    [] v[1] = "sym" -> StringBytes(Str(TRUE, v[2]))
    [] v[1] = "simple" -> WriteHead(Prim, Number(v[2]))

\* what these bytes stand for: symbols and strings of other encodings do not
\* come back as they were
LeafMeaning(v) == CASE v[1] = "string" -> Encoded(v[2], v[3])
                    [] v[1] = "sym" -> Str(TRUE, v[2])
                    [] OTHER -> v

\* The packer is given Ruby objects: strings have an encoding and bytes, and
\* what comes under a tag is a value again.
ASSUME ValueAssumption ==
  /\ Arguments \cup {Nil, NewKey} \subseteq Values
  /\ \A h \in Heaps : \A o \in Object : \A e \in Range(h[o][2]) :
       IF h[o][1] = "hash" THEN {e[1], e[2]} \subseteq Values ELSE e \in Values
  /\ \A v \in Values :
       /\ v[1] = "nil" => v = Nil
       /\ v[1] = "bool" => v[2] \in BOOLEAN /\ v = <<"bool", v[2]>>
       /\ v[1] = "int" => /\ v[2] \in BOOLEAN /\ v = <<"int", v[2], v[3]>>
                          /\ v[3] \in Seq(Byte) /\ Len(v[3]) \in Lengths
                          /\ v[3] # <<>> => v[3][1] # 0
       /\ v[1] = "float" => v[2] \in Doubles /\ v = <<"float", v[2]>>
       /\ v[1] = "string" => /\ v[2] \in {"binary", "utf8", "usascii", "latin1"}
                             /\ v[3] \in Seq(Byte) /\ Len(Encoded(v[2], v[3])[3]) \in Lengths
       /\ v[1] = "sym" => v[2] \in Seq(Byte) /\ Len(v[2]) \in Lengths
       /\ v[1] = "simple" => v[2] \in Lengths /\ v = <<"simple", v[2]>>
       /\ v[1] = "tagged" => v[2] \in Lengths /\ v[3] \in Values
-----------------------------------------------------------------------------
(* Calls and how they end *)

Top == Last(todo)
Below == Front(todo)
TopIs(kind) == IF todo = <<>> THEN FALSE ELSE Top.kind = kind

\* The next value may be written by Ruby code: by the caller, or by a to_cbor
\* that has not written its object yet.
Complete(f) == Len(f.seen) = f.need
RubyRuns == IF todo = <<>> THEN TRUE ELSE Top.kind \in {"header", "foreign"} /\ ~Complete(Top)
Outside == \A k \in DOMAIN todo : todo[k].kind = "header"
InCallback == RubyRuns /\ ~Outside

Total == Len(sent) + Len(buffer)

\* The bytes go into the buffer, which may be flushed before.
Emits(bytes) ==
  \/ buffer' = buffer \o bytes /\ UNCHANGED sent
  \/ HasIo /\ buffer # <<>> /\ sent' = sent \o buffer /\ buffer' = bytes

\* The value on top is written and meant v.
Completes(v) ==
  IF Below = <<>> THEN todo' = <<>> /\ written' = Append(written, v)
  ELSE /\ todo' = Append(Front(Below), [Last(Below) EXCEPT !.seen = Append(@, v)])
       /\ UNCHANGED written

\* An exception goes to the outermost caller, when the io has taken n of the
\* bytes there were; encode drops its packer.
Unwinds(bytes, n) ==
  LET first == todo[1]
      rest == SubSeq(bytes, n + 1, Len(bytes))
  IN /\ todo' = IF first.kind = "header" /\ first.obj = "outside" THEN <<first>> ELSE <<>>
     /\ sent' = sent \o SubSeq(bytes, 1, n)
     /\ buffer' = IF first.kind = "encode" THEN <<>> ELSE rest
     /\ damaged' = (damaged \/ Len(sent') + Len(buffer') # mark)
     /\ UNCHANGED <<heap, written, mark>>
-----------------------------------------------------------------------------
(* msgpack_packer_write_value *)

WriteLeaf ==
  /\ TopIs("item") /\ Top.value[1] \in Leaves
  /\ Emits(LeafBytes(Top.value))
  /\ Completes(LeafMeaning(Top.value))
  /\ UNCHANGED <<heap, mark, damaged>>

\* A CBOR::Tagged, or a Time, Regexp or URI by the method that gives what its
\* tag stands before.
WriteTagged ==
  /\ TopIs("item") /\ Top.value[1] = "tagged"
  /\ Emits(WriteHead(TagType, Number(Top.value[2])))
  /\ todo' = Append(Append(Below, Frame("tag", Nil, 1, Top.value)), Item(Top.value[3]))
  /\ UNCHANGED <<heap, written, mark, damaged>>

TagEnds ==
  /\ TopIs("tag") /\ Complete(Top)
  /\ Completes(ProcessTag(Top.value[2], Top.seen[1]))
  /\ UNCHANGED <<heap, buffer, sent, mark, damaged>>

IsObject(v, kind) == v[1] = "ref" /\ v[2] \in Object /\ heap[v[2]][1] = kind
Contents(o) == heap[o][2]

\* msgpack_packer_write_array_value: the length is taken once, the elements
\* one by one, and rb_ary_entry gives nil behind the end.
WriteArray ==
  /\ TopIs("item") /\ IsObject(Top.value, "array")
  /\ LET len == Len(Contents(Top.value[2]))
     IN /\ Emits(WriteHead(ArrayType, Number(len)))
        /\ todo' = Append(Below, Frame("array", Top.value[2], len, Nil))
  /\ UNCHANGED <<heap, written, mark, damaged>>

\* Seeded fault: one turn of the loop too many.
OneMore(f) == f.i <= f.need

More(f) == f.i < f.need

NextElement ==
  /\ TopIs("array") /\ More(Top)
  /\ LET elements == Contents(Top.obj)
         next == Top.i + 1
     IN todo' = Append(Append(Below, [Top EXCEPT !.i = next]),
                       Item(IF next <= Len(elements) THEN elements[next] ELSE Nil))
  /\ UNCHANGED <<heap, buffer, sent, written, mark, damaged>>

ArrayEnds ==
  /\ TopIs("array") /\ ~More(Top)
  /\ Completes(<<"array", Top.seen>>)
  /\ UNCHANGED <<heap, buffer, sent, mark, damaged>>

\* Seeded fault: the entries a hash has had, deleted ones included.
Slots(o) == Len(Contents(o))

LiveAfter(o, i) == {k \in DOMAIN Contents(o) : k > i /\ Contents(o)[k] # Gone}

\* RHASH_SIZE
Size(o) == Cardinality(LiveAfter(o, 0))

\* msgpack_packer_write_hash_value: the size is taken first, then
\* rb_hash_foreach goes through the entries the hash has when it comes to them.
WriteHash ==
  /\ TopIs("item") /\ IsObject(Top.value, "hash")
  /\ LET size == Size(Top.value[2])
     IN /\ Emits(WriteHead(MapType, Number(size)))
        /\ todo' = Append(Below, Frame("hash", Top.value[2], size, Nil))
  /\ UNCHANGED <<heap, written, mark, damaged>>

\* write_hash_foreach gets key and value together, and writes the key
NextEntry ==
  /\ TopIs("hash") /\ Len(Top.seen) = 2 * Top.i
  /\ LiveAfter(Top.obj, Top.at) # {}
  /\ LET at == Min(LiveAfter(Top.obj, Top.at))
         entry == Contents(Top.obj)[at]
     IN todo' = Append(Append(Below, [Top EXCEPT !.i = @ + 1, !.at = at, !.value = entry[2]]),
                       Item(entry[1]))
  /\ UNCHANGED <<heap, buffer, sent, written, mark, damaged>>

\* and then the value
NextValue ==
  /\ TopIs("hash") /\ Len(Top.seen) = 2 * Top.i - 1
  /\ todo' = Append(todo, Item(Top.value))
  /\ UNCHANGED <<heap, buffer, sent, written, mark, damaged>>

HashEnds ==
  /\ TopIs("hash") /\ Len(Top.seen) = 2 * Top.i
  /\ LiveAfter(Top.obj, Top.at) = {}
  /\ Completes(<<"hash", Pairs(Top.seen)>>)
  /\ UNCHANGED <<heap, buffer, sent, mark, damaged>>

\* _msgpack_packer_write_other_value: Ruby code with the packer as argument
WriteForeign ==
  /\ TopIs("item") /\ Top.value[1] = "foreign"
  /\ todo' = Append(Below, Frame("foreign", Nil, 1, Nil))
  /\ UNCHANGED <<heap, buffer, sent, written, mark, damaged>>

ForeignReturns ==
  /\ TopIs("foreign") /\ Complete(Top)
  /\ Completes(Top.seen[1])
  /\ UNCHANGED <<heap, buffer, sent, mark, damaged>>

\* no to_cbor, or a string that String#encode refuses
Refuses ==
  /\ TopIs("item") /\ Top.value[1] \in {"opaque", "unmappable"}
  /\ Unwinds(buffer, 0)

\* What of a value may be in the buffer when the next part of it is to go there
Begun(v) ==
  LET bytes == LeafBytes(v)
      head == Len(bytes) - Len(LeafMeaning(v)[3])
  IN CASE v[1] \in {"string", "sym"} -> {SubSeq(bytes, 1, k) : k \in {0, head} \ {Len(bytes)}}
       [] v[1] = "int" /\ Len(v[3]) > 8 -> {SubSeq(bytes, 1, k) : k \in {0, 1, head}}
       [] OTHER -> {<<>>}

\* the io raises while the buffer is flushed, some of which it may have taken
IoRaises ==
  /\ HasIo
  /\ TopIs("item") \/ (TopIs("encode") /\ Complete(Top))
  /\ Top.value[1] \in Leaves \cup {"tagged", "ref"}
  /\ \E begun \in Begun(Top.value) :
       LET bytes == buffer \o begun
       IN /\ bytes # <<>>
          /\ \E n \in {0, Len(bytes) \div 2} : Unwinds(bytes, n)
-----------------------------------------------------------------------------
(* Calls of the methods, from outside or from a to_cbor *)

Begins == /\ Len(todo) < MaxDepth
          /\ todo = <<>> \/ (Outside /\ damaged) => Total < MaxBytes
Marks == mark' = IF Outside THEN Total ELSE mark

\* CBOR::Packer#write, and to_cbor(packer) of the core classes
Write(v) ==
  /\ RubyRuns /\ Begins
  /\ todo' = Append(todo, Item(v))
  /\ Marks
  /\ UNCHANGED <<heap, buffer, sent, written, damaged>>

\* write_array_header and write_map_header
WriteHeader(type, n) ==
  /\ RubyRuns /\ Begins /\ (Outside => todo = <<>>)
  /\ Emits(WriteHead(type, Number(n)))
  /\ todo' = Append(todo, Frame("header", IF Outside THEN "outside" ELSE "callback",
                                IF type = MapType THEN 2 * n ELSE n, type))
  /\ Marks
  /\ UNCHANGED <<heap, written, damaged>>

\* the caller has written as many values as its header said
HeaderEnds ==
  /\ TopIs("header") /\ Complete(Top)
  /\ Completes(IF Top.value = MapType THEN <<"hash", Pairs(Top.seen)>> ELSE <<"array", Top.seen>>)
  /\ UNCHANGED <<heap, buffer, sent, mark, damaged>>

\* flush, or write_to(io) of a packer without an io
Flush ==
  /\ RubyRuns
  /\ sent' = sent \o buffer /\ buffer' = <<>>
  /\ UNCHANGED <<heap, todo, written, mark, damaged>>

\* Packer#clear: msgpack_buffer_clear
Clear ==
  /\ Outside
  /\ buffer' = <<>> /\ todo' = <<>>
  /\ damaged' = (sent # <<>> /\ (damaged \/ buffer # <<>> \/ todo # <<>>))
  /\ written' = IF sent = <<>> THEN <<>> ELSE written
  /\ UNCHANGED <<heap, sent, mark>>

\* MessagePack_pack: a new packer, one value, and flush or all_as_string
Encode(v) ==
  /\ todo = <<>> /\ buffer = <<>> /\ Begins
  /\ todo' = <<Frame("encode", Nil, 1, Nil), Item(v)>>
  /\ Marks
  /\ UNCHANGED <<heap, buffer, sent, written, damaged>>

EncodeReturns ==
  /\ TopIs("encode") /\ Complete(Top)
  /\ sent' = sent \o buffer /\ buffer' = <<>>
  /\ Completes(Top.seen[1])
  /\ UNCHANGED <<heap, mark, damaged>>

CallbackRaises == InCallback /\ Unwinds(buffer, 0)

\* What a to_cbor may do to the containers: Ruby itself refuses a new key in a
\* hash that is being iterated over.
Holds(o, contents) == heap' = [heap EXCEPT ![o] = <<@[1], contents>>]

ArrayChanges(o) ==
  /\ InCallback /\ heap[o][1] = "array"
  /\ \/ Contents(o) # <<>> /\ Holds(o, Front(Contents(o)))
     \/ Len(Contents(o)) < MaxSize /\ Holds(o, Append(Contents(o), Nil))
  /\ UNCHANGED <<buffer, sent, todo, written, mark, damaged>>

Iterating(o) == {k \in DOMAIN todo : todo[k].kind = "hash" /\ todo[k].obj = o}

HashChanges(o) ==
  /\ InCallback /\ heap[o][1] = "hash"
  /\ \/ \E k \in LiveAfter(o, 0) :
          /\ Holds(o, [Contents(o) EXCEPT ![k] = Gone])
          /\ damaged' = (damaged \/ \E j \in Iterating(o) : todo[j].at < k)
     \/ \E k \in LiveAfter(o, 0) :
          /\ Holds(o, [Contents(o) EXCEPT ![k][2] = Nil])
          /\ UNCHANGED damaged
     \/ /\ Iterating(o) = {} /\ Len(Contents(o)) < MaxSize
        /\ \A k \in LiveAfter(o, 0) : Contents(o)[k][1] # NewKey
        /\ Holds(o, Append(Contents(o), <<NewKey, Nil>>))
        /\ UNCHANGED damaged
  /\ UNCHANGED <<buffer, sent, todo, written, mark>>

Next ==
  \/ WriteLeaf \/ WriteTagged \/ TagEnds
  \/ WriteArray \/ NextElement \/ ArrayEnds
  \/ WriteHash \/ NextEntry \/ NextValue \/ HashEnds
  \/ WriteForeign \/ ForeignReturns \/ Refuses \/ IoRaises
  \/ \E v \in Arguments : Write(v) \/ Encode(v)
  \/ \E header \in Headers : WriteHeader(header[1], header[2])
  \/ HeaderEnds \/ Flush \/ Clear \/ EncodeReturns
  \/ CallbackRaises
  \/ \E o \in Object : ArrayChanges(o) \/ HashChanges(o)

Spec == Init /\ [][Next]_vars
-----------------------------------------------------------------------------
\* Types; no container is given more elements than its header says.
TypeOK ==
  /\ buffer \in Seq(Byte) /\ sent \in Seq(Byte)
  /\ DOMAIN heap = Object
  /\ mark \in Nat /\ damaged \in BOOLEAN
  /\ \A k \in DOMAIN todo :
       LET f == todo[k]
       IN /\ f.kind \in {"item", "tag", "array", "hash", "foreign", "header", "encode"}
          /\ f.kind # "hash" => Len(f.seen) <= f.need

\* The entries of a hash that are still to be written are as many as its
\* header has left to come, whatever the to_cbor of keys and values did to this
\* and other hashes, unless they deleted one of these entries.
HeadersFit ==
  ~damaged => \A k \in DOMAIN todo :
    todo[k].kind = "hash" =>
      todo[k].i + Cardinality(LiveAfter(todo[k].obj, todo[k].at)) = todo[k].need
-----------------------------------------------------------------------------
(* The form of what is written *)

\* the bytes up to the next initial byte: a string follows its head
Extent(ib, arg) ==
  1 + ArgWidth(ib) +
  IF MajorType(ib) \in {ByteString, TextString} THEN Count(Argument(ib, arg)) ELSE 0
NextHead(s, k) == k + Extent(s[k], ArgAt(s, k))

\* the positions of the initial bytes in s: w is the next one and those before
Onward(s, w) ==
  IF w[1] \in 1 .. Len(s) THEN <<NextHead(s, w[1]), w[2] \cup {w[1]}>> ELSE w
Heads(s) ==
  LET walk[i \in 0 .. Len(s)] == IF i = 0 THEN <<1, {}>> ELSE Onward(s, walk[i - 1])
  IN walk[Len(s)][2]

\* The doubles a half stands for
HalfValues == {FromHalf(n) : n \in 0 .. 2 ^ 16 - 1}

\* A shorter argument would not do: an integer, length, count or tag would not
\* fit, and a float equals no half or no single.
Shortest(ib, arg) ==
  LET width == ArgWidth(ib)
  IN IF MajorType(ib) = Prim /\ width > 1
     THEN width > 2 => Float(arg) \notin HalfValues /\ (width = 8 => Singles(Float(arg)) = {})
     ELSE CASE width = 0 -> TRUE
            [] width = 1 -> arg[1] >= 24
            [] OTHER -> Len(Significant(arg)) > width \div 2

AtRest == Outside /\ \A k \in DOMAIN todo : ~Complete(todo[k])

\* Arguments are written in the fewest bytes, and a float in as few as hold it
\* ("32 bits is enough", packer.h:151): check of spec/format_spec.rb for every
\* kind of item.
ShortestForm ==
  LET s == sent \o buffer
  IN AtRest /\ ~damaged => \A k \in Heads(s) : Shortest(s[k], ArgAt(s, k))
-----------------------------------------------------------------------------
(* What it says *)

\* What the bytes say of a container whose header the caller has written
Announced(f) == [type |-> f.value, need |-> f.need, tag |-> 0, seen |-> f.seen]

\* Read from the first byte to the last, what a packer and CBOR.encode give
\* out is the values written, in order and no others, whatever the buffer sent
\* on in between and whatever to_cbor did to the containers; behind them is
\* nothing, or the container that the caller has not filled yet.
ReadsBack ==
  LET s == sent \o buffer
  IN AtRest /\ ~damaged =>
       Reading(s) = [at |-> Len(s) + 1, items |-> written,
                     open |-> [k \in DOMAIN todo |-> Announced(todo[k])]]
=============================================================================
