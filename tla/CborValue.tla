------------------------------ MODULE CborValue ------------------------------
(***************************************************************************)
(* Initial bytes of CBOR items (ext/cbor/cbor.h) and the Ruby objects they *)
(* stand for.  An object is a tuple that starts with its kind; a Hash is   *)
(* the sequence of its insertions, an integer n or -1 - n its sign and n.  *)
(***************************************************************************)
EXTENDS CborNumber

\* major type, additional information, and the width of the argument that
\* follows an initial byte
MajorType(ib) == ib \div 32
AI(ib) == ib % 32
ArgWidth(ib) ==
  IF AI(ib) \in 24 .. 27 THEN <<1, 2, 4, 8>>[AI(ib) - 23] ELSE 0

Unsigned == 0
Negative == 1
ByteString == 2
TextString == 3
ArrayType == 4
MapType == 5
TagType == 6
Prim == 7

IB_NIL == 246
IB_UNUSED == 223
AI_INDEF == 31

\* the argument of an initial byte in the bytes behind it
Argument(ib, behind) ==
  IF ArgWidth(ib) = 0 THEN <<AI(ib)>> ELSE SubSeq(behind, 1, ArgWidth(ib))

\* the argument as a count or a tag: from 2^24 on counts are not told apart,
\* since so many bytes or elements never come
Huge == 1073741824
\* significant bytes n as a number, the first the highest
CountOf(n) ==
  CASE Len(n) = 0 -> 0
    [] Len(n) = 1 -> n[1]
    [] Len(n) = 2 -> 256 * n[1] + n[2]
    [] Len(n) = 3 -> 256 * (256 * n[1] + n[2]) + n[3]
    [] OTHER -> Huge
Count(arg) == CountOf(Significant(arg))

Nil == <<"nil">>
Str(text, bytes) == <<"str", text, bytes>>
Integer(negative, bytes) == <<"int", negative, Significant(bytes)>>
Tagged(tag, v) == <<"tagged", tag, v>>

\* what a tag conversion that raises an exception returns
Raised == <<"raised">>

\* Time.at, Regexp.new and URI.parse: what they accept, other than a string
\* that is no pattern or no URI.
AcceptedBy(tag) == CASE tag = 1 -> {"int", "float", "time"}
                     [] tag = 32 -> {"str"}
                     [] tag = 35 -> {"str", "regexp"}
RubyKind(tag) == CASE tag = 1 -> "time" [] tag = 32 -> "uri" [] tag = 35 -> "regexp"

\* msgpack_unpacker_process_tag: conversions by Ruby methods, bignums from
\* byte strings, and a CBOR::Tagged for everything else
ProcessTag(tag, v) ==
  CASE tag \in {1, 32, 35} ->
         IF v[1] \in AcceptedBy(tag) THEN <<RubyKind(tag), v>> ELSE Raised
    [] tag = 2 /\ v[1] = "str" /\ ~v[2] -> Integer(FALSE, v[3])
    [] tag = 3 /\ v[1] = "str" /\ ~v[2] -> Integer(TRUE, v[3])
    [] OTHER -> Tagged(tag, v)

\* the objects of initial bytes without a body: integers, simple values, floats
SimpleValue(ai, arg) ==
  CASE ai = 20 -> <<"bool", FALSE>>
    [] ai = 21 -> <<"bool", TRUE>>
    [] ai = 22 -> Nil
    [] ai \in 25 .. 27 -> <<"float", Float(arg)>>
    [] OTHER -> <<"simple", BigEndian(arg)>>

\* keys and values in turn as insertions
Pairs(list) == [k \in 1 .. Len(list) \div 2 |-> <<list[2 * k - 1], list[2 * k]>>]

\* the strings of an indefinite one
Chunks(list) == FlattenSeq([k \in DOMAIN list |-> list[k][3]])
=============================================================================
