----------------------------- MODULE ItemReader -----------------------------
(***************************************************************************)
(* What CBOR::Unpacker promises (doclib/cbor/unpacker.rb): its calls cut   *)
(* the bytes that are fed into items, and what a call returns depends only *)
(* on those bytes, not on how they were fed or how often a call ran out of *)
(* them.  Unpacker implements this module.                                 *)
(***************************************************************************)
EXTENDS CborReference

CONSTANT SymbolizeKeys

VARIABLES pending,   \* the bytes fed and not delivered as an item
          out,       \* what the last call returned or yielded
          within,    \* "read" or "skip" when a call ran out of bytes within
                     \* the first item, "skip" if one of them was a skip
          lost       \* nothing is promised until the next reset

vars == <<pending, out, within, lost>>

Init == /\ pending = <<>> /\ within = "no" /\ ~lost
        /\ out = [op |-> "none", r |-> "ok", v |-> Nil]

Behind(n) == SubSeq(pending, n + 1, Len(pending))

\* the first item is a tag, an array, a map or an indefinite string
Nested == pending # <<>> /\ (MajorType(Head(pending)) \in {4, 5, 6} \/ AI(Head(pending)) = AI_INDEF)

\* Text keys as symbols
RECURSIVE Symbolized(_)
Symbolized(v) ==
  CASE v[1] = "array" -> <<"array", [i \in DOMAIN v[2] |-> Symbolized(v[2][i])]>>
    [] v[1] = "hash" ->
         <<"hash", [i \in DOMAIN v[2] |->
             LET key == v[2][i][1] IN
             <<IF key[1] = "str" /\ key[2] THEN <<"sym", key[3]>> ELSE Symbolized(key),
               Symbolized(v[2][i][2])>>]>>
    [] v[1] = "tagged" -> Tagged(v[2], Symbolized(v[3]))
    [] OTHER -> v

AsRead(v) == IF SymbolizeKeys THEN Symbolized(v) ELSE v

Feed == /\ Len(pending') > Len(pending)
        /\ SubSeq(pending', 1, Len(pending)) = pending
        /\ UNCHANGED <<out, within, lost>>

Reset == /\ out'.op = "reset"
         /\ pending' = <<>> /\ within' = "no" /\ ~lost'

\* An error that leaves the unpacker in the middle of an item.
Fatal(d) == /\ d.st \in {"malformed", "deep", "raised"}
            /\ out'.r = d.st
            /\ lost'

\* the first n bytes are gone and the next item starts behind them
Cuts(n) == pending' = Behind(n) /\ within' = "no" /\ ~lost'

\* the call ran out of bytes and all of them stay
RunsOut == /\ out'.r = "eof"
           /\ within' # "no" => Nested
           /\ within = "skip" => within' = "skip"
           /\ UNCHANGED <<pending, lost>>

\* read and each deliver the object of the first item and its bytes, or run
\* out of bytes exactly if they do not hold an item.
Read ==
  LET d == Decode(pending, TRUE)
  IN /\ out'.op \in {"read", "each"} /\ within # "skip"
     /\ \/ d.st = "ok" /\ out'.r = "ok" /\ out'.v = AsRead(d.v) /\ Cuts(d.n)
        \/ d.st = "eof" /\ RunsOut /\ within' # "skip"
        \/ Fatal(d)

\* A read that goes on where a skip has stopped still ends with the item.
ReadRest ==
  LET d == Decode(pending, FALSE)
  IN /\ out'.op \in {"read", "each"} /\ within = "skip"
     /\ \/ d.st = "ok" /\ out'.r = "ok" /\ Cuts(d.n)
        \/ d.st = "eof" /\ RunsOut
        \/ Fatal(d)
        \/ out'.r = "raised" /\ lost'

\* skip takes the bytes of the first item, without conversions.
Skip ==
  LET d == Decode(pending, FALSE)
  IN /\ out'.op = "skip"
     /\ \/ d.st = "ok" /\ out'.r = "ok" /\ Cuts(d.n)
        \/ d.st = "eof" /\ RunsOut
        \/ Fatal(d)

\* CBOR.decode returns the object if the bytes are one item and nothing else.
DecodeAll ==
  LET d == Decode(pending, TRUE)
  IN /\ out'.op = "decode" /\ lost'
     /\ IF d.st # "ok" THEN out'.r = d.st
        ELSE IF d.n = Len(pending) THEN out'.r = "ok" /\ out'.v = AsRead(d.v)
        ELSE out'.r = "malformed"

\* skip_nil and the headers look at what comes next, which within an item is
\* not its start: only then is nothing promised.
Peek ==
  LET width == ArgWidth(Head(pending))
      isHeader(type) == MajorType(Head(pending)) = type /\ AI(Head(pending)) < 28
      header(op, type) ==
        /\ out'.op = op
        /\ IF pending = <<>> \/ (isHeader(type) /\ Len(pending) <= width)
           THEN out'.r = "eof" /\ UNCHANGED <<pending, within, lost>>
           ELSE IF isHeader(type)
                THEN out'.r = "ok" /\ out'.v = Integer(FALSE, Argument(Head(pending), Tail(pending))) /\ Cuts(width + 1)
                ELSE out'.r = "type" /\ UNCHANGED <<pending, within, lost>>
      skipNil ==
        /\ out'.op = "skip_nil"
        /\ IF pending = <<>> THEN out'.r = "eof"
           ELSE out'.r = "ok" /\ out'.v = <<"bool", Head(pending) = IB_NIL>>
        /\ UNCHANGED <<pending, within, lost>>
  IN \/ within = "no" /\ (skipNil \/ header("read_array_header", 4) \/ header("read_map_header", 5))
     \/ /\ within # "no"
        /\ out'.op \in {"skip_nil", "read_array_header", "read_map_header"}
        /\ lost' \/ UNCHANGED <<pending, within, lost>>

Next == IF lost THEN lost' \/ Reset
        ELSE Feed \/ Reset \/ Read \/ ReadRest \/ Skip \/ DecodeAll \/ Peek

Spec == Init /\ [][Next]_vars
=============================================================================
