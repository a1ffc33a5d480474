------------------------------ MODULE CborItems ------------------------------
(***************************************************************************)
(* The items in a string of bytes, one after the other.  A reading goes    *)
(* from head to head and keeps the containers it is in; it knows nothing   *)
(* of buffers, calls or frames.  Other than CborReference it recurses over *)
(* numbers only, so that theorems can speak of it.                         *)
(***************************************************************************)
EXTENDS CborValue

\* A container and the objects that have come of it.  One without an end in
\* its head ends with a break byte.
Endless == -1
Container(type, need, tag) == [type |-> type, need |-> need, tag |-> tag, seen |-> <<>>]
IsFull(c) == Len(c.seen) = c.need

\* What follows the initial byte at k as its argument.
ArgAt(s, k) == SubSeq(s, k + 1, k + ArgWidth(s[k]))

\* the object of a container that is full
ObjectOf(c) ==
  CASE c.type \in {ByteString, TextString} -> Str(c.type = TextString, Chunks(c.seen))
    [] c.type = ArrayType -> <<"array", c.seen>>
    [] c.type = MapType -> <<"hash", Pairs(c.seen)>>
    [] c.type = TagType -> ProcessTag(c.tag, c.seen[1])

\* A break byte ends a container if what it has makes an object.
MayBreak(c) ==
  /\ c.need = Endless
  /\ c.type = MapType => Len(c.seen) % 2 = 0
  /\ c.type \in {ByteString, TextString} =>
       \A k \in DOMAIN c.seen : c.seen[k] = Str(c.type = TextString, c.seen[k][3])

\* A reading: the next byte, the containers it is in, and the items before.
Start == [at |-> 1, open |-> <<>>, items |-> <<>>]

\* an object goes into the innermost container
Put(open, v) == Append(Front(open), [Last(open) EXCEPT !.seen = Append(@, v)])
With(r, v) ==
  IF r.open = <<>> THEN [r EXCEPT !.items = Append(@, v)] ELSE [r EXCEPT !.open = Put(@, v)]

Enters(r, c) == [r EXCEPT !.open = Append(@, c)]
Closes(r) == With([r EXCEPT !.open = Front(@)], ObjectOf(Last(r.open)))

HeadAt(s, k) == IF k <= Len(s) THEN k + ArgWidth(s[k]) <= Len(s) ELSE FALSE

\* the item at r.at, whose head has an argument, or as much of it as there is
\* before its first element
DefiniteItem(s, r) ==
  LET type == MajorType(s[r.at])
      arg == Argument(s[r.at], ArgAt(s, r.at))
      body == r.at + 1 + ArgWidth(s[r.at])
      behind == [r EXCEPT !.at = body]
      n == Count(arg)
  IN CASE type = Unsigned -> With(behind, Integer(FALSE, arg))
       [] type = Negative -> With(behind, Integer(TRUE, arg))
       [] type \in {ByteString, TextString} ->
            IF body + n - 1 > Len(s) THEN r
            ELSE With([r EXCEPT !.at = body + n],
                      Str(type = TextString, SubSeq(s, body, body + n - 1)))
       [] type = ArrayType -> Enters(behind, Container(type, n, 0))
       [] type = MapType -> Enters(behind, Container(type, 2 * n, 0))
       [] type = TagType -> Enters(behind, Container(type, 1, n))
       [] type = Prim -> With(behind, SimpleValue(AI(s[r.at]), arg))

\* a container without an end, or the end of one
IndefiniteItem(s, r) ==
  LET type == MajorType(s[r.at])
      behind == [r EXCEPT !.at = @ + 1]
  IN IF type \in {ByteString, TextString, ArrayType, MapType}
     THEN Enters(behind, Container(type, Endless, 0))
     ELSE IF type = Prim /\ r.open # <<>> /\ MayBreak(Last(r.open)) THEN Closes(behind)
     ELSE r

\* The next turn of a reading; there is none if bytes are missing, or wrong.
Turn(s, r) ==
  IF r.open # <<>> /\ IsFull(Last(r.open)) THEN Closes(r)
  ELSE IF ~HeadAt(s, r.at) THEN r
  ELSE IF AI(s[r.at]) < 28 THEN DefiniteItem(s, r)
  ELSE IF AI(s[r.at]) = AI_INDEF THEN IndefiniteItem(s, r)
  ELSE r

\* How far a reading of s comes: every byte begins a container at most, and
\* ends one.
Reading(s) ==
  LET turn[i \in 0 .. 2 * Len(s)] == IF i = 0 THEN Start ELSE Turn(s, turn[i - 1])
  IN turn[2 * Len(s)]
=============================================================================
