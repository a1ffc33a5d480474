--------------------------- MODULE CborReference ---------------------------
(***************************************************************************)
(* A decoder for a whole string of bytes, by recursive descent and without *)
(* a state of its own: what the incremental decoder must agree with,       *)
(* however the bytes reach it.  Only runs of TLC use it.                   *)
(***************************************************************************)
EXTENDS CborValue

CONSTANT StackCapacity

\* How decoding ends: an object v and the position behind it, or too few
\* bytes, bytes no item has, too deep a nesting, a conversion that raises, or
\* a break byte where an item should start.
Ok(v, next) == [st |-> "ok", v |-> v, next |-> next]
Stops(st) == [st |-> st, v |-> Nil, next |-> 0]

\* what a container takes: chunks of its own kind in an indefinite string
Fits(kind, v) == kind = "any" \/ (v[1] = "str" /\ v[2] = (kind = "text"))

RECURSIVE Item(_, _, _, _), Elements(_, _, _, _, _, _, _)

\* Up to n more items from i on, nested d deep, or items up to a break byte
\* when n < 0, each of which fits the kind of container.
Elements(s, i, d, conv, n, list, kind) ==
  IF n = 0 THEN Ok(list, i)
  ELSE LET e == Item(s, i, d, conv)
       IN CASE e.st = "ok" /\ Fits(kind, e.v) -> Elements(s, e.next, d, conv, n - 1, Append(list, e.v), kind)
            [] e.st = "ok" /\ ~Fits(kind, e.v) -> Stops("malformed")
            [] e.st = "break" -> IF n < 0 THEN Ok(list, i + 1) ELSE Stops("malformed")
            [] OTHER -> e

\* The item at i, nested d deep.  Tags are converted if conv.
Item(s, i, d, conv) ==
  IF i > Len(s) THEN Stops("eof")
  ELSE IF AI(s[i]) > 27 /\ (AI(s[i]) < 31 \/ MajorType(s[i]) \in {0, 1, 6}) THEN Stops("malformed")
  ELSE IF i + ArgWidth(s[i]) > Len(s) THEN Stops("eof")
  ELSE
    LET type == MajorType(s[i])
        indef == AI(s[i]) = 31
        arg == Argument(s[i], SubSeq(s, i + 1, Len(s)))
        val == Count(arg)
        body == i + ArgWidth(s[i]) + 1
        inside(n, kind) == IF d = StackCapacity THEN Stops("deep")
                           ELSE Elements(s, body, d + 1, conv, n, <<>>, kind)
        as(e, v) == IF e.st = "ok" THEN Ok(v, e.next) ELSE e
    IN CASE type = 0 -> Ok(Integer(FALSE, arg), body)
         [] type = 1 -> Ok(Integer(TRUE, arg), body)
         [] type \in {2, 3} /\ ~indef ->
              IF body + val - 1 > Len(s) THEN Stops("eof")
              ELSE Ok(Str(type = 3, SubSeq(s, body, body + val - 1)), body + val)
         [] type \in {2, 3} /\ indef ->
              LET e == inside(-1, IF type = 3 THEN "text" ELSE "bytes") IN as(e, Str(type = 3, Chunks(e.v)))
         [] type = 4 /\ ~indef /\ val = 0 -> Ok(<<"array", <<>>>>, body)
         [] type = 4 /\ (indef \/ val > 0) ->
              LET e == inside(IF indef THEN -1 ELSE val, "any") IN as(e, <<"array", e.v>>)
         [] type = 5 /\ ~indef /\ val = 0 -> Ok(<<"hash", <<>>>>, body)
         [] type = 5 /\ ~indef /\ val > 0 ->
              LET e == inside(IF val = Huge THEN Huge ELSE 2 * val, "any") IN as(e, <<"hash", Pairs(e.v)>>)
         [] type = 5 /\ indef ->
              LET e == inside(-1, "any")
              IN IF e.st = "ok" /\ Len(e.v) % 2 = 1 THEN Stops("malformed")
                 ELSE as(e, <<"hash", Pairs(e.v)>>)
         [] type = 6 ->
              LET e == inside(1, "any")
                  v == IF conv THEN ProcessTag(val, e.v[1]) ELSE Tagged(val, e.v[1])
              IN IF e.st = "ok" /\ v = Raised THEN Stops("raised") ELSE as(e, v)
         [] type = 7 -> IF indef THEN Stops("break") ELSE Ok(SimpleValue(AI(s[i]), arg), body)

\* The first item of s: its object and length, or why there is none (yet).
Decode(s, conv) ==
  LET e == Item(s, 1, 0, conv)
  IN [st |-> IF e.st = "break" THEN "malformed" ELSE e.st, v |-> e.v, n |-> e.next - 1]
=============================================================================
