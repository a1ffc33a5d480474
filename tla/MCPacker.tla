------------------------------ MODULE MCPacker ------------------------------
(***************************************************************************)
(* Bounded instances of Packer, and its output read back by the reference  *)
(* decoder.                                                                *)
(***************************************************************************)
EXTENDS Packer

CONSTANTS a1, h1

Reference == INSTANCE CborReference WITH StackCapacity <- 20

\* the items at the start of s, and the status of what is behind them
RECURSIVE Items(_)
Items(s) ==
  LET d == Reference!Decode(s, TRUE)
  IN IF d.st # "ok" THEN [list |-> <<>>, st |-> IF s = <<>> THEN "end" ELSE d.st]
     ELSE LET rest == Items(SubSeq(s, d.n + 1, Len(s)))
          IN [list |-> <<d.v>> \o rest.list, st |-> rest.st]

\* What a packer and CBOR.encode give out decodes to the values written, one
\* after the other, whatever the buffer sent on in between, whatever to_cbor
\* did, and whichever calls raised before they wrote anything; behind them is
\* nothing, or the beginning of a container the caller has not filled yet.
Encodes ==
  AtRest /\ ~damaged =>
    LET d == Items(sent \o buffer)
    IN d.list = written /\ d.st = IF todo = <<>> THEN "end" ELSE "eof"
-----------------------------------------------------------------------------
One == Integer(FALSE, <<1>>)
Foreign == <<"foreign">>
Objects == {a1, h1}
Containers(elements, entries) ==
  [o \in Objects |-> IF o = a1 THEN <<"array", elements>> ELSE <<"hash", entries>>]

Numbers == {<<>>, <<23>>, <<24>>, <<255>>, <<1, 0>>, <<255, 255>>, <<1, 0, 0>>,
            [i \in 1 .. 4 |-> 255], <<1, 0, 0, 0, 0>>,
            <<127>> \o [i \in 1 .. 7 |-> 255], <<128, 0, 0, 0, 0, 0, 0, 0>>,
            [i \in 1 .. 8 |-> 255], <<1, 0, 0, 0, 0, 0, 0, 0, 0>>}

DoublesChecked == {Double(sign, exp, hi, lo) :
              sign \in {0, 1}, lo \in {0, 1},
              exp \in {0, 1, 873, 874, 896, 897, 998, 999, 1008, 1009, 1023, 1038, 1039, 1150, 1151, 2046, 2047},
              hi \in {0, 2 ^ 12, 2 ^ 13, 2 ^ 22, 2 ^ 23 - 2 ^ 13}}

Strings == {<<"string", "binary", <<>>>>, <<"string", "binary", <<200>>>>,
            <<"string", "utf8", [i \in 1 .. 24 |-> 65]>>, <<"string", "usascii", <<65>>>>,
            <<"string", "latin1", <<65, 228>>>>, <<"string", "latin1", [i \in 1 .. 12 |-> 228]>>,
            <<"sym", <<65>>>>}

Others == {<<"bool", TRUE>>, <<"bool", FALSE>>, <<"simple", 0>>, <<"simple", 255>>,
           Tagged(1, One), Tagged(32, <<"string", "utf8", <<65>>>>), Tagged(1000, Nil)}

\* Every single value, in an array and as a key
Leafs == {Integer(negative, n) : negative \in BOOLEAN, n \in Numbers}
         \cup {<<"float", d>> : d \in DoublesChecked} \cup Strings \cup Others
Edges == {Containers(<<v>>, <<<<v, Ref(a1)>>>>) : v \in Leafs}

\* foreign objects as elements, keys and values, next to others and nested
Foreigners == {
  Containers(<<One, Foreign>>, <<<<One, Ref(a1)>>>>),
  Containers(<<Foreign, Ref(h1)>>, <<<<One, Nil>>, <<Nil, One>>>>),
  Containers(<<>>, <<<<Foreign, One>>, <<One, Nil>>>>),
  Containers(<<One, <<"unmappable">>>>, <<<<One, <<"opaque">>>>>>)}

ValuesChecked == Leafs \cup {Ref(a1), Ref(h1), One, Nil, NewKey, Foreign, <<"unmappable">>,
                             <<"opaque">>, <<"string", "utf8", <<65>>>>}
HeapsChecked == Edges \cup Foreigners
HeadersChecked == {<<ArrayType, 1>>, <<MapType, 1>>}
Both == {Ref(a1), Ref(h1)}
=============================================================================
