------------------------------ MODULE MCStream ------------------------------
(***************************************************************************)
(* Bounded instances of Stream.                                            *)
(***************************************************************************)
EXTENDS Stream

CONSTANTS a1, h1

One == <<"int", FALSE, <<1>>>>
Foreign == <<"foreign">>
Text == <<"string", "utf8", <<65, 66>>>>
Objects == {a1, h1}

\* foreign objects in an array and as keys; a string, a hash and a tag
HeapsChecked == {
  [o \in Objects |-> IF o = a1 THEN <<"array", <<Foreign, <<"ref", h1>>>>>>
                     ELSE <<"hash", <<<<Foreign, One>>>>>>],
  [o \in Objects |-> IF o = a1 THEN <<"array", <<Text, <<"ref", h1>>>>>>
                     ELSE <<"hash", <<<<One, <<"tagged", 1000, One>>>>>>>>]}
ValuesChecked == {Foreign, Text, One, <<"ref", a1>>, <<"ref", h1>>, <<"tagged", 1000, One>>,
                  <<"nil">>, <<"int", FALSE, <<99>>>>}
ArgumentsChecked == {One, <<"ref", a1>>}
HeadersChecked == {<<4, 1>>}
=============================================================================
