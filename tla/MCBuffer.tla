------------------------------ MODULE MCBuffer ------------------------------
(***************************************************************************)
(* Buffer with one or two buffers and pages of three bytes.                *)
(***************************************************************************)
EXTENDS Buffer

CONSTANTS b1, b2, p1, p2, p3, p4, p5, p6

TwoBuffers == {b1, b2}
OneBuffer == {b1}
NoIo == {}
Pages6 == {p1, p2, p3, p4, p5, p6}
Pages5 == {p1, p2, p3, p4, p5}
Pages4 == {p1, p2, p3, p4}
PageSymmetry == Permutations(Page)

\* `call` is an output: no action reads it.
State == <<buf, inUse, stamp, busy>>

NoLengths == {}
\* in the tail, a page, past a page (malloc), past the threshold
ShortAndLong == {1, 2, 4, 5}
ShortHeads == {<<2, 1>>}
Heads == {<<1, 1>>, <<3, 2>>, <<4, 4>>}
=============================================================================
