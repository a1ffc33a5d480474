----------------------------- MODULE MCUnpacker -----------------------------
(***************************************************************************)
(* Bounded instances of Unpacker, and the items it must read from them.    *)
(***************************************************************************)
EXTENDS Unpacker

CONSTANT Alphabet   \* bytes that are fed one by one

OneByOne == {<<byte>> : byte \in Alphabet}

\* the head of a map of 2^63 + 1 entries
HugeMap == OneByOne \cup {<<187, 128, 0, 0, 0, 0, 0, 0, 1>>}

Items == INSTANCE ItemReader WITH pending <- taken \o unread

\* The calls of an unpacker cut its input into items as the reference decoder
\* does, wherever reads ran out of bytes in between.
ReadsItems == Items!Spec

\* what later steps depend on
State == <<unread, head, stack, raw, pc, taken, within, lost,
           IF pc.r = "complete" THEN last ELSE Nil>>
=============================================================================
