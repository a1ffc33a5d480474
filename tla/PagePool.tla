------------------------------ MODULE PagePool ------------------------------
(***************************************************************************)
(* What the fixed-size page allocator promises to the buffers: a page is   *)
(* handed out only while nobody holds it, and has one holder until it is   *)
(* given back.  Which page is handed out is not specified.  Rmem           *)
(* implements this module; Buffer relies on it.                            *)
(***************************************************************************)
EXTENDS Integers

CONSTANT Page       \* the pages that can ever exist

VARIABLE holders    \* holders[p]: how many callers hold page p

Alloc(p) == holders[p] = 0 /\ holders' = [holders EXCEPT ![p] = 1]

Free(p) == holders[p] = 1 /\ holders' = [holders EXCEPT ![p] = 0]

Init == holders = [p \in Page |-> 0]

Next == \E p \in Page : Alloc(p) \/ Free(p)

Spec == Init /\ [][Next]_holders
=============================================================================
