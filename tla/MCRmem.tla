------------------------------- MODULE MCRmem -------------------------------
(***************************************************************************)
(* Rmem with four chunks of three pages and an array that starts with one    *)
(* slot, so that it is grown twice and that every arrangement of full,     *)
(* half-used and available chunks is reached.                              *)
(***************************************************************************)
EXTENDS Rmem, TLC

CONSTANTS b1, b2, b3, b4

MCBlock == {b1, b2, b3, b4}
MCSymmetry == Permutations(MCBlock)
=============================================================================
