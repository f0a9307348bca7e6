--------------------------- MODULE MCFlashTlvCache ---------------------------
(* A small instance of FlashTlvCache for TLC: more tags than slots, ages    *)
(* that saturate.                                                           *)
EXTENDS FlashTlvCache, TLC

Symmetry == Permutations(Tags) \cup Permutations(Addresses)
=============================================================================
