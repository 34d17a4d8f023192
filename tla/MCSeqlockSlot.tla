--------------------------- MODULE MCSeqlockSlot ----------------------------
(* Instances of SeqlockSlot for TLC: readers and pixel words are model     *)
(* values, interchangeable in every definition, so both are symmetric.     *)
EXTENDS SeqlockSlot, TLC

\* For runs that check no liveness property.
Symmetric == Permutations(Readers) \union Permutations(Pixels)
=============================================================================
