--------------------------- MODULE MCFreeboxClient ---------------------------
(* FreeboxClient for TLC: the calls are interchangeable model values.       *)
EXTENDS FreeboxClient, TLC

CallSymmetry == Permutations(Calls)
=============================================================================
