-------------------------------- MODULE Sums --------------------------------
(***************************************************************************)
(* Python's sum over the items of a dict: f gives the amount of each key,  *)
(* S the keys that count.  Taken over a function rather than an operator,  *)
(* so that Sums_proofs can state its laws.                                 *)
(***************************************************************************)
EXTENDS Integers, Functions

SumOf(f, S) == FoldFunctionOnSet(+, 0, f, S)
=============================================================================
