-------------------------------- MODULE Sums --------------------------------
(* The sum of the values of a function, for what properties say of totals.   *)
EXTENDS Functions

Plus(m, n) == m + n

Total(f) == FoldFunction(Plus, 0, f)
=============================================================================
