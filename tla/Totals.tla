------------------------------- MODULE Totals -------------------------------
(***************************************************************************)
(* Running totals: the sum of the values of a function over a finite set.    *)
(***************************************************************************)
EXTENDS FiniteSetsExt

Total(f, S) == MapThenSumSet(LAMBDA x : f[x], S)

=============================================================================
