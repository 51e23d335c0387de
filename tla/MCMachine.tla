------------------------------ MODULE MCMachine ------------------------------
(* A small instance of Machine, checked against Store as well.               *)
EXTENDS MachineStore, TLC

CONSTANTS r1, r2, k1, d1

\* Two records of one order key.
OneKey == (r1 :> k1) @@ (r2 :> k1)

\* The two records are interchangeable.
RecordSymmetry == Permutations(Ids)

=============================================================================
