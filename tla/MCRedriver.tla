----------------------------- MODULE MCRedriver -----------------------------
(***************************************************************************)
(* Small instances of Redriver.                                            *)
(***************************************************************************)
EXTENDS Redriver, TLC

CONSTANTS r1, r2, d1

\* Two records that wait for one dependency.
Together == (r1 :> d1) @@ (r2 :> d1)

\* Two faults with one worker, one with two.
FewFaults == <<2, 1>>
=============================================================================
