------------------------------- MODULE MCWAL -------------------------------
(***************************************************************************)
(* Small instances of WAL.                                                 *)
(***************************************************************************)
EXTENDS WAL

\* A power failure and, later, a kill or another one; or a kill alone.
Crashes == {<<"power", "power">>, <<"power", "kill">>, <<"kill">>}
\* A kill, and a power failure after the store was opened again.
KillThenPower == {<<"kill", "power">>}
=============================================================================
