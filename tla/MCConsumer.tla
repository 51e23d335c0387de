----------------------------- MODULE MCConsumer -----------------------------
(***************************************************************************)
(* Small instances of Consumer.                                            *)
(***************************************************************************)
EXTENDS Consumer, TLC

CONSTANTS p1, k

\* One partition: two messages of one key and one without a key.
OnePartition == p1 :> <<k, NoKey, k>>
=============================================================================
