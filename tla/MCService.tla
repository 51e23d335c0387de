----------------------------- MODULE MCService -----------------------------
(* One partition of two messages through   a rotation of the pepper and of   *)
(* the encryption key, and the retirement of the old ones.                   *)
EXTENDS Service, TLC

CONSTANTS m1, m2

OnePartition == ("p" :> <<m1, m2>>)
StoredKeys == {"pepper1", "pepper2"} \X {"p"}

Rotation ==
    << [peppers |-> <<"pepper1">>, seal |-> "key1", keys |-> {"key1"}],
       [peppers |-> <<"pepper2", "pepper1">>, seal |-> "key2", keys |-> {"key1", "key2"}],
       [peppers |-> <<"pepper2">>, seal |-> "key2", keys |-> {"key2"}] >>

Everything == {"breakers", "store", "client"}
AllOrStore == {Everything, {"store"}}
=============================================================================
