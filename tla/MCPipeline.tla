----------------------------- MODULE MCPipeline -----------------------------
(***************************************************************************)
(* Small instances of Pipeline.                                            *)
(***************************************************************************)
EXTENDS Pipeline, TLC

CONSTANTS s1, s2, s3, s4

\* Three steps; a later version replaces the second.
TwoVersions == {<<s1, s2, s3>>, <<s1, s4, s3>>}

\* A message that is delivered twice, without a saga; a saga that Execute runs; and one
\* whose message was put in the store behind an earlier one of its key.
Ways == {[saga |-> FALSE, live |-> TRUE, again |-> 1], [saga |-> TRUE, live |-> TRUE, again |-> 0],
         [saga |-> TRUE, live |-> FALSE, again |-> 0]}

\* A saga in Execute.
LiveSaga == {[saga |-> TRUE, live |-> TRUE, again |-> 0]}

\* A saga in the store.
StoredSaga == {[saga |-> TRUE, live |-> FALSE, again |-> 0]}
=============================================================================
