---------------------------- MODULE MCTransport ----------------------------
(* Two callers and the replayer over two hosts that share a shard, and       *)
(* an endpoint with a circuit of its own.                                    *)
EXTENDS Transport, TLC

CONSTANTS c1, c2, h1, h2

TwoCallers == {c1, c2}
TwoHosts == {h1, h2}
FourCircuits == 1..4

Two(a, b) == (c1 :> a) @@ (c2 :> b)

Setting ==
    { \* both hosts, one circuit: the one evicts the other's, and replays evict both
      Setup(1, Two(h1, h2), Two("keyed", "plain"), 0, FALSE, FALSE, FALSE, 1),
      \* eviction and pruning while Close runs
      Setup(1, Two(h1, h2), Two("stream", "plain"), 0, FALSE, TRUE, TRUE, 0),
      Setup(1, Two(h1, Shared), Two("stream", "stream"), 0, FALSE, TRUE, TRUE, 0),
      \* pruning and replays of one host
      Setup(2, Two(h1, h1), Two("keyed", "stream"), 0, FALSE, TRUE, FALSE, 0),
      \* retries and panics
      Setup(1, Two(Shared, Shared), Two("stream", "keyed"), 1, TRUE, FALSE, FALSE, 1),
      \* two saved requests of one host
      Setup(1, Two(h1, h1), Two("keyed", "keyed"), 0, FALSE, FALSE, FALSE, 1),
      \* replays while Close runs
      Setup(1, Two(Shared, Shared), Two("keyed", "stream"), 0, FALSE, FALSE, TRUE, 1),
      Setup(1, Two(h1, Shared), Two("unguarded", "unknown"), 0, FALSE, TRUE, TRUE, 1) }
=============================================================================
