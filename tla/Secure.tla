------------------------------- MODULE Secure -------------------------------
(***************************************************************************)
(* The encrypting store (dlq/secure.go) around a Store, as the messages of   *)
(* one Kafka partition per key and one redriver worker use it.  What it adds *)
(* are two translations that change when the service is configured anew: a   *)
(* message key is stored as its hash under one of the peppers in use, and a  *)
(* payload can be read only with the encryption key it was sealed with.      *)
(*                                                                          *)
(* The calls to the store inside are separate steps: one HasOrderKey per     *)
(* pepper, and Lease before Park.                                            *)
(***************************************************************************)
EXTENDS Store, FiniteSets, Sequences, Functions

CONSTANTS
    Partitions,   \* partition -> its messages (of one key each), in order
    Configs,      \* the configurations the service goes through
    MaxTokens     \* bound: leases per record

Sources == DOMAIN Partitions

\* [peppers |-> the current one and older ones, seal |-> the key that seals,
\*  keys |-> the keys that open]
ASSUME ConfigsAssumption ==
    /\ 1 \in DOMAIN Configs
    /\ \A i \in DOMAIN Configs :
         /\ Configs[i].peppers # <<>> /\ Configs[i].peppers \in Seq({k[1] : k \in Keys})
         /\ Configs[i].seal \in Configs[i].keys
\* A record's id says where the message is from: the partition and the offset.
ASSUME PartitionsAssumption ==
    /\ IsFiniteSet(Ids)
    /\ \A p \in Sources : Partitions[p] \in Seq(Ids)
    /\ \A p, q \in Sources : \A i \in DOMAIN Partitions[p], j \in DOMAIN Partitions[q] :
         Partitions[p][i] = Partitions[q][j] => p = q /\ i = j
\* The hash of a key is never the empty key.
ASSUME KeysAssumption == NoKey \notin Keys /\ {k[1] : k \in Keys} \X Sources \subseteq Keys
ASSUME StoreAssumption ==
    TTLs \subseteq Nat /\ Delays \subseteq Nat /\ Births \subseteq {"pending", "parked"}

VARIABLES
    config,     \* the configuration in use, an index of Configs
    sealedBy,   \* id -> the key its payload is sealed with
    source,     \* per partition: what the consumer does with its next message
    job,        \* what the redriver's worker does
    finished, discarded   \* history: messages handled, and given up by an operator

secureVars == <<config, sealedBy, source, job, finished, discarded>>

NoJob == [pc |-> "idle"]
\* next: position in the partition; try: the candidate to ask for; form: the stored key
At(pc, n, i, f) == [pc |-> pc, next |-> n, try |-> i, form |-> f]
AtRest(n) == At("idle", n, 1, NoKey)

SecureInit ==
    /\ StoreInit
    /\ config = 1
    /\ sealedBy = [id \in Ids |-> NoKey]
    /\ source = [p \in Sources |-> AtRest(1)]
    /\ job = NoJob
    /\ finished = {} /\ discarded = {}

Message(p) == Partitions[p][source[p].next]

\* Mutant: hashes under older peppers are not looked for.
CurrentOnly(p) == << <<Configs[config].peppers[1], p>> >>

\* candidates: "every stored form k can have, current pepper first".
Candidates(p) == [i \in DOMAIN Configs[config].peppers |-> <<Configs[config].peppers[i], p>>]

-----------------------------------------------------------------------------
(* The consumer: a message whose key is in the store goes behind it, and one  *)
(* that fails is saved.  source[p] is the only writer of the key.            *)

Goto(p, pc, i, f) == source' = [source EXCEPT ![p] = At(pc, @.next, i, f)]

Fetch(p) ==
    /\ source[p].pc = "idle" /\ source[p].next <= Len(Partitions[p])
    /\ Goto(p, "ask", 1, NoKey)
    /\ UNCHANGED <<storeVars, config, sealedBy, job, finished, discarded>>

\* secureStore.HasOrderKey, one candidate.
Ask(p) ==
    LET i == source[p].try IN
    /\ source[p].pc = "ask"
    /\ IF HasOrderKey(Candidates(p)[i]) THEN Goto(p, "seal", 1, NoKey)
       ELSE IF i < Len(Candidates(p)) THEN Goto(p, "ask", i + 1, NoKey)
       ELSE Goto(p, "handle", i, NoKey)
    /\ UNCHANGED <<storeVars, config, sealedBy, job, finished, discarded>>

\* The handler, in the consumer: it is done, or it failed and the message is saved.
Handle(p) ==
    /\ source[p].pc = "handle"
    /\ \/ /\ finished' = finished \cup {Message(p)}
          /\ source' = [source EXCEPT ![p] = AtRest(@.next + 1)]
       \/ /\ Goto(p, "seal", 1, NoKey)
          /\ UNCHANGED finished
    /\ UNCHANGED <<storeVars, config, sealedBy, job, discarded>>

\* secureStore.orderKey, one candidate: a single pepper needs no look.
OrderKey(p) ==
    LET i == source[p].try
        all == Candidates(p)
    IN /\ source[p].pc = "seal"
       /\ IF Len(all) > 1 /\ HasOrderKey(all[i]) THEN Goto(p, "append", i, all[i])
          ELSE IF i < Len(all) THEN Goto(p, "seal", i + 1, NoKey)
          ELSE Goto(p, "append", i, all[1])
       /\ UNCHANGED <<storeVars, config, sealedBy, job, finished, discarded>>

\* secureStore.Append: what is there already is left alone.
Save(p) ==
    LET id == Message(p) IN
    /\ source[p].pc = "append"
    /\ \/ rec[id].state # "absent" /\ UNCHANGED <<storeVars, sealedBy>>
       \/ /\ \E st \in Births : AppendRecord(id, st, source[p].form)
          /\ sealedBy' = [sealedBy EXCEPT ![id] = Configs[config].seal]
    /\ source' = [source EXCEPT ![p] = AtRest(@.next + 1)]
    /\ UNCHANGED <<config, job, finished, discarded>>

\* The store will never take the message (ErrInvalidRecord) while the next one of its key
\* waits behind it.  Consumer.complete gives up without a word to the one that waits, and
\* the last drain of Consumer.Run waits for its result for ever.
Unstorable(p) ==
    /\ source[p].pc = "append" /\ source[p].next < Len(Partitions[p])
    /\ Goto(p, "hung", 1, NoKey)
    /\ UNCHANGED <<storeVars, config, sealedBy, job, finished, discarded>>

Hung == \E p \in Sources : source[p].pc = "hung"

-----------------------------------------------------------------------------
(* The redriver's worker and the operator.                                   *)

\* secureStore.Lease, the call inside.
LeaseSealed(id) ==
    /\ job.pc = "idle" /\ issued[id] < MaxTokens
    /\ \E ttl \in TTLs : Lease({id}, {}, ttl)
    /\ job' = [pc |-> "open", id |-> id, token |-> issued[id] + 1]
    /\ UNCHANGED <<config, sealedBy, source, finished, discarded>>

\* secureStore.Lease, the rest: what cannot be opened is parked and not returned.
OpenRecord ==
    /\ job.pc = "open"
    /\ IF sealedBy[job.id] \in Configs[config].keys
         THEN job' = [job EXCEPT !.pc = "handle"] /\ UNCHANGED storeVars
         ELSE job' = NoJob /\ Park(job.id, job.token)
    /\ UNCHANGED <<config, sealedBy, source, finished, discarded>>

\* The handler, in the redriver.
Finish ==
    /\ job.pc = "handle"
    /\ job' = NoJob
    /\ \/ Ack(job.id, job.token) /\ finished' = finished \cup {job.id}
       \/ (\E delay \in Delays : Nack(job.id, job.token, delay)) /\ UNCHANGED finished
       \/ Park(job.id, job.token) /\ UNCHANGED finished
    /\ UNCHANGED <<config, sealedBy, source, discarded>>

Operate(id) ==
    /\ \/ Requeue(id) /\ UNCHANGED discarded
       \/ Discard(id) /\ discarded' = discarded \cup {id}
    /\ UNCHANGED <<config, sealedBy, source, job, finished>>

-----------------------------------------------------------------------------
(* Between two runs of the service.                                          *)

\* "Drop an old pepper once dlq.Reseal (or time) has cleared the records that used it."
Clear(c) == \A id \in Stored : rec[id].key[1] \in Range(Configs[c].peppers)

\* The store is opened again, by a service of the same or a later configuration.
\* Messages whose offsets were not committed come again.
Start(c, p) ==
    /\ c >= config /\ Clear(c)
    /\ Reopen
    /\ config' = c
    /\ job' = NoJob
    /\ \E back \in {0, 1} :
         source' = [s \in Sources |->
           AtRest(IF s = p /\ source[s].next > back THEN source[s].next - back ELSE source[s].next)]
    /\ UNCHANGED <<sealedBy, finished, discarded>>

\* Reseal, into a new store that takes the old one's place, with the keys of a later
\* configuration.  It stops at a record it cannot open, and the old store stays.
Reseal(c) ==
    /\ c > config
    /\ \A id \in Stored : sealedBy[id] \in Configs[config].keys
    /\ sealedBy' = [id \in Ids |-> IF id \in Stored THEN Configs[c].seal ELSE NoKey]
    /\ last' = Cardinality(Stored)
    /\ rec' = [id \in Ids |->
         IF id \notin Stored THEN rec[id]
         ELSE [In(IF rec[id].state = "leased" THEN "pending" ELSE rec[id].state,
                  rec[id], 0, 0, rec[id].next)
                 EXCEPT !.pos = Cardinality({j \in Stored : rec[j].pos <= rec[id].pos})]]
    /\ UNCHANGED <<now, issued, settled, config, source, job, finished, discarded>>

-----------------------------------------------------------------------------
(* Ordering holds across rotations of the pepper and of the encryption key:   *)
(* a message is handled, for the first time, only when all messages of its    *)
(* key before it are finished, or discarded by an operator, whether the       *)
(* consumer handles it or the redriver does, and although each asks for one   *)
(* candidate at a time while the other works ("so it stays behind the earlier *)
(* message and ordering holds across the rotation", OrderKeyPeppers).         *)
InOrder ==
    \A p \in Sources : \A i, j \in DOMAIN Partitions[p] :
        LET m == Partitions[p][i]
            handling == \/ source[p].pc = "handle" /\ source[p].next = i
                        \/ job.pc = "handle" /\ job.id = m
        IN i > j /\ (handling \/ m \in finished) => Partitions[p][j] \in finished \cup discarded
=============================================================================
