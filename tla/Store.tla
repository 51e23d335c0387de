------------------------------- MODULE Store -------------------------------
(***************************************************************************)
(* What a dead-letter store promises its callers (the Store interface of   *)
(* dlq/store.go), without indexes, limits, reservations, payloads or logs: *)
(* which records there are, in which order, and who may work on them.      *)
(* Machine implements it (module MachineStore); Secure is built on it.     *)
(***************************************************************************)
EXTENDS Integers

CONSTANTS
    Ids,           \* record ids
    Keys, NoKey,   \* order keys as stored; NoKey is the empty key
    Births,        \* the states records are appended in
    TTLs, Delays   \* LeaseRequest.TTL and the delays of Nack

VARIABLES
    now,      \* the clock
    rec,      \* the records by id
    last,     \* the position of the newest record in arrival order
    issued,   \* lease tokens ever issued, per id
    settled   \* history: the tokens that ended their lease, per id

storeVars == <<now, rec, last, issued, settled>>

Absent == [state |-> "absent", pos |-> 0, key |-> NoKey, token |-> 0, until |-> 0, next |-> 0]

StoreInit ==
    /\ now = 1
    /\ rec = [id \in Ids |-> Absent]
    /\ last = 0
    /\ issued = [id \in Ids |-> 0]
    /\ settled = [id \in Ids |-> {}]

Stored == {id \in Ids : rec[id].state # "absent"}

\* The key is held by a record in any state.  The empty key is never present.
HasOrderKey(k) == k # NoKey /\ \E id \in Stored : rec[id].key = k

\* "Records sharing an OrderKey are offered one at a time in order."
IsHead(id) ==
    rec[id].key \in Keys =>
        \A j \in Stored : rec[j].key = rec[id].key => rec[id].pos <= rec[j].pos

\* "Records whose lease expired are offered again."
Due(r) == IF r.state = "leased" THEN r.until ELSE r.next

MayLease(id) ==
    /\ rec[id].state \in {"pending", "leased"}
    /\ Due(rec[id]) <= now
    /\ IsHead(id)

\* Record r in another state: where it stands in its key never changes.
In(st, r, token, until, next) ==
    [state |-> st, pos |-> r.pos, key |-> r.key, token |-> token, until |-> until, next |-> next]

Pending(r, next) == In("pending", r, 0, 0, next)
Leased(r, token, until) == In("leased", r, token, until, r.next)
SetAside(r) == In("parked", r, 0, 0, r.next)

\* "If a record with r.ID already exists in any state it is left untouched."
AppendRecord(id, st, k) ==
    /\ rec[id].state = "absent"
    /\ rec' = [rec EXCEPT ![id] = [state |-> st, pos |-> last + 1, key |-> k,
                                  token |-> 0, until |-> 0, next |-> 0]]
    /\ last' = last + 1
    /\ UNCHANGED <<now, issued, settled>>

\* Lease hands out ok, each "under a new token", and sets aside what it cannot
\* read (bad).
Lease(ok, bad, ttl) ==
    /\ \A id \in ok \cup bad : MayLease(id)
    /\ rec' = [id \in Ids |->
                 IF id \in ok THEN Leased(rec[id], issued[id] + 1, now + ttl)
                 ELSE IF id \in bad THEN SetAside(rec[id]) ELSE rec[id]]
    /\ issued' = [id \in Ids |-> IF id \in ok THEN issued[id] + 1 ELSE issued[id]]
    /\ UNCHANGED <<now, last, settled>>

\* The holder of token n ends its lease, and the record becomes r.  With any other
\* token the call is refused and nothing changes.
Settle(id, n, r) ==
    /\ rec[id].state = "leased" /\ rec[id].token = n
    /\ rec' = [rec EXCEPT ![id] = r]
    /\ settled' = [settled EXCEPT ![id] = @ \cup {n}]
    /\ UNCHANGED <<now, last, issued>>

Ack(id, n) == Settle(id, n, Absent)
Nack(id, n, delay) == Settle(id, n, Pending(rec[id], now + delay))
Release(id, n) == Settle(id, n, Pending(rec[id], rec[id].next))
Park(id, n) == Settle(id, n, SetAside(rec[id]))

Requeue(id) ==
    /\ rec[id].state = "parked"
    /\ rec' = [rec EXCEPT ![id] = Pending(rec[id], 0)]
    /\ UNCHANGED <<now, last, issued, settled>>

\* "It is the only way data leaves a store without being handled."
Discard(id) ==
    /\ rec[id].state = "parked"
    /\ rec' = [rec EXCEPT ![id] = Absent]
    /\ UNCHANGED <<now, last, issued, settled>>

\* The store is opened again after its process died: no lease is out.
Reopen ==
    /\ rec' = [id \in Ids |-> IF rec[id].state = "leased" THEN Pending(rec[id], rec[id].next)
                              ELSE rec[id]]
    /\ UNCHANGED <<now, last, issued, settled>>

Tick == now' = now + 1 /\ UNCHANGED <<rec, last, issued, settled>>

Holder(id, n) ==
    \/ Ack(id, n)
    \/ \E delay \in Delays : Nack(id, n, delay)
    \/ Release(id, n)
    \/ Park(id, n)

StoreNext ==
    \/ Tick
    \/ Reopen
    \/ \E ok, bad \in SUBSET Ids, ttl \in TTLs : ok \cap bad = {} /\ Lease(ok, bad, ttl)
    \/ \E id \in Ids :
         \/ \E st \in Births, k \in Keys \cup {NoKey} : AppendRecord(id, st, k)
         \/ \E n \in 1..issued[id] : Holder(id, n)
         \/ Requeue(id)
         \/ Discard(id)

StoreSpec == StoreInit /\ [][StoreNext]_storeVars
=============================================================================
