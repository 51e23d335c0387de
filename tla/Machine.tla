------------------------------- MODULE Machine -------------------------------
(***************************************************************************)
(* The dead-letter queue's state machine (dlq/machine.go) as its two        *)
(* stores drive it: MemoryStore, which does every operation in one critical *)
(* section, and WALStore, which survives a restart and, with payloads on     *)
(* disk, has a Lease that picks and reserves records, reads them with the   *)
(* lock released and commits later.  What the log and the disk add to       *)
(* WALStore is the subject of module WAL.                                   *)
(*                                                                          *)
(* The lists of the code (a group, the parked list, the records of an order *)
(* key) are kept in Seq order, so they are sets here and Seq is the order.  *)
(* A token is the number of the grant among the grants of that record id.   *)
(* Sizes are in abstract units: one for the record, plus its checkpoint,    *)
(* plus its error text.                                                     *)
(***************************************************************************)
EXTENDS Integers, FiniteSets, Sequences, FiniteSetsExt, Totals

CONSTANTS
  Ids,             \* record ids producers may append
  Keys, NoKey,     \* order keys; NoKey is the empty key
  KeyOf,           \* the order key of each id
  Deps, NoDep,     \* dependencies a record may wait on; NoDep is "none"
  Callers, Free,   \* concurrent Lease calls; Free marks an unreserved item
  Modes,           \* how Lease may run: "atomic" is one critical section, "split" is
                   \* not.  A store has one of them; with both, every step of either
                   \* store is a step here
  MaxRecords, MaxBytes, MaxRecordBytes,   \* limits
  MaxWakeSkew,     \* how long a cached wake time is believed
  Births,          \* the states records are appended in
  Batches, TTLs,   \* LeaseRequest.Max and LeaseRequest.TTL
  Delays, Ckpts, Errs,    \* Nack delays, checkpoint sizes, error text sizes
  MaxTime, MaxLeases, MaxSeq   \* bounds: the clock, grants, appends

ASSUME IdsAssumption == IsFiniteSet(Ids) /\ NoKey \notin Keys
                        /\ KeyOf \in [Ids -> Keys \cup {NoKey}]
ASSUME DepsAssumption == NoDep \in Deps
ASSUME CallersAssumption == Free \notin Callers
ASSUME SizesAssumption == Ckpts \subseteq Nat /\ 0 \in Ckpts /\ Errs \subseteq Nat
                          /\ 0 \in Errs
ASSUME TimesAssumption == TTLs \subseteq Nat \ {0} /\ Delays \subseteq Nat
                          /\ MaxWakeSkew \in Nat \ {0}
ASSUME BirthsAssumption == Births \subseteq {"pending", "parked"}
ASSUME BatchAssumption == Batches \subseteq Nat \ {0}

VARIABLES
  now,     \* the clock; 0 is the zero time
  items,   \* the items by id
  seq,     \* the last Seq assigned
  byKey,   \* order key -> ids of its records
  groups,  \* dependency -> ids of the Pending and Leased records waiting on it
  wake,    \* dependency -> cached wake time of its group, 0 = unknown
  parked,  \* ids of the parked records
  counts,  \* items per state
  bytes,   \* estimated bytes held
  grants,  \* id -> every lease ever granted on it, as its worker knows it
  base     \* id -> grants made before its attempts were last set to zero

index == <<byKey, groups, wake, parked, counts>>
vars == <<now, items, seq, byKey, groups, wake, parked, counts, bytes, grants, base>>

States == {"absent", "pending", "leased", "parked"}
Outcomes == {"out", "acked", "kept", "refunded", "lost"}

(* An item; res is the Lease call that reserved it, read the checkpoint that *)
(* call read, and stale says that ver has moved since the reservation.       *)
Item == [state : States, seq : Nat, dep : Deps, token : Nat, until : Nat,
         attempts : Nat, next : Nat, ckpt : Nat, err : Nat,
         res : Callers \cup {Free}, stale : BOOLEAN, read : Nat]

NoItem == [state |-> "absent", seq |-> 0, dep |-> NoDep, token |-> 0, until |-> 0,
           attempts |-> 0, next |-> 0, ckpt |-> 0, err |-> 0,
           res |-> Free, stale |-> FALSE, read |-> 0]

(* A lease as the worker that holds it sees it: out until a call ends it;   *)
(* kept is a Nack or a Park, which leave the attempt counted.                *)
Lease == [seq : Nat, until : Nat, status : Outcomes]

Init ==
  /\ now = 1
  /\ items = [id \in Ids |-> NoItem]
  /\ seq = 0
  /\ byKey = [k \in Keys |-> {}]
  /\ groups = [d \in Deps |-> {}]
  /\ wake = [d \in Deps |-> 0]
  /\ parked = {}
  /\ counts = [s \in States \ {"absent"} |-> 0]
  /\ bytes = 0
  /\ grants = [id \in Ids |-> <<>>]
  /\ base = [id \in Ids |-> 0]

-----------------------------------------------------------------------------
(* Reading the queue.                                                        *)

Live == {id \in Ids : items[id].state # "absent"}

Queued(it) == it.state \in {"pending", "leased"}

Size(it) == IF it.state = "absent" THEN 0 ELSE 1 + it.ckpt + it.err

(* Mutant: a parked record does not hold its order key.                      *)
IsHeadUnparked(id) ==
  KeyOf[id] \in Keys => \A j \in byKey[KeyOf[id]] :
                          items[j].state = "parked" \/ items[id].seq <= items[j].seq

IsHead(id) ==
  KeyOf[id] \in Keys => \A j \in byKey[KeyOf[id]] : items[id].seq <= items[j].seq

(* When the state of an item lets it be leased again.                        *)
Due(it) == IF it.state = "leased" THEN it.until ELSE it.next

Ripe(id, t) == Queued(items[id]) /\ Due(items[id]) <= t /\ IsHead(id)

Eligible(id, t) == items[id].res = Free /\ Ripe(id, t)

(* The groups a LeaseRequest looks into: not skipped, not known to have      *)
(* nothing due, and, if only is given, that one.                             *)
Considered(skip, only) ==
  {d \in Deps \ skip : /\ groups[d] # {}
                       /\ only = NoDep \/ d = only
                       /\ wake[d] = 0 \/ wake[d] <= now}

Oldest(S, n) ==
  {id \in S : Cardinality({j \in S : items[j].seq < items[id].seq}) < n}

SelectLease(skip, only, max) ==
  Oldest({id \in UNION {groups[d] : d \in Considered(skip, only)} : Eligible(id, now)},
         max)

(* scanGroup on a group with nothing eligible.                               *)
NextWake(d) ==
  Min({Due(items[id]) : id \in {j \in groups[d] : Due(items[j]) > now}}
      \cup {now + MaxWakeSkew})

ScanWake(skip, only) ==
  [d \in Deps |->
     IF d \in Considered(skip, only) /\ \A id \in groups[d] : ~Eligible(id, now)
       THEN NextWake(d) ELSE wake[d]]

-----------------------------------------------------------------------------
(* What the operations make of an item.                                      *)

Born(st, d, c, e) ==
  [NoItem EXCEPT !.state = st, !.seq = seq + 1, !.dep = d, !.ckpt = c, !.err = e]

Granted(it, token, until) ==
  [it EXCEPT !.state = "leased", !.token = token, !.until = until, !.attempts = @ + 1]

(* A change of ver.                                                          *)
Touch(it) == [it EXCEPT !.stale = (it.res # Free)]

Reserved(it, w) == [it EXCEPT !.res = w, !.stale = FALSE, !.read = it.ckpt]

Unreserved(it) == [it EXCEPT !.res = Free, !.stale = FALSE, !.read = 0]

SetCheckpoint(it, c) == [it EXCEPT !.ckpt = c]

Nacked(it, next, d, refund, e) ==
  [it EXCEPT !.state = "pending", !.token = 0, !.until = 0, !.next = next, !.err = e,
             !.dep = IF d = NoDep THEN it.dep ELSE d,
             !.attempts = IF refund /\ it.attempts > 0 THEN it.attempts - 1 ELSE it.attempts]

Released(it) ==
  [it EXCEPT !.state = "pending", !.token = 0, !.until = 0,
             !.attempts = IF it.attempts > 0 THEN it.attempts - 1 ELSE it.attempts]

Parked(it, e) == [it EXCEPT !.state = "parked", !.token = 0, !.until = 0, !.err = e]

Requeued(it, c) ==
  [it EXCEPT !.state = "pending", !.attempts = 0, !.next = 0, !.ckpt = c]

(* Mutants: recovery gives the attempt of a cut-off lease back, or does not   *)
(* recover leased records.                                                   *)
RecoveredRefunded(it) ==
  [it EXCEPT !.state = IF it.state = "leased" THEN "pending" ELSE it.state,
             !.attempts = IF it.state = "leased" THEN @ - 1 ELSE @,
             !.token = 0, !.until = 0, !.res = Free, !.stale = FALSE, !.read = 0]
RecoveredUnleased(it) ==
  IF it.state = "leased" THEN NoItem
  ELSE [it EXCEPT !.res = Free, !.stale = FALSE, !.read = 0]

(* endReplay, on an item of a process that is gone.                          *)
Recovered(it) ==
  [it EXCEPT !.state = IF it.state = "leased" THEN "pending" ELSE it.state,
             !.token = 0, !.until = 0, !.res = Free, !.stale = FALSE, !.read = 0]

-----------------------------------------------------------------------------
(* Changing it: link, unlink and move for the ids of S, which become new[id]. *)

DepsOf(S, f) == {f[id].dep : id \in {j \in S : Queued(f[j])}}

Clear(D, w) == [d \in Deps |-> IF d \in D THEN 0 ELSE w[d]]

(* Mutant: a record that moves is not taken out of its old group.            *)
ReindexNoUnlink(S, new) ==
  /\ groups' = [d \in Deps |-> groups[d] \cup {id \in S : Queued(new[id]) /\ new[id].dep = d}]
  /\ parked' = (parked \ S) \cup {id \in S : new[id].state = "parked"}
  /\ counts' = [s \in DOMAIN counts |->
                  counts[s] + Cardinality({id \in S : new[id].state = s})]

Reindex(S, new) ==
  /\ groups' = [d \in Deps |-> (groups[d] \ S)
                               \cup {id \in S : Queued(new[id]) /\ new[id].dep = d}]
  /\ parked' = (parked \ S) \cup {id \in S : new[id].state = "parked"}
  /\ counts' = [s \in DOMAIN counts |->
                  counts[s] - Cardinality({id \in S : items[id].state = s})
                            + Cardinality({id \in S : new[id].state = s})]

(* Mutant: a record that shrinks gives nothing back.                         *)
ResizeGrow(S, new) ==
  bytes' = bytes + Total([id \in S |-> Max({0, Size(new[id]) - Size(items[id])})], S)

(* resize, and the bytes of what is inserted or removed.                     *)
Resize(S, new) ==
  bytes' = bytes + Total([id \in S |-> Size(new[id]) - Size(items[id])], S)

(* move one item, which becomes it, and save.                                *)
Move(id, it) ==
  LET new == [items EXCEPT ![id] = Touch(it)] IN
  /\ items' = new
  /\ Reindex({id}, new)
  /\ Resize({id}, new)
  /\ wake' = Clear(DepsOf({id}, items) \cup DepsOf({id}, new), wake)

(* The record that becomes the head of id's order key when id leaves it.     *)
Successors(id) ==
  IF KeyOf[id] \in Keys /\ IsHead(id)
    THEN LET rest == byKey[KeyOf[id]] \ {id}
         IN {j \in rest : \A i \in rest : items[j].seq <= items[i].seq}
    ELSE {}

(* Mutant: the group of the next record of the key is not woken.             *)
RemoveQuietly(id) ==
  LET new == [items EXCEPT ![id] = NoItem] IN
  /\ items' = new
  /\ Reindex({id}, new)
  /\ Resize({id}, new)
  /\ byKey' = [k \in Keys |-> byKey[k] \ {id}]
  /\ wake' = Clear(DepsOf({id}, items), wake)

Remove(id) ==
  LET new == [items EXCEPT ![id] = NoItem] IN
  /\ items' = new
  /\ Reindex({id}, new)
  /\ Resize({id}, new)
  /\ byKey' = [k \in Keys |-> byKey[k] \ {id}]
  /\ wake' = Clear(DepsOf({id} \cup Successors(id), items), wake)

-----------------------------------------------------------------------------
(* The producer side.                                                        *)

AppendRecord(id, st, d, c, e) ==
  /\ items[id].state = "absent"     \* a duplicate is left untouched
  /\ 1 + c + e <= MaxRecordBytes
  /\ Cardinality(Live) < MaxRecords
  /\ bytes + 1 + c + e <= MaxBytes
  /\ seq < MaxSeq
  /\ Move(id, Born(st, d, c, e))
  /\ byKey' = [k \in Keys |-> IF k = KeyOf[id] THEN byKey[k] \cup {id} ELSE byKey[k]]
  /\ seq' = seq + 1
  /\ base' = [base EXCEPT ![id] = Len(grants[id])]
  /\ UNCHANGED <<now, grants>>

-----------------------------------------------------------------------------
(* Lease.                                                                    *)

NoteGrants(S, ttl, status) ==
  grants' = [id \in Ids |->
               IF id \in S
                 THEN Append(grants[id], [seq |-> items[id].seq, until |-> now + ttl,
                                          status |-> status])
                 ELSE grants[id]]

CanGrant(S) == Total([id \in Ids |-> Len(grants[id])], Ids) + Cardinality(S) <= MaxLeases

(* MemoryStore.Lease: select and grant in one critical section.              *)
LeaseAtomic(skip, only, max, ttl) ==
  LET S == SelectLease(skip, only, max)
      new == [id \in Ids |-> IF id \in S 
                             THEN Granted(items[id], Len(grants[id]) + 1, now + ttl)
                             ELSE items[id]]
  IN /\ "atomic" \in Modes
     /\ CanGrant(S)
     /\ items' = new
     /\ Reindex(S, new)
     /\ wake' = Clear(DepsOf(S, items), ScanWake(skip, only))
     /\ NoteGrants(S, ttl, "out")
     /\ UNCHANGED <<now, seq, byKey, bytes, base>>

Candidates(w) == {id \in Ids : items[id].res = w}

(* WALStore.Lease, first step: pick, reserve and note what will be read.     *)
LeaseSelect(w, skip, only, max) ==
  LET S == SelectLease(skip, only, max)
  IN /\ "split" \in Modes
     /\ Candidates(w) = {}
     /\ items' = [id \in Ids |->
                    IF id \in S THEN Reserved(items[id], w) ELSE items[id]]
     /\ wake' = ScanWake(skip, only)
     /\ UNCHANGED <<now, seq, byKey, groups, parked, counts, bytes, grants, base>>

(* Mutant: commitLease does not compare ver.                                 *)
StillRipe(id) == Ripe(id, now)

(* A candidate that is still what was read.                                  *)
StillAsRead(id) == ~items[id].stale /\ Ripe(id, now)

(* commitLease: release every reservation, then park the candidates whose    *)
(* payload is unreadable (bad) and grant the readable ones (ok); the others  *)
(* changed or could not be read this time.  A caller whose wait for the disk *)
(* fails never gets the leases (delivered = FALSE).                          *)
LeaseCommit(w, ok, bad, e, ttl, delivered) ==
  LET C == Candidates(w)
      After(id) == LET it == Unreserved(items[id])
                   IN IF id \in ok THEN Granted(it, Len(grants[id]) + 1, now + ttl)
                      ELSE IF id \in bad THEN Parked(it, e)
                      ELSE it
      new == [id \in Ids |-> IF id \in C THEN After(id) ELSE items[id]]
  IN /\ C # {}
     /\ ok \cup bad \subseteq {id \in C : StillAsRead(id)}
     /\ ok \cap bad = {}
     /\ CanGrant(ok)
     /\ items' = new
     /\ Reindex(ok \cup bad, new)
     /\ Resize(bad, new)
     /\ wake' = Clear(DepsOf(C, items), wake)
     /\ NoteGrants(ok, ttl, IF delivered THEN "out" ELSE "lost")
     /\ UNCHANGED <<now, seq, byKey, base>>

-----------------------------------------------------------------------------
(* The worker side.  A worker calls with the lease it was given until one of *)
(* its calls has ended the lease.                                            *)

Out(id) == {n \in 1..Len(grants[id]) : grants[id][n].status = "out"}

(* Mutant: held does not compare the token.                                  *)
HeldByAnyone(id, n) == items[id].state = "leased"

Held(id, n) == items[id].state = "leased" /\ items[id].token = n

Settle(id, n, outcome) == grants' = [grants EXCEPT ![id][n].status = outcome]

CheckpointFits(id, c) ==
  LET grow == c - items[id].ckpt
  IN /\ grow > 0 => bytes + grow <= MaxBytes
     /\ Size(items[id]) + grow <= MaxRecordBytes

Checkpoint(id, n, c) ==
  LET new == [items EXCEPT ![id] = Touch(SetCheckpoint(items[id], c))]
  IN /\ n \in Out(id)
     /\ Held(id, n)
     /\ CheckpointFits(id, c)
     /\ items' = new
     /\ Resize({id}, new)
     /\ UNCHANGED <<now, seq, index, grants, base>>

Ack(id, n) ==
  /\ n \in Out(id)
  /\ Held(id, n)
  /\ Remove(id)
  /\ Settle(id, n, "acked")
  /\ UNCHANGED <<now, seq, base>>

Nack(id, n, delay, d, refund, e) ==
  /\ n \in Out(id)
  /\ Held(id, n)
  /\ Move(id, Nacked(items[id], now + delay, d, refund, e))
  /\ Settle(id, n, IF refund THEN "refunded" ELSE "kept")
  /\ UNCHANGED <<now, seq, byKey, base>>

Release(id, n) ==
  /\ n \in Out(id)
  /\ Held(id, n)
  /\ Move(id, Released(items[id]))
  /\ Settle(id, n, "refunded")
  /\ UNCHANGED <<now, seq, byKey, base>>

Park(id, n, e) ==
  /\ n \in Out(id)
  /\ Held(id, n)
  /\ Move(id, Parked(items[id], e))
  /\ Settle(id, n, "kept")
  /\ UNCHANGED <<now, seq, byKey, base>>

(* Any of these calls with a lease that is not the current one: ErrLeaseLost *)
(* or ErrNotFound, and the store is untouched.                               *)
LeaseLost(id, n) ==
  /\ n \in Out(id)
  /\ ~Held(id, n)
  /\ Settle(id, n, "lost")
  /\ UNCHANGED <<now, items, seq, index, bytes, base>>

-----------------------------------------------------------------------------
(* The operator's side, and the environment.                                 *)

Requeue(id, replace, c) ==
  /\ items[id].state = "parked"
  /\ replace => CheckpointFits(id, c)
  /\ Move(id, Requeued(items[id], IF replace THEN c ELSE items[id].ckpt))
  /\ base' = [base EXCEPT ![id] = Len(grants[id])]
  /\ UNCHANGED <<now, seq, byKey, grants>>

Discard(id) ==
  /\ items[id].state = "parked"
  /\ Remove(id)
  /\ UNCHANGED <<now, seq, grants, base>>

(* The process dies and opens the WAL again: the log gives back every record, *)
(* endReplay turns leases into pending records, and the workers are gone.     *)
Restart ==
  LET new == [id \in Ids |-> Recovered(items[id])]
  IN /\ items' = new
     /\ Reindex(Live, new)
     /\ wake' = [d \in Deps |-> 0]
     /\ grants' = [id \in Ids |-> [n \in 1..Len(grants[id]) |->
                     [grants[id][n] EXCEPT !.status = IF @ = "out" THEN "lost" ELSE @]]]
     /\ UNCHANGED <<now, seq, byKey, bytes, base>>

Tick ==
  /\ now < MaxTime
  /\ now' = now + 1
  /\ UNCHANGED <<items, seq, index, bytes, grants, base>>

Producer == \E id \in Ids, st \in Births, d \in Deps, c \in Ckpts, e \in Errs :
              AppendRecord(id, st, d, c, e)

Poller ==
  \E skip \in SUBSET (Deps \ {NoDep}) : \E only \in Deps \ skip, max \in Batches :
    \/ \E ttl \in TTLs : LeaseAtomic(skip, only, max, ttl)
    \/ \E w \in Callers : LeaseSelect(w, skip, only, max)

Committer ==
  \E w \in Callers : \E ok, bad \in SUBSET Candidates(w) :
    \E e \in Errs, ttl \in TTLs, delivered \in BOOLEAN :
      LeaseCommit(w, ok, bad, e, ttl, delivered)

Worker ==
  \E id \in Ids : \E n \in 1..Len(grants[id]) :
    \/ \E c \in Ckpts : Checkpoint(id, n, c)
    \/ Ack(id, n)
    \/ \E delay \in Delays, d \in Deps, refund \in BOOLEAN, e \in Errs :
         Nack(id, n, delay, d, refund, e)
    \/ Release(id, n)
    \/ \E e \in Errs : Park(id, n, e)
    \/ LeaseLost(id, n)

Operator ==
  \E id \in Ids :
    \/ \E replace \in BOOLEAN, c \in Ckpts : Requeue(id, replace, c)
    \/ Discard(id)

Next == Tick \/ Restart \/ Producer \/ Poller \/ Committer \/ Worker \/ Operator

Spec == Init /\ [][Next]_vars


-----------------------------------------------------------------------------
(* Properties.                                                               *)

(* Every variable stays in its type (TotalsMatchRecords pins counts and      *)
(* bytes).                                                                   *)
TypeOK ==
  /\ now \in Nat \ {0}
  /\ items \in [Ids -> Item]
  /\ seq \in Nat
  /\ byKey \in [Keys -> SUBSET Ids]
  /\ groups \in [Deps -> SUBSET Ids]
  /\ wake \in [Deps -> Nat]
  /\ parked \in SUBSET Ids
  /\ grants \in [Ids -> Seq(Lease)]
  /\ base \in [Ids -> Nat]

(* The index that link, unlink, move and remove keep by hand places every    *)
(* record exactly where its state and BlockedOn say: a Pending or Leased     *)
(* record in the group of its dependency and no other, a Parked one in the   *)
(* parked list, every live record under its order key.                       *)
IndexMatchesRecords ==
  /\ \A d \in Deps : groups[d] = {id \in Ids : Queued(items[id]) /\ items[id].dep = d}
  /\ parked = {id \in Ids : items[id].state = "parked"}
  /\ \A k \in Keys : byKey[k] = {id \in Live : KeyOf[id] = k}

(* The running totals that stats reports and that the limits are tested      *)
(* against are the true number of records per state and the true bytes held. *)
TotalsMatchRecords ==
  /\ \A s \in DOMAIN counts : counts[s] = Cardinality({id \in Ids : items[id].state = s})
  /\ bytes = Total([id \in Ids |-> Size(items[id])], Ids)

(* A cached wake time never hides work: while selectLease would skip a group *)
(* because now is before its wake, no record of the group is eligible.       *)
WakeHidesNothing ==
  \A d \in Deps : wake[d] > now => \A id \in groups[d] : ~Eligible(id, now)

(* At any moment at most one unexpired lease is in a worker's hands per      *)
(* record, and per order key: eligible offers only the head of a key, held   *)
(* does not test expiry, and still no two workers are inside their leases on *)
(* the same record or on two records of one key.                             *)
OneWorkerPerKey ==
  \A i, j \in Ids : \A m \in Out(i), n \in Out(j) :
    /\ <<i, m>> # <<j, n>>
    /\ i = j \/ (KeyOf[i] = KeyOf[j] /\ KeyOf[i] \in Keys)
    => grants[i][m].until <= now \/ grants[j][n].until <= now

(* Fencing: a call that ends a lease succeeds only for the newest lease ever *)
(* granted on that id, and only on the record it was granted for, not on a   *)
(* record appended later under the same id.                                  *)
OnlyNewestLeaseSettles ==
  [][\A id \in Ids : \A n \in 1..Len(grants[id]) :
       /\ grants[id][n].status = "out"
       /\ grants'[id][n].status \in {"acked", "kept", "refunded"}
       => n = Len(grants[id]) /\ grants[id][n].seq = items[id].seq]_vars

(* A record leaves the store only because a worker holding its lease         *)
(* finished it or because an operator discarded it while parked; leases that *)
(* expire, restarts and unreadable payloads never lose one.                  *)
LeavesOnlyWhenDone ==
  [][\A id \in Live : items'[id].seq # items[id].seq =>
       \/ items[id].state = "parked"
       \/ /\ items[id].state = "leased"
          /\ grants'[id][items[id].token].status = "acked"]_vars

(* Attempts counts every lease handed out since the record was appended or   *)
(* requeued, leases lost to expiry or to a crash included, minus exactly the *)
(* ones that were refunded: the floor at zero never swallows a refund.       *)
AttemptsExact ==
  \A id \in Live :
    items[id].attempts =
      Cardinality({n \in (base[id] + 1)..Len(grants[id]) :
                     grants[id][n].status # "refunded"})

(* A lease hands out the checkpoint the record has at that moment, although  *)
(* WALStore read it before, with the lock released (what it hands out is what *)
(* it read), while the worker of an expired lease could still save a newer    *)
(* one, or the record be finished and appended again.                         *)
HandoutIsCurrent ==
  [][\A id \in Ids : Len(grants'[id]) > Len(grants[id]) /\ items[id].res # Free =>
       items[id].read = items[id].ckpt]_vars

=============================================================================
