--------------------------- MODULE MachineRefines ---------------------------
(***************************************************************************)
(* Machine implements Store for every value of its constants: the initial   *)
(* state maps to an initial state of Store, and every step to a step or to   *)
(* a stutter.  The totals that stats reports are those of the records.       *)
(***************************************************************************)
EXTENDS MachineStore, MachineProofs, WellFoundedInduction

\* A leaf goes to Zenon, or to Z3 where it says so.
USE ZenonT(20), SMTT(30)

-----------------------------------------------------------------------------
(* What the mapping needs beyond IInv: a record that is not leased carries   *)
(* no expiry, and an absent one carries nothing at all.                      *)
ViewInv ==
  \A id \in Ids :
    /\ items[id].state # "leased" => items[id].until = 0
    /\ items[id].state = "absent" => items[id].seq = 0 /\ items[id].next = 0

(* Callers cannot tell a from b.                                             *)
Alike(a, b) ==
  /\ a.state = b.state /\ a.seq = b.seq /\ a.token = b.token
  /\ a.until = b.until /\ a.next = b.next

(* b is a, pending and due at n.                                             *)
NowPending(a, b, n) ==
  b.state = "pending" /\ b.seq = a.seq /\ b.token = 0 /\ b.until = 0 /\ b.next = n

(* b is a, parked.                                                           *)
NowParked(a, b) ==
  b.state = "parked" /\ b.seq = a.seq /\ b.token = 0 /\ b.until = 0 /\ b.next = a.next

(* b is a, leased under token t until u.                                     *)
NowLeased(a, b, t, u) ==
  b.state = "leased" /\ b.seq = a.seq /\ b.token = t /\ b.until = u /\ b.next = a.next

-----------------------------------------------------------------------------
(* The mapping of one record.                                                *)

(* Items that are alike are one record to the callers.                       *)
LEMMA AlikeView ==
  ASSUME NEW a, NEW b, NEW k, Alike(a, b)
  PROVE  recordOf(a, k) = recordOf(b, k)
BY DEF Alike, recordOf

(* Pending maps to Pending (applyNack, applyRelease, applyRequeue, endReplay). *)
LEMMA PendingView ==
  ASSUME NEW a, NEW b, NEW k, NEW n, a.state # "absent", NowPending(a, b, n)
  PROVE  recordOf(b, k) = Abstract!Pending(recordOf(a, k), n)
BY DEF NowPending, recordOf, Abstract!Pending, Abstract!In

(* Parked maps to SetAside (applyPark).                                        *)
LEMMA ParkedView ==
  ASSUME NEW a, NEW b, NEW k, a.state # "absent", NowParked(a, b)
  PROVE  recordOf(b, k) = Abstract!SetAside(recordOf(a, k))
BY DEF NowParked, recordOf, Abstract!SetAside, Abstract!In

(* Leased maps to leased (grant).                                              *)
LEMMA LeasedView ==
  ASSUME NEW a, NEW b, NEW k, NEW t, NEW u, a.state # "absent", NowLeased(a, b, t, u)
  PROVE  recordOf(b, k) = Abstract!Leased(recordOf(a, k), t, u)
BY DEF NowLeased, recordOf, Abstract!Leased, Abstract!In

(* An absent item maps to an absent record (remove).                           *)
LEMMA AbsentView ==
  ASSUME NEW a, NEW k, a.state = "absent", a.seq = 0, a.token = 0, a.until = 0, a.next = 0
  PROVE  recordOf(a, k) = Abstract!Absent
BY DEF recordOf, Abstract!Absent

-----------------------------------------------------------------------------
(* What the operations on one item look like to the callers.                 *)

(* ver, reservations and checkpoints are invisible.                          *)
LEMMA HiddenFields ==
  ASSUME NEW it \in Item, NEW w, NEW c
  PROVE  /\ Alike(Touch(it), it) /\ Alike(Reserved(it, w), it)
         /\ Alike(Unreserved(it), it) /\ Alike(SetCheckpoint(it, c), it)
<1>1. Alike(Touch(it), it)
  BY TouchFacts DEF Alike
<1>2. /\ Alike(Reserved(it, w), it) /\ Alike(Unreserved(it), it)
      /\ Alike(SetCheckpoint(it, c), it)
  BY DEF Reserved, Unreserved, SetCheckpoint, Alike, Item
<1>. QED  BY <1>1, <1>2

(* Nack, Release, Park, grant, requeue and recovery of one item.             *)
LEMMA ItemViews ==
  ASSUME NEW it \in Item
  PROVE  /\ \A d, refund, e, t : NowPending(it, Nacked(it, t, d, refund, e), t)
         /\ NowPending(it, Released(it), it.next)
         /\ \A e : NowParked(it, Parked(it, e))
         /\ \A t, u : NowLeased(it, Granted(it, t, u), t, u)
         /\ it.token = 0 /\ it.until = 0 => \A c : NowPending(it, Requeued(it, c), 0)
         /\ it.state = "leased" => NowPending(it, Recovered(it), it.next)
         /\ it.state # "leased" /\ it.token = 0 /\ it.until = 0 => Alike(Recovered(it), it)
<1>1. \A d, refund, e, t : NowPending(it, Nacked(it, t, d, refund, e), t)
  <2>1. ASSUME NEW d, NEW refund, NEW e, NEW t, NEW dd, NEW a
        PROVE  NowPending(it, [it EXCEPT !.state = "pending", !.token = 0, !.until = 0,
                                         !.next = t, !.err = e, !.dep = dd, !.attempts = a], t)
    BY ZenonT(30) DEF NowPending, Item
  <2>. QED  BY <2>1 DEF Nacked
<1>2. NowPending(it, Released(it), it.next)
  BY DEF NowPending, Released, Item
<1>3. \A e : NowParked(it, Parked(it, e))
  BY DEF NowParked, Parked, Item
<1>4. \A t, u : NowLeased(it, Granted(it, t, u), t, u)
  BY DEF NowLeased, Granted, Item
<1>5. it.token = 0 /\ it.until = 0 => \A c : NowPending(it, Requeued(it, c), 0)
  BY DEF NowPending, Requeued, Item
<1>6. it.state = "leased" => NowPending(it, Recovered(it), it.next)
  BY DEF NowPending, Recovered, Item
<1>7. it.state # "leased" /\ it.token = 0 /\ it.until = 0 => Alike(Recovered(it), it)
  BY DEF Alike, Recovered, Item
<1>. QED  BY <1>1, <1>2, <1>3, <1>4, <1>5, <1>6, <1>7

-----------------------------------------------------------------------------
(* What the steps do to the mapped variables.                                *)

(* One item changes, and so does one record.                                 *)
LEMMA OneRecord ==
  ASSUME TypeOK, NEW id \in Ids, NEW x, items' = [items EXCEPT ![id] = x]
  PROVE  records' = [records EXCEPT ![id] = recordOf(x, KeyOf[id])]
<1>1. items'[id] = x /\ \A j \in Ids : j # id => items'[j] = items[j]
  BY DEF TypeOK
<1>2. \A j \in Ids : recordOf(items'[j], KeyOf[j])
                     = IF j = id THEN recordOf(x, KeyOf[id]) ELSE recordOf(items[j], KeyOf[j])
  BY <1>1, SMTT(30)
<1>3. /\ records = [j \in Ids |-> recordOf(items[j], KeyOf[j])]
      /\ records' = [j \in Ids |-> recordOf(items'[j], KeyOf[j])]
  BY DEF records
<1>. QED  BY <1>2, <1>3

(* Steps after which callers see the same records.                           *)
LEMMA SameRecords ==
  ASSUME \A j \in Ids : Alike(items'[j], items[j])
  PROVE  records' = records
<1>1. \A j \in Ids : recordOf(items'[j], KeyOf[j]) = recordOf(items[j], KeyOf[j])
  BY AlikeView
<1>. QED  BY <1>1 DEF records

(* A call that ends lease n adds n to the ended ones; ErrLeaseLost does not. *)
LEMMA SettleView ==
  ASSUME TypeOK, NEW id \in Ids, NEW n \in Out(id), NEW o \in Outcomes, Settle(id, n, o)
  PROVE  /\ tokens' = tokens
         /\ o \in Ended => ended' = [ended EXCEPT ![id] = @ \cup {n}]
         /\ o \notin Ended => ended' = ended
<1>1. /\ \A j \in Ids : Len(grants'[j]) = Len(grants[j])
      /\ \A j \in Ids : \A m \in 1..Len(grants[j]) :
           grants'[j][m].status = IF j = id /\ m = n THEN o ELSE grants[j][m].status
  BY SettleFacts, SMTT(30)
<1>2. n \in 1..Len(grants[id]) /\ grants[id][n].status = "out" /\ "out" \notin Ended
  BY DEF Out, Ended
<1>3. tokens' = tokens
  BY <1>1 DEF tokens
<1>. DEFINE E(j) == {m \in 1..Len(grants[j]) : grants[j][m].status \in Ended}
            F(j) == {m \in 1..Len(grants'[j]) : grants'[j][m].status \in Ended}
<1>4. ASSUME o \in Ended
      PROVE  F(id) = E(id) \cup {n} /\ \A j \in Ids : j # id => F(j) = E(j)
  BY <1>1, <1>2, <1>4
<1>5. ASSUME o \notin Ended PROVE \A j \in Ids : F(j) = E(j)
  BY <1>1, <1>2, <1>5
<1>6. ended = [j \in Ids |-> E(j)] /\ ended' = [j \in Ids |-> F(j)]
  BY DEF ended
<1>. HIDE DEF E, F
<1>7. o \in Ended => ended' = [ended EXCEPT ![id] = @ \cup {n}]
  BY <1>4, <1>6
<1>8. o \notin Ended => ended' = ended
  BY <1>5, <1>6
<1>. QED  BY <1>3, <1>7, <1>8

(* A grant issues one token for each record of S and ends no lease.          *)
LEMMA GrantView ==
  ASSUME TypeOK, NEW S \in SUBSET Ids, NEW ttl \in TTLs, NEW o \in Outcomes \ Ended,
         NoteGrants(S, ttl, o)
  PROVE  /\ tokens' = [j \in Ids |-> IF j \in S THEN tokens[j] + 1 ELSE tokens[j]]
         /\ ended' = ended
<1>1. GrantEffect(S, ttl)
  BY GrantFacts
<1>2. \A j \in Ids : Len(grants'[j]) = IF j \in S THEN Len(grants[j]) + 1 ELSE Len(grants[j])
  BY <1>1 DEF GrantEffect
<1>3. tokens' = [j \in Ids |-> IF j \in S THEN tokens[j] + 1 ELSE tokens[j]]
  BY <1>2 DEF tokens
<1>4. ASSUME NEW j \in S
      PROVE  grants'[j][Len(grants[j]) + 1].status = o
  <2>. DEFINE l == [seq |-> items[j].seq, until |-> now + ttl, status |-> o]
  <2>1. grants'[j] = Append(grants[j], l) /\ l.status = o
    BY DEF NoteGrants
  <2>2. grants[j] \in Seq(Lease)
    BY DEF TypeOK
  <2>3. l \in Lease
    <3>1. items[j].seq \in Nat /\ now + ttl \in Nat
      BY Typed, TimesAssumption, SMTT(30) DEF TypeOK
    <3>. QED  BY <3>1 DEF Lease
  <2>. HIDE DEF l
  <2>. QED  BY <2>1, <2>2, <2>3, SMTT(30)
<1>. DEFINE E(j) == {m \in 1..Len(grants[j]) : grants[j][m].status \in Ended}
            F(j) == {m \in 1..Len(grants'[j]) : grants'[j][m].status \in Ended}
<1>5. ASSUME NEW j \in Ids PROVE F(j) = E(j)
  <2>1. CASE j \notin S
    BY <1>1, <2>1 DEF GrantEffect
  <2>2. CASE j \in S
    <3>1. /\ Len(grants'[j]) = Len(grants[j]) + 1 /\ Len(grants[j]) \in Nat
          /\ \A m \in 1..Len(grants[j]) : grants'[j][m] = grants[j][m]
          /\ grants'[j][Len(grants[j]) + 1].status \notin Ended
      BY <1>1, <1>4, <2>2, Typed DEF GrantEffect
    <3>. QED  BY <3>1, SMTT(30)
  <2>. QED  BY <2>1, <2>2
<1>6. ended = [j \in Ids |-> E(j)] /\ ended' = [j \in Ids |-> F(j)]
  BY DEF ended
<1>. HIDE DEF E, F
<1>. QED  BY <1>3, <1>5, <1>6

-----------------------------------------------------------------------------
(* The steps.                                                                *)

(* The step is a step of Store or changes nothing callers can see, and the   *)
(* mapping stays sound.                                                      *)
Shown == /\ Abstract!StoreNext \/ UNCHANGED Abstract!storeVars
         /\ ViewInv'

(* The state, the order and the lease of a mapped record.                    *)
LEMMA RecordFields ==
  ASSUME NEW id \in Ids
  PROVE  /\ records[id] = recordOf(items[id], KeyOf[id])
         /\ records[id].state = items[id].state /\ records[id].pos = items[id].seq
         /\ records[id].token = items[id].token /\ records[id].until = items[id].until
         /\ records[id].next = items[id].next
         /\ items[id].state # "absent" => records[id].key = KeyOf[id]
BY DEF records, recordOf

(* What eligible offers, Store allows: the record is due and the oldest live  *)
(* one of its key.                                                            *)
LEMMA RipeView ==
  ASSUME IInv, NEW id \in Ids, Ripe(id, now)
  PROVE  Abstract!MayLease(id)
<1>1. Queued(items[id]) /\ Due(items[id]) <= now /\ IsHead(id)
  BY DEF Ripe
<1>2. records[id].state \in {"pending", "leased"} /\ Abstract!Due(records[id]) <= now
  BY <1>1, RecordFields DEF Queued, Due, Abstract!Due
<1>3. ASSUME records[id].key \in Keys, NEW j \in Ids, records[j].state # "absent",
             records[j].key = records[id].key
      PROVE  records[id].pos <= records[j].pos
  <2>1. items[id].state # "absent" /\ items[j].state # "absent"
    BY <1>1, <1>3, RecordFields DEF Queued
  <2>2. KeyOf[j] = KeyOf[id] /\ KeyOf[id] \in Keys
    BY <1>3, <2>1, RecordFields
  <2>3. j \in byKey[KeyOf[id]]
    BY <2>1, <2>2 DEF IInv, IndexMatchesRecords, Live
  <2>4. items[id].seq <= items[j].seq
    BY <1>1, <2>2, <2>3 DEF IsHead
  <2>. QED  BY <2>4, RecordFields
<1>4. Abstract!IsHead(id)
  BY <1>3 DEF Abstract!IsHead, Abstract!Stored
<1>. QED  BY <1>2, <1>4 DEF Abstract!MayLease

(* Steps that touch neither the records, the leases nor the clock.           *)
LEMMA HiddenStep ==
  ASSUME ViewInv, \A j \in Ids : Alike(items'[j], items[j]),
         now' = now, seq' = seq, tokens' = tokens, ended' = ended
  PROVE  Shown
<1>1. records' = records
  BY SameRecords
<1>2. ViewInv'
  BY DEF ViewInv, Alike
<1>. QED  BY <1>1, <1>2 DEF Shown, Abstract!storeVars

(* Time passes.                                                              *)
LEMMA TickShown ==
  ASSUME ViewInv, Tick
  PROVE  Shown
<1>1. items' = items /\ seq' = seq /\ grants' = grants /\ now' = now + 1
  BY DEF Tick
<1>2. records' = records /\ tokens' = tokens /\ ended' = ended /\ ViewInv'
  BY <1>1 DEF records, tokens, ended, ViewInv
<1>3. Abstract!Tick
  BY <1>1, <1>2 DEF Abstract!Tick
<1>. QED  BY <1>2, <1>3 DEF Shown, Abstract!StoreNext

(* The records of G are leased and those of B parked, all of them ripe:      *)
(* MemoryStore.Lease, and commitLease.                                       *)
LEMMA LeaseShown ==
  ASSUME IInv, ViewInv, NEW G \in SUBSET Ids, NEW B \in SUBSET Ids, G \cap B = {},
         NEW ttl \in TTLs, NEW o \in Outcomes \ Ended, NoteGrants(G, ttl, o),
         \A j \in G \cup B : Ripe(j, now), now' = now, seq' = seq,
         \A j \in G : NowLeased(items[j], items'[j], Len(grants[j]) + 1, now + ttl),
         \A j \in B : NowParked(items[j], items'[j]),
         \A j \in Ids \ (G \cup B) : Alike(items'[j], items[j])
  PROVE  Shown
<1>1. TypeOK
  BY DEF IInv
<1>2. /\ tokens' = [j \in Ids |-> IF j \in G THEN tokens[j] + 1 ELSE tokens[j]]
      /\ ended' = ended
  BY <1>1, GrantView
<1>3. \A j \in G \cup B : Abstract!MayLease(j) /\ items[j].state # "absent"
  BY RipeView DEF Ripe, Queued
<1>4. \A j \in G : recordOf(items'[j], KeyOf[j])
                   = Abstract!Leased(records[j], tokens[j] + 1, now + ttl)
  <2>1. ASSUME NEW j \in G
        PROVE  recordOf(items'[j], KeyOf[j])
               = Abstract!Leased(records[j], tokens[j] + 1, now + ttl)
    <3>1. records[j] = recordOf(items[j], KeyOf[j]) /\ tokens[j] = Len(grants[j])
      BY RecordFields DEF tokens
    <3>. QED  BY <1>3, <3>1, LeasedView, SMTT(30)
  <2>. QED  BY <2>1
<1>5. \A j \in B : recordOf(items'[j], KeyOf[j]) = Abstract!SetAside(records[j])
  BY <1>3, ParkedView, RecordFields, SMTT(30)
<1>6. \A j \in Ids \ (G \cup B) : recordOf(items'[j], KeyOf[j]) = records[j]
  BY AlikeView, RecordFields, SMTT(30)
<1>7. records' = [j \in Ids |-> recordOf(items'[j], KeyOf[j])]
  BY DEF records
<1>8. records' = [j \in Ids |->
                    IF j \in G THEN Abstract!Leased(records[j], tokens[j] + 1, now + ttl)
                    ELSE IF j \in B THEN Abstract!SetAside(records[j]) ELSE records[j]]
  BY <1>4, <1>5, <1>6, <1>7
<1>9. Abstract!Lease(G, B, ttl)
  BY <1>2, <1>3, <1>8 DEF Abstract!Lease
<1>10. Abstract!StoreNext
  BY <1>9 DEF Abstract!StoreNext
<1>11. ViewInv'
  <2>1. \A j \in Ids : \/ Alike(items'[j], items[j]) \/ NowParked(items[j], items'[j])
                       \/ NowLeased(items[j], items'[j], Len(grants[j]) + 1, now + ttl)
    OBVIOUS
  <2>2. ASSUME NEW j \in Ids
        PROVE  /\ items'[j].state # "leased" => items'[j].until = 0
               /\ items'[j].state = "absent" => items'[j].seq = 0 /\ items'[j].next = 0
    <3>1. CASE Alike(items'[j], items[j])
      BY ONLY <3>1, ViewInv, j \in Ids, Zenon DEF ViewInv, Alike
    <3>2. CASE NowParked(items[j], items'[j])
      BY ONLY <3>2, Zenon DEF NowParked
    <3>3. CASE NowLeased(items[j], items'[j], Len(grants[j]) + 1, now + ttl)
      BY ONLY <3>3, Zenon DEF NowLeased
    <3>. QED  BY <2>1, <3>1, <3>2, <3>3
  <2>. QED  BY <2>2 DEF ViewInv
<1>. QED  BY <1>10, <1>11 DEF Shown

(* One record changes from a to r by a call with the token of its lease.      *)
LEMMA SettleShown ==
  ASSUME IInv, ViewInv, NEW id \in Ids, NEW n \in Out(id), Held(id, n),
         NEW o \in Ended, Settle(id, n, o), now' = now, seq' = seq,
         NEW x, items' = [items EXCEPT ![id] = x],
         NEW r, recordOf(x, KeyOf[id]) = r
  PROVE  Abstract!Settle(id, n, r) /\ n \in 1..tokens[id]
<1>1. TypeOK /\ o \in Outcomes
  BY DEF IInv, Ended, Outcomes
<1>2. tokens' = tokens /\ ended' = [ended EXCEPT ![id] = @ \cup {n}]
  BY <1>1, SettleView
<1>3. records' = [records EXCEPT ![id] = r]
  BY <1>1, OneRecord
<1>4. records[id].state = "leased" /\ records[id].token = n
  BY RecordFields DEF Held
<1>5. n \in 1..tokens[id]
  BY DEF Out, tokens
<1>. QED  BY <1>2, <1>3, <1>4, <1>5 DEF Abstract!Settle

(* Ack removes the record.                                                   *)
LEMMA AckShown ==
  ASSUME IInv, ViewInv, NEW id \in Ids, NEW n, Ack(id, n)
  PROVE  Shown
<1>1. /\ n \in Out(id) /\ Held(id, n) /\ Settle(id, n, "acked") /\ "acked" \in Ended
      /\ items' = [items EXCEPT ![id] = NoItem] /\ now' = now /\ seq' = seq
  BY DEF Ack, Remove, Ended
<1>2. recordOf(NoItem, KeyOf[id]) = Abstract!Absent
  BY AbsentView DEF NoItem
<1>3. Abstract!Ack(id, n) /\ n \in 1..tokens[id]
  BY <1>1, <1>2, SettleShown DEF Abstract!Ack
<1>4. Abstract!StoreNext
  BY <1>3 DEF Abstract!StoreNext, Abstract!Holder
<1>5. ViewInv'
  BY <1>1 DEF ViewInv, NoItem, IInv, TypeOK
<1>. QED  BY <1>4, <1>5 DEF Shown

(* What move leaves behind: the item it was given, to a caller.               *)
LEMMA MoveView ==
  ASSUME TypeOK, ViewInv, NEW id \in Ids, NEW it \in Item, Move(id, it),
         it.state \in {"pending", "parked"}, it.until = 0
  PROVE  /\ items' = [items EXCEPT ![id] = Touch(it)]
         /\ recordOf(Touch(it), KeyOf[id]) = recordOf(it, KeyOf[id])
         /\ ViewInv'
<1>1. items' = [items EXCEPT ![id] = Touch(it)]
  BY DEF Move
<1>2. Alike(Touch(it), it)
  BY HiddenFields
<1>3. items'[id] = Touch(it) /\ \A j \in Ids : j # id => items'[j] = items[j]
  BY <1>1 DEF TypeOK
<1>4. ViewInv'
  BY <1>2, <1>3 DEF ViewInv, Alike
<1>. QED  BY <1>1, <1>2, <1>4, AlikeView

(* Nack, Release and Park: the record is pending or parked again.            *)
LEMMA EndShown ==
  ASSUME IInv, ViewInv, NEW id \in Ids, NEW n,
         \/ \E delay \in Delays, d \in Deps, refund \in BOOLEAN, e \in Errs :
              Nack(id, n, delay, d, refund, e)
         \/ Release(id, n)
         \/ \E e \in Errs : Park(id, n, e)
  PROVE  Shown
<1>1. TypeOK /\ items[id] \in Item /\ now \in Nat
  BY Typed DEF IInv, TypeOK
<1>2. Errs \subseteq Nat /\ Delays \subseteq Nat /\ {"kept", "refunded"} \subseteq Ended
  BY SizesAssumption, TimesAssumption DEF Ended
<1>3. records[id] = recordOf(items[id], KeyOf[id])
  BY RecordFields
<1>4. ASSUME NEW it \in Item, NEW o \in Ended, NEW r, n \in Out(id), Held(id, n),
             Move(id, it), Settle(id, n, o), now' = now, seq' = seq,
             it.state \in {"pending", "parked"}, it.until = 0,
             recordOf(it, KeyOf[id]) = r
      PROVE  Abstract!Settle(id, n, r) /\ n \in 1..tokens[id] /\ ViewInv'
  <2>1. /\ items' = [items EXCEPT ![id] = Touch(it)]
        /\ recordOf(Touch(it), KeyOf[id]) = r /\ ViewInv'
    BY <1>1, <1>4, MoveView
  <2>. QED  BY <1>4, <2>1, SettleShown
<1>5. Held(id, n) => items[id].state # "absent"
  BY DEF Held
<1>6. ASSUME NEW delay \in Delays, NEW d \in Deps, NEW refund \in BOOLEAN, NEW e \in Errs,
             Nack(id, n, delay, d, refund, e)
      PROVE  Shown
  <2>. DEFINE t == now + delay
              it == Nacked(items[id], t, d, refund, e)
              o == IF refund THEN "refunded" ELSE "kept"
  <2>1. t \in Nat /\ e \in Nat /\ o \in Ended
    BY <1>1, <1>2, SMTT(30)
  <2>2. it \in Item /\ NowPending(items[id], it, t)
    BY <1>1, <2>1, NackedFacts, ItemViews
  <2>3. /\ n \in Out(id) /\ Held(id, n) /\ Move(id, it) /\ Settle(id, n, o)
        /\ now' = now /\ seq' = seq
    BY <1>6 DEF Nack
  <2>. HIDE DEF it, o, t
  <2>4. recordOf(it, KeyOf[id]) = Abstract!Pending(records[id], t)
    <3>1. items[id].state # "absent"
      BY <1>5, <2>3
    <3>2. recordOf(it, KeyOf[id]) = Abstract!Pending(recordOf(items[id], KeyOf[id]), t)
      BY ONLY <2>2, <3>1, Zenon DEF NowPending, recordOf, Abstract!Pending, Abstract!In
    <3>. QED  BY <1>3, <3>2
  <2>5. it.state \in {"pending", "parked"} /\ it.until = 0
    BY <2>2 DEF NowPending
  <2>6. /\ Abstract!Settle(id, n, Abstract!Pending(records[id], t))
        /\ n \in 1..tokens[id] /\ ViewInv'
    BY <1>4, <2>1, <2>2, <2>3, <2>4, <2>5
  <2>7. Abstract!Nack(id, n, delay)
    BY <2>6 DEF Abstract!Nack, t
  <2>. QED  BY <2>6, <2>7 DEF Shown, Abstract!StoreNext, Abstract!Holder
<1>7. ASSUME Release(id, n) PROVE Shown
  <2>. DEFINE it == Released(items[id])
  <2>1. it \in Item /\ NowPending(items[id], it, items[id].next)
    BY <1>1, ReleasedFacts, ItemViews
  <2>2. /\ n \in Out(id) /\ Held(id, n) /\ Move(id, it) /\ Settle(id, n, "refunded")
        /\ now' = now /\ seq' = seq
    BY <1>7 DEF Release
  <2>. HIDE DEF it
  <2>3. recordOf(it, KeyOf[id]) = Abstract!Pending(records[id], records[id].next)
    <3>1. items[id].state # "absent"
      BY <1>5, <2>2
    <3>2. recordOf(it, KeyOf[id])
          = Abstract!Pending(recordOf(items[id], KeyOf[id]), items[id].next)
      BY ONLY <2>1, <3>1, Zenon DEF NowPending, recordOf, Abstract!Pending, Abstract!In
    <3>3. records[id].next = items[id].next
      BY RecordFields
    <3>. QED  BY <1>3, <3>2, <3>3
  <2>4. it.state \in {"pending", "parked"} /\ it.until = 0
    BY <2>1 DEF NowPending
  <2>5. Abstract!Release(id, n) /\ n \in 1..tokens[id] /\ ViewInv'
    BY <1>2, <1>4, <2>1, <2>2, <2>3, <2>4 DEF Abstract!Release
  <2>. QED  BY <2>5 DEF Shown, Abstract!StoreNext, Abstract!Holder
<1>8. ASSUME NEW e \in Errs, Park(id, n, e) PROVE Shown
  <2>. DEFINE it == Parked(items[id], e)
  <2>1. it \in Item /\ NowParked(items[id], it)
    BY <1>1, <1>2, ParkedFacts, ItemViews
  <2>2. /\ n \in Out(id) /\ Held(id, n) /\ Move(id, it) /\ Settle(id, n, "kept")
        /\ now' = now /\ seq' = seq
    BY <1>8 DEF Park
  <2>. HIDE DEF it
  <2>3. recordOf(it, KeyOf[id]) = Abstract!SetAside(records[id])
    <3>1. items[id].state # "absent"
      BY <1>5, <2>2
    <3>2. recordOf(it, KeyOf[id]) = Abstract!SetAside(recordOf(items[id], KeyOf[id]))
      BY ONLY <2>1, <3>1, ParkedView, Zenon
    <3>. QED  BY <1>3, <3>2
  <2>4. it.state \in {"pending", "parked"} /\ it.until = 0
    BY <2>1 DEF NowParked
  <2>5. Abstract!Park(id, n) /\ n \in 1..tokens[id] /\ ViewInv'
    BY <1>2, <1>4, <2>1, <2>2, <2>3, <2>4 DEF Abstract!Park
  <2>. QED  BY <2>5 DEF Shown, Abstract!StoreNext, Abstract!Holder
<1>. QED  BY <1>6, <1>7, <1>8

(* The operator takes a parked record back into the queue.                   *)
LEMMA RequeueShown ==
  ASSUME IInv, ViewInv, NEW id \in Ids, NEW replace \in BOOLEAN, NEW c \in Ckpts,
         Requeue(id, replace, c)
  PROVE  Shown
<1>. DEFINE cc == IF replace THEN c ELSE items[id].ckpt
            it == Requeued(items[id], cc)
<1>1. TypeOK /\ items[id] \in Item /\ cc \in Nat
  BY SizesAssumption, Typed DEF IInv, Item
<1>2. /\ items[id].state = "parked" /\ Move(id, it)
      /\ now' = now /\ seq' = seq /\ grants' = grants
  BY DEF Requeue
<1>3. items[id].token = 0 /\ items[id].until = 0
  BY <1>2 DEF IInv, TokenInv, ViewInv
<1>4. it \in Item /\ NowPending(items[id], it, 0)
  BY <1>1, <1>3, RequeuedFacts, ItemViews
<1>. HIDE DEF it
<1>5. it.state \in {"pending", "parked"} /\ it.until = 0
  BY <1>4 DEF NowPending
<1>6. /\ items' = [items EXCEPT ![id] = Touch(it)] /\ ViewInv'
      /\ recordOf(Touch(it), KeyOf[id]) = recordOf(it, KeyOf[id])
  BY <1>1, <1>2, <1>4, <1>5, MoveView
<1>7. recordOf(it, KeyOf[id]) = Abstract!Pending(records[id], 0)
  BY <1>2, <1>4, PendingView, RecordFields, SMTT(30)
<1>8. records' = [records EXCEPT ![id] = Abstract!Pending(records[id], 0)]
  BY <1>1, <1>6, <1>7, OneRecord
<1>9. tokens' = tokens /\ ended' = ended /\ records[id].state = "parked"
  BY <1>2, RecordFields DEF tokens, ended
<1>10. Abstract!Requeue(id)
  BY <1>2, <1>8, <1>9 DEF Abstract!Requeue
<1>. QED  BY <1>6, <1>10 DEF Shown, Abstract!StoreNext

(* The operator discards a parked record.                                    *)
LEMMA DiscardShown ==
  ASSUME IInv, ViewInv, NEW id \in Ids, Discard(id)
  PROVE  Shown
<1>1. /\ items[id].state = "parked" /\ items' = [items EXCEPT ![id] = NoItem]
      /\ now' = now /\ seq' = seq /\ grants' = grants /\ TypeOK
  BY DEF Discard, Remove, IInv
<1>2. recordOf(NoItem, KeyOf[id]) = Abstract!Absent
  BY AbsentView DEF NoItem
<1>3. records' = [records EXCEPT ![id] = Abstract!Absent]
  BY <1>1, <1>2, OneRecord
<1>4. tokens' = tokens /\ ended' = ended /\ records[id].state = "parked"
  BY <1>1, RecordFields DEF tokens, ended
<1>5. Abstract!Discard(id)
  BY <1>1, <1>3, <1>4 DEF Abstract!Discard
<1>6. ViewInv'
  BY <1>1 DEF ViewInv, NoItem, TypeOK
<1>. QED  BY <1>5, <1>6 DEF Shown, Abstract!StoreNext

(* prepare and insert: a new record at the end of the order.                  *)
LEMMA AppendShown ==
  ASSUME IInv, ViewInv, NEW id \in Ids, NEW st \in Births, NEW d \in Deps, NEW c \in Ckpts,
         NEW e \in Errs, AppendRecord(id, st, d, c, e)
  PROVE  Shown
<1>. DEFINE it == Born(st, d, c, e)
<1>1. TypeOK /\ seq + 1 \in Nat /\ st \in {"pending", "parked"} /\ c \in Nat /\ e \in Nat
  BY BirthsAssumption, SizesAssumption, SMTT(30) DEF IInv, TypeOK
<1>2. /\ items[id].state = "absent" /\ Move(id, it)
      /\ now' = now /\ seq' = seq + 1 /\ grants' = grants
  BY DEF AppendRecord
<1>3. /\ it \in Item /\ it.state = st /\ it.seq = seq + 1 /\ it.token = 0
      /\ it.until = 0 /\ it.next = 0
  <2>1. ASSUME NEW s \in Nat
        PROVE  LET x == [NoItem EXCEPT !.state = st, !.seq = s, !.dep = d, !.ckpt = c, !.err = e]
               IN /\ x \in Item /\ x.state = st /\ x.seq = s /\ x.token = 0
                  /\ x.until = 0 /\ x.next = 0
    <3>1. st \in States
      BY <1>1 DEF States
    <3>. QED  BY <1>1, <3>1 DEF NoItem, Item
  <2>. QED  BY <1>1, <2>1 DEF Born
<1>. HIDE DEF it
<1>4. /\ items' = [items EXCEPT ![id] = Touch(it)] /\ ViewInv'
      /\ recordOf(Touch(it), KeyOf[id]) = recordOf(it, KeyOf[id])
  BY <1>1, <1>2, <1>3, MoveView
<1>5. recordOf(it, KeyOf[id]) = [state |-> st, pos |-> seq + 1, key |-> KeyOf[id],
                                 token |-> 0, until |-> 0, next |-> 0]
  <2>1. it.state # "absent"
    BY <1>1, <1>3
  <2>. QED  BY <1>3, <2>1 DEF recordOf
<1>6. records' = [records EXCEPT ![id] = [state |-> st, pos |-> seq + 1, key |-> KeyOf[id],
                                          token |-> 0, until |-> 0, next |-> 0]]
  BY <1>1, <1>4, <1>5, OneRecord
<1>7. tokens' = tokens /\ ended' = ended /\ records[id].state = "absent"
  BY <1>2, RecordFields DEF tokens, ended
<1>8. Abstract!AppendRecord(id, st, KeyOf[id])
  BY <1>2, <1>6, <1>7 DEF Abstract!AppendRecord
<1>9. KeyOf[id] \in Keys \cup {NoKey}
  BY IdsAssumption
<1>. QED  BY <1>4, <1>8, <1>9 DEF Shown, Abstract!StoreNext

(* A checkpoint is part of the payload: no step of Store.                     *)
LEMMA CheckpointShown ==
  ASSUME IInv, ViewInv, NEW id \in Ids, NEW n, NEW c \in Ckpts, Checkpoint(id, n, c)
  PROVE  Shown
<1>. DEFINE it == SetCheckpoint(items[id], c)
<1>1. TypeOK /\ items[id] \in Item
  BY Typed DEF IInv
<1>2. /\ items' = [items EXCEPT ![id] = Touch(it)]
      /\ now' = now /\ seq' = seq /\ grants' = grants
  BY DEF Checkpoint
<1>3. it \in Item /\ Alike(it, items[id])
  <2>1. it \in Item
    BY <1>1, SizesAssumption DEF SetCheckpoint, Item
  <2>. QED  BY <1>1, <2>1, HiddenFields
<1>4. Alike(Touch(it), items[id])
  <2>. HIDE DEF it
  <2>1. Alike(Touch(it), it)
    BY <1>3, HiddenFields
  <2>. QED  BY <1>3, <2>1 DEF Alike
<1>. HIDE DEF it
<1>5. \A j \in Ids : Alike(items'[j], items[j])
  <2>1. items'[id] = Touch(it) /\ \A j \in Ids : j # id => items'[j] = items[j]
    BY <1>1, <1>2 DEF TypeOK
  <2>2. \A j \in Ids : Alike(items[j], items[j])
    BY DEF Alike
  <2>. QED  BY <1>4, <2>1, <2>2
<1>6. tokens' = tokens /\ ended' = ended
  BY <1>2 DEF tokens, ended
<1>. QED  BY <1>2, <1>5, <1>6, HiddenStep

(* A call with a lease that is not the current one: no step of Store.         *)
LEMMA LeaseLostShown ==
  ASSUME IInv, ViewInv, NEW id \in Ids, NEW n, LeaseLost(id, n)
  PROVE  Shown
<1>1. /\ n \in Out(id) /\ Settle(id, n, "lost") /\ "lost" \in Outcomes /\ "lost" \notin Ended
      /\ items' = items /\ now' = now /\ seq' = seq /\ TypeOK
  BY DEF LeaseLost, Outcomes, Ended, IInv
<1>2. tokens' = tokens /\ ended' = ended
  BY <1>1, SettleView
<1>3. \A j \in Ids : Alike(items'[j], items[j])
  BY <1>1 DEF Alike
<1>. QED  BY <1>1, <1>2, <1>3, HiddenStep

(* WALStore.Lease, first step: reserving a record is no step of Store.        *)
LEMMA LeaseSelectShown ==
  ASSUME IInv, ViewInv, NEW w, NEW skip, NEW only, NEW max, LeaseSelect(w, skip, only, max)
  PROVE  Shown
<1>1. /\ \A j \in Ids : items'[j] = items[j] \/ items'[j] = Reserved(items[j], w)
      /\ now' = now /\ seq' = seq /\ grants' = grants
  BY DEF LeaseSelect
<1>2. \A j \in Ids : items[j] \in Item
  BY DEF IInv, TypeOK
<1>3. \A j \in Ids : Alike(items[j], items[j]) /\ Alike(Reserved(items[j], w), items[j])
  <2>1. \A j \in Ids : Alike(items[j], items[j])
    BY DEF Alike
  <2>2. \A j \in Ids : Alike(Reserved(items[j], w), items[j])
    BY <1>2, HiddenFields
  <2>. QED  BY <2>1, <2>2
<1>4. tokens' = tokens /\ ended' = ended
  BY <1>1 DEF tokens, ended
<1>5. \A j \in Ids : Alike(items'[j], items[j])
  BY <1>1, <1>3
<1>. QED  BY <1>1, <1>4, <1>5, HiddenStep

(* MemoryStore.Lease hands out what Store allows.                             *)
LEMMA LeaseAtomicShown ==
  ASSUME IInv, ViewInv, NEW skip, NEW only, NEW max, NEW ttl \in TTLs,
         LeaseAtomic(skip, only, max, ttl)
  PROVE  Shown
<1>. DEFINE S == SelectLease(skip, only, max)
            B == {}
<1>1. /\ items' = [id \in Ids |-> IF id \in S
                                  THEN Granted(items[id], Len(grants[id]) + 1, now + ttl)
                                  ELSE items[id]]
      /\ NoteGrants(S, ttl, "out") /\ now' = now /\ seq' = seq
  BY DEF LeaseAtomic
<1>2. TypeOK /\ "out" \in Outcomes \ Ended
  BY DEF IInv, Outcomes, Ended
<1>3. S \in SUBSET Ids /\ \A j \in S : Ripe(j, now)
  BY <1>2, SelectFacts DEF Eligible
<1>. HIDE DEF S
<1>4. \A j \in S : NowLeased(items[j], items'[j], Len(grants[j]) + 1, now + ttl)
  <2>1. ASSUME NEW j \in S
        PROVE  NowLeased(items[j], items'[j], Len(grants[j]) + 1, now + ttl)
    <3>1. j \in Ids /\ items[j] \in Item
      BY <1>2, <1>3, Typed
    <3>2. items'[j] = Granted(items[j], Len(grants[j]) + 1, now + ttl)
      BY <1>1, <3>1
    <3>. QED  BY <3>1, <3>2, ItemViews
  <2>. QED  BY <2>1
<1>5. \A j \in Ids \ (S \cup B) : Alike(items'[j], items[j])
  BY <1>1 DEF Alike
<1>6. /\ B \in SUBSET Ids /\ S \cap B = {} /\ \A j \in S \cup B : Ripe(j, now)
      /\ \A j \in B : NowParked(items[j], items'[j])
  BY <1>3
<1>. HIDE DEF B
<1>. QED  BY <1>1, <1>2, <1>3, <1>4, <1>5, <1>6, LeaseShown

(* commitLease hands out, and parks, what Store allows, although it selected  *)
(* the records in an earlier step.                                            *)
LEMMA LeaseCommitShown ==
  ASSUME IInv, ViewInv, NEW w \in Callers, NEW ok, NEW bad, NEW e \in Errs, NEW ttl \in TTLs,
         NEW delivered, LeaseCommit(w, ok, bad, e, ttl, delivered)
  PROVE  Shown
<1>. DEFINE C == Candidates(w)
            o == IF delivered THEN "out" ELSE "lost"
            U(id) == Unreserved(items[id])
<1>1. /\ \A id \in Ids : items'[id] =
           IF id \in C
           THEN IF id \in ok THEN Granted(U(id), Len(grants[id]) + 1, now + ttl)
                ELSE IF id \in bad THEN Parked(U(id), e) ELSE U(id)
           ELSE items[id]
      /\ ok \cup bad \subseteq {id \in C : StillAsRead(id)} /\ ok \cap bad = {}
      /\ NoteGrants(ok, ttl, o) /\ now' = now /\ seq' = seq
  BY DEF LeaseCommit
<1>2. TypeOK /\ o \in Outcomes \ Ended
  BY DEF IInv, Outcomes, Ended
<1>3. /\ ok \in SUBSET Ids /\ bad \in SUBSET Ids /\ ok \cup bad \subseteq C
      /\ \A j \in ok \cup bad : Ripe(j, now)
  BY <1>1 DEF Candidates, StillAsRead
<1>4. \A j \in Ids : U(j) \in Item /\ Alike(U(j), items[j])
  BY <1>2, HiddenFields, UnreservedFacts, Typed
<1>. HIDE DEF C, o, U
<1>5. \A j \in ok : NowLeased(items[j], items'[j], Len(grants[j]) + 1, now + ttl)
  <2>1. ASSUME NEW j \in ok
        PROVE  NowLeased(items[j], items'[j], Len(grants[j]) + 1, now + ttl)
    <3>1. items'[j] = Granted(U(j), Len(grants[j]) + 1, now + ttl) /\ j \in Ids
      BY <1>1, <1>3
    <3>2. NowLeased(U(j), items'[j], Len(grants[j]) + 1, now + ttl)
      BY <1>4, <3>1, ItemViews
    <3>. QED  BY <1>4, <3>1, <3>2 DEF NowLeased, Alike
  <2>. QED  BY <2>1
<1>6. \A j \in bad : NowParked(items[j], items'[j])
  <2>1. ASSUME NEW j \in bad PROVE NowParked(items[j], items'[j])
    <3>1. items'[j] = Parked(U(j), e) /\ j \in Ids
      BY <1>1, <1>3
    <3>2. NowParked(U(j), items'[j])
      BY <1>4, <3>1, ItemViews
    <3>. QED  BY <1>4, <3>1, <3>2 DEF NowParked, Alike
  <2>. QED  BY <2>1
<1>7. \A j \in Ids \ (ok \cup bad) : Alike(items'[j], items[j])
  <2>1. \A j \in Ids : Alike(items[j], items[j])
    BY DEF Alike
  <2>2. \A j \in Ids \ (ok \cup bad) : items'[j] = U(j) \/ items'[j] = items[j]
    BY <1>1
  <2>. QED  BY <1>4, <2>1, <2>2
<1>. QED  BY <1>1, <1>2, <1>3, <1>5, <1>6, <1>7, LeaseShown

(* The store opened again: leases are over, and none of them was ended.       *)
LEMMA RestartShown ==
  ASSUME IInv, ViewInv, Restart
  PROVE  Shown
<1>1. /\ \A j \in Ids : items'[j] = Recovered(items[j])
      /\ grants' = [id \in Ids |-> [n \in 1..Len(grants[id]) |->
                      [grants[id][n] EXCEPT !.status = IF @ = "out" THEN "lost" ELSE @]]]
      /\ now' = now /\ seq' = seq
  BY DEF Restart
<1>2. TypeOK
  BY DEF IInv
<1>3. ASSUME NEW j \in Ids
      PROVE  /\ Len(grants'[j]) = Len(grants[j])
             /\ \A n \in 1..Len(grants[j]) :
                  grants'[j][n].status \in Ended <=> grants[j][n].status \in Ended
  <2>. DEFINE f(n) == [grants[j][n] EXCEPT !.status = IF @ = "out" THEN "lost" ELSE @]
  <2>1. Len(grants[j]) \in Nat /\ \A n \in 1..Len(grants[j]) : grants[j][n] \in Lease
    BY <1>2, Typed
  <2>2. ASSUME NEW n \in 1..Len(grants[j])
        PROVE  f(n).status \in Ended <=> grants[j][n].status \in Ended
    <3>1. f(n).status = IF grants[j][n].status = "out" THEN "lost" ELSE grants[j][n].status
      BY <2>1 DEF Lease
    <3>2. "out" \notin Ended /\ "lost" \notin Ended
      BY DEF Ended
    <3>. HIDE DEF f
    <3>. QED  BY <3>1, <3>2
  <2>3. grants'[j] = [n \in 1..Len(grants[j]) |-> f(n)]
    BY <1>1
  <2>. HIDE DEF f
  <2>. QED  BY <2>1, <2>2, <2>3, SMTT(30)
<1>4. tokens' = tokens /\ ended' = ended
  <2>. DEFINE E(j) == {m \in 1..Len(grants[j]) : grants[j][m].status \in Ended}
              F(j) == {m \in 1..Len(grants'[j]) : grants'[j][m].status \in Ended}
  <2>1. \A j \in Ids : F(j) = E(j)
    BY <1>3
  <2>2. ended = [j \in Ids |-> E(j)] /\ ended' = [j \in Ids |-> F(j)]
    BY DEF ended
  <2>. HIDE DEF E, F
  <2>. QED  BY <1>3, <2>1, <2>2 DEF tokens
<1>5. ASSUME NEW j \in Ids
      PROVE  /\ items[j].state = "leased" => NowPending(items[j], items'[j], items[j].next)
             /\ items[j].state # "leased" => Alike(items'[j], items[j])
  <2>1. items[j] \in Item /\ items'[j] = Recovered(items[j])
    BY <1>1, <1>2, Typed
  <2>2. items[j].state # "leased" => items[j].token = 0 /\ items[j].until = 0
    BY DEF IInv, TokenInv, ViewInv
  <2>. QED  BY <2>1, <2>2, ItemViews
<1>6. \A j \in Ids : recordOf(items'[j], KeyOf[j]) =
                     IF records[j].state = "leased"
                     THEN Abstract!Pending(records[j], records[j].next) ELSE records[j]
  <2>1. ASSUME NEW j \in Ids, items[j].state = "leased"
        PROVE  recordOf(items'[j], KeyOf[j]) = Abstract!Pending(records[j], records[j].next)
    <3>1. items[j].state # "absent" /\ NowPending(items[j], items'[j], items[j].next)
      BY <1>5, <2>1
    <3>2. recordOf(items'[j], KeyOf[j])
          = Abstract!Pending(recordOf(items[j], KeyOf[j]), items[j].next)
      BY <3>1, PendingView, SMTT(30)
    <3>. QED  BY <3>2, RecordFields
  <2>2. ASSUME NEW j \in Ids, items[j].state # "leased"
        PROVE  recordOf(items'[j], KeyOf[j]) = records[j]
    <3>1. Alike(items'[j], items[j])
      BY <1>5, <2>2
    <3>2. recordOf(items'[j], KeyOf[j]) = recordOf(items[j], KeyOf[j])
      BY ONLY <3>1, AlikeView, Zenon
    <3>. QED  BY <3>2, RecordFields
  <2>3. \A j \in Ids : records[j].state = items[j].state
    BY RecordFields
  <2>. QED  BY <2>1, <2>2, <2>3
<1>7. records' = [j \in Ids |-> recordOf(items'[j], KeyOf[j])]
  BY DEF records
<1>8. Abstract!Reopen
  BY <1>1, <1>4, <1>6, <1>7 DEF Abstract!Reopen
<1>9. ViewInv'
  BY <1>5 DEF ViewInv, Alike, NowPending
<1>. QED  BY <1>8, <1>9 DEF Shown, Abstract!StoreNext

-----------------------------------------------------------------------------
(* The theorem.                                                              *)

(* An empty machine is an empty store.                                       *)
LEMMA InitShown ==
  ASSUME Init
  PROVE  Abstract!StoreInit /\ ViewInv
<1>1. \A j \in Ids : items[j] = NoItem /\ Len(grants[j]) = 0
  BY DEF Init
<1>2. \A k : recordOf(NoItem, k) = Abstract!Absent
  BY AbsentView DEF NoItem
<1>3. records = [j \in Ids |-> Abstract!Absent]
  BY <1>1, <1>2 DEF records
<1>4. tokens = [j \in Ids |-> 0]
  BY <1>1 DEF tokens
<1>5. ended = [j \in Ids |-> {}]
  <2>1. \A j \in Ids : {n \in 1..Len(grants[j]) : grants[j][n].status \in Ended} = {}
    BY <1>1, SMTT(30)
  <2>. QED  BY <2>1 DEF ended
<1>6. ViewInv
  <2>1. NoItem.state # "leased" /\ NoItem.until = 0 /\ NoItem.seq = 0 /\ NoItem.next = 0
    BY DEF NoItem
  <2>. QED  BY ONLY <1>1, <2>1, Zenon DEF ViewInv
<1>. QED  BY <1>3, <1>4, <1>5, <1>6 DEF Init, Abstract!StoreInit

(* Every step of the machine is a step of Store, or one callers cannot see.  *)
LEMMA NextShown ==
  ASSUME IInv, ViewInv, [Next]_vars
  PROVE  Shown
<1>1. CASE Tick
  BY <1>1, TickShown
<1>2. CASE Restart
  BY <1>2, RestartShown
<1>3. CASE Producer
  BY <1>3, AppendShown DEF Producer
<1>4. CASE Poller
  <2>1. PICK skip, only, max : \/ \E ttl \in TTLs : LeaseAtomic(skip, only, max, ttl)
                               \/ \E w \in Callers : LeaseSelect(w, skip, only, max)
    BY <1>4 DEF Poller
  <2>. QED  BY <2>1, LeaseAtomicShown, LeaseSelectShown
<1>5. CASE Committer
  BY <1>5, LeaseCommitShown DEF Committer
<1>6. CASE Worker
  <2>1. PICK id \in Ids : \E n \in 1..Len(grants[id]) : WorkerCall(id, n)
    BY <1>6 DEF Worker, WorkerCall
  <2>2. PICK n : WorkerCall(id, n)
    BY <2>1
  <2>3. CASE \E c \in Ckpts : Checkpoint(id, n, c)
    BY <2>3, CheckpointShown
  <2>4. CASE Ack(id, n)
    BY <2>4, AckShown
  <2>5. CASE \/ \E delay \in Delays, d \in Deps, refund \in BOOLEAN, e \in Errs :
                  Nack(id, n, delay, d, refund, e)
             \/ Release(id, n)
             \/ \E e \in Errs : Park(id, n, e)
    BY <2>5, EndShown
  <2>6. CASE LeaseLost(id, n)
    BY <2>6, LeaseLostShown
  <2>. QED  BY <2>2, <2>3, <2>4, <2>5, <2>6 DEF WorkerCall
<1>7. CASE Operator
  BY <1>7, RequeueShown, DiscardShown DEF Operator
<1>8. CASE UNCHANGED vars
  <2>1. items' = items /\ grants' = grants /\ now' = now /\ seq' = seq
    BY <1>8 DEF vars
  <2>2. \A j \in Ids : Alike(items'[j], items[j])
    BY <2>1 DEF Alike
  <2>3. tokens' = tokens /\ ended' = ended
    BY <2>1 DEF tokens, ended
  <2>. QED  BY <2>1, <2>2, <2>3, HiddenStep
<1>. QED  BY <1>1, <1>2, <1>3, <1>4, <1>5, <1>6, <1>7, <1>8 DEF Next

(* The state machine of the dead-letter stores implements the Store interface, *)
(* for any records, keys, dependencies, limits and callers: indexes, wake      *)
(* times, reservations and two-step leases are invisible to callers.           *)
THEOREM Refinement == Spec => Implements
<1>1. Init => Abstract!StoreInit /\ ViewInv
  BY InitShown
<1>2. IInv /\ ViewInv /\ [Next]_vars => [Abstract!StoreNext]_(Abstract!storeVars) /\ ViewInv'
  BY NextShown DEF Shown
<1>. QED  BY <1>1, <1>2, Inductive, PTL DEF Spec, Implements, Abstract!StoreSpec

-----------------------------------------------------------------------------
(* Sums over finite sets.                                                   *)

(* Every non-empty set of natural numbers has a least element.               *)
LEMMA Least ==
  ASSUME NEW S \in SUBSET Nat, S # {}
  PROVE  \E n \in S : \A m \in S : n <= m
<1>1. IsWellFoundedOn(OpToRel(<, Nat), Nat)
  BY NatLessThanWellFounded
<1>2. PICK n \in S : \A m \in S : ~(<<m, n>> \in OpToRel(<, Nat))
  BY <1>1, WFMin
<1>3. \A m \in S : ~(m < n)
  BY <1>2 DEF OpToRel
<1> QED
  BY <1>3, SMTT(30)

(* Descent on the subsets of a finite set.                                   *)
LEMMA Descent ==
  ASSUME NEW S, IsFiniteSet(S), NEW B \in SUBSET SUBSET S,
         \A s \in B : \E x \in s : s \ {x} \in B
  PROVE  B = {}
<1>1. SUFFICES ASSUME B # {} PROVE FALSE
  OBVIOUS
<1>2. \A s \in B : IsFiniteSet(s) /\ Cardinality(s) \in Nat
  BY FS_Subset, FS_CardinalityType
<1>. DEFINE C == {Cardinality(s) : s \in B}
<1>3. C \in SUBSET Nat /\ C # {}
  BY <1>1, <1>2
<1>4. PICK n \in C : \A m \in C : n <= m
  <2>. HIDE DEF C
  <2> QED  BY <1>3, Least
<1>5. PICK s \in B : n = Cardinality(s)
  OBVIOUS
<1>6. PICK x \in s : s \ {x} \in B
  OBVIOUS
<1>7. Cardinality(s \ {x}) = n - 1
  BY <1>2, <1>5, FS_RemoveElement
<1>8. n - 1 \in C
  BY <1>6, <1>7
<1> QED
  BY <1>2, <1>4, <1>5, <1>8, SMTT(30)

(* One step of the recursion that adds up f, as the folds define it.         *)
SumStep(f, g, s) ==
  IF s = {} THEN 0 ELSE f[CHOOSE x \in s : TRUE] + g[s \ {CHOOSE x \in s : TRUE}]

AddsUp(f, S, g) == \A s \in SUBSET S : g[s] = SumStep(f, g, s)

(* A sum of integers is an integer.                                          *)
LEMMA AddsInt ==
  ASSUME NEW S, IsFiniteSet(S), NEW f, \A x \in S : f[x] \in Int, NEW g, AddsUp(f, S, g)
  PROVE  \A s \in SUBSET S : g[s] \in Int
<1>. DEFINE B == {s \in SUBSET S : g[s] \notin Int}
<1>1. ASSUME NEW s \in B PROVE \E x \in s : s \ {x} \in B
  <2>. DEFINE x == CHOOSE x \in s : TRUE
  <2>1. g[s] = IF s = {} THEN 0 ELSE f[x] + g[s \ {x}]
    BY DEF AddsUp, SumStep
  <2>2. s # {} => x \in s
    OBVIOUS
  <2>. HIDE DEF x
  <2>3. s # {}
    BY <2>1, SMTT(30)
  <2>4. f[x] \in Int /\ s \ {x} \in SUBSET S
    BY <2>2, <2>3
  <2>5. g[s] \notin Int /\ g[s] = f[x] + g[s \ {x}]
    BY <2>1, <2>3
  <2>6. g[s \ {x}] \notin Int
    BY <2>4, <2>5, SMTT(30)
  <2> QED
    BY <2>2, <2>3, <2>4, <2>6
<1>2. B = {}
  <2>. HIDE DEF B
  <2>1. B \in SUBSET SUBSET S
    BY DEF B
  <2> QED  BY <1>1, <2>1, Descent
<1> QED
  BY <1>2

(* A sum may be taken apart at any of its members, not only the chosen one.  *)
LEMMA AddsAny ==
  ASSUME NEW S, IsFiniteSet(S), NEW f, \A x \in S : f[x] \in Int, NEW g, AddsUp(f, S, g)
  PROVE  \A s \in SUBSET S : \A x \in s : g[s] = f[x] + g[s \ {x}]
<1>0. \A s \in SUBSET S : g[s] \in Int
  BY AddsInt
<1>. DEFINE B == {s \in SUBSET S : \E x \in s : g[s] # f[x] + g[s \ {x}]}
<1>1. ASSUME NEW s \in B PROVE \E x \in s : s \ {x} \in B
  <2>. DEFINE c == CHOOSE x \in s : TRUE
  <2>1. g[s] = IF s = {} THEN 0 ELSE f[c] + g[s \ {c}]
    BY DEF AddsUp, SumStep
  <2>2. s # {} => c \in s
    OBVIOUS
  <2>. HIDE DEF c
  <2>3. PICK x \in s : g[s] # f[x] + g[s \ {x}]
    OBVIOUS
  <2>4. c \in s /\ x # c /\ g[s] = f[c] + g[s \ {c}]
    BY <2>1, <2>2, <2>3
  <2>5. SUFFICES ASSUME s \ {c} \notin B, s \ {x} \notin B PROVE FALSE
    BY <2>4
  <2>6. g[s \ {c}] = f[x] + g[(s \ {c}) \ {x}]
    BY <2>4, <2>5
  <2>7. g[s \ {x}] = f[c] + g[(s \ {x}) \ {c}]
    BY <2>4, <2>5
  <2>8. (s \ {c}) \ {x} = (s \ {x}) \ {c} /\ (s \ {x}) \ {c} \in SUBSET S
    OBVIOUS
  <2>9. f[x] \in Int /\ f[c] \in Int /\ g[(s \ {x}) \ {c}] \in Int
    BY <1>0, <2>4, <2>8
  <2> QED
    <3>. DEFINE r == g[(s \ {x}) \ {c}]
    <3>1. g[s] = f[c] + (f[x] + r) /\ g[s] # f[x] + (f[c] + r)
      BY <2>3, <2>4, <2>6, <2>7, <2>8
    <3>2. r \in Int
      BY <2>9
    <3>. HIDE DEF r
    <3> QED
      BY <2>9, <3>1, <3>2, SMTT(30)
<1>2. B = {}
  <2>. HIDE DEF B
  <2>1. B \in SUBSET SUBSET S
    BY DEF B
  <2> QED  BY <1>1, <2>1, Descent
<1> QED
  BY <1>2

(* The recursion has a solution on a finite set: layer by layer.             *)
LEMMA AddsExists ==
  ASSUME NEW S, IsFiniteSet(S), NEW f
  PROVE  \E g : g = [s \in SUBSET S |-> SumStep(f, g, s)]
<1>. DEFINE Below(k) == {s \in SUBSET S : Cardinality(s) < k}
            Ok(k) == \E g : \A s \in Below(k) : g[s] = SumStep(f, g, s)
            Bad == {k \in Nat : ~Ok(k)}
<1>1. \A s \in SUBSET S : /\ IsFiniteSet(s) /\ Cardinality(s) \in Nat
                          /\ \A x \in s : Cardinality(s \ {x}) = Cardinality(s) - 1
                          /\ Cardinality(s) <= Cardinality(S)
  BY FS_Subset, FS_CardinalityType, FS_RemoveElement
<1>2. Bad = {}
  <2>1. SUFFICES ASSUME Bad # {} PROVE FALSE
    OBVIOUS
  <2>2. PICK k \in Bad : \A m \in Bad : k <= m
    <3>1. Bad \in SUBSET Nat
      OBVIOUS
    <3>. HIDE DEF Bad
    <3> QED  BY <2>1, <3>1, Least
  <2>3. k # 0
    <3>1. Below(0) = {}
      BY <1>1, SMTT(30)
    <3> QED  BY <3>1
  <2>4. k - 1 \in Nat /\ Ok(k - 1)
    BY <2>2, <2>3, SMTT(30)
  <2>5. PICK g : \A s \in Below(k - 1) : g[s] = SumStep(f, g, s)
    BY <2>4
  <2>. DEFINE h == [s \in SUBSET S |-> IF s \in Below(k - 1) THEN g[s] ELSE SumStep(f, g, s)]
  <2>6. ASSUME NEW s \in Below(k) PROVE h[s] = SumStep(f, h, s)
    <3>. DEFINE x == CHOOSE x \in s : TRUE
    <3>1. h[s] = SumStep(f, g, s)
      BY <2>5
    <3>2. CASE s = {}
      BY <3>1, <3>2 DEF SumStep
    <3>3. CASE s # {}
      <4>1. x \in s
        BY <3>3
      <4>2. s \ {x} \in Below(k - 1)
        <5>. HIDE DEF x
        <5> QED  BY <1>1, <2>4, <4>1, SMTT(30)
      <4>3. h[s \ {x}] = g[s \ {x}]
        <5>. HIDE DEF x
        <5> QED  BY <4>2
      <4>4. SumStep(f, g, s) = f[x] + g[s \ {x}] /\ SumStep(f, h, s) = f[x] + h[s \ {x}]
        <5>. HIDE DEF h
        <5> QED BY <3>3 DEF SumStep
      <4> QED
        <5>. HIDE DEF h, x
        <5> QED BY <3>1, <4>3, <4>4
    <3> QED  BY <3>2, <3>3
  <2>7. Ok(k)
    <3>. HIDE DEF h, Below
    <3> QED  BY <2>6
  <2> QED  BY <2>7
<1>3. Cardinality(S) + 1 \in Nat
  BY FS_CardinalityType, SMTT(30)
<1>4. PICK g : \A s \in Below(Cardinality(S) + 1) : g[s] = SumStep(f, g, s)
  BY <1>2, <1>3
<1>5. \A s \in SUBSET S : g[s] = SumStep(f, g, s)
  BY <1>1, <1>3, <1>4, SMTT(30)
<1>. DEFINE h == [s \in SUBSET S |-> g[s]]
<1>6. ASSUME NEW s \in SUBSET S PROVE SumStep(f, g, s) = SumStep(f, h, s)
  <2>1. h[s \ {CHOOSE x \in s : TRUE}] = g[s \ {CHOOSE x \in s : TRUE}]
    OBVIOUS
  <2>. HIDE DEF h
  <2> QED  BY <2>1 DEF SumStep
<1>7. h = [s \in SUBSET S |-> SumStep(f, h, s)]
  <2>1. h = [s \in SUBSET S |-> SumStep(f, g, s)]
    BY <1>5
  <2>. HIDE DEF h
  <2> QED BY <1>6, <2>1
<1> QED
  <2>. HIDE DEF h
  <2> QED  BY <1>7

(* Total is such a sum over its whole set.                                   *)
LEMMA TotalAdds ==
  ASSUME NEW S, IsFiniteSet(S), NEW f
  PROVE  \E g : AddsUp(f, S, g) /\ Total(f, S) = g[S]
<1>. DEFINE g == CHOOSE g : g = [s \in SUBSET S |-> SumStep(f, g, s)]
<1>1. g = [s \in SUBSET S |-> SumStep(f, g, s)]
  BY AddsExists, SMTT(30)
<1>2. Total(f, S) = g[S]
  BY DEF Total, MapThenSumSet, MapThenFoldSet, SumStep
<1>. HIDE DEF g
<1>3. AddsUp(f, S, g)
  BY <1>1 DEF AddsUp
<1> QED
  BY <1>2, <1>3

(* When f becomes h, the sum grows by the differences where they differ.     *)
LEMMA TotalChange ==
  ASSUME NEW S, IsFiniteSet(S), NEW T \in SUBSET S, NEW f, NEW h, NEW d,
         \A x \in S : f[x] \in Int /\ h[x] \in Int,
         \A x \in S \ T : h[x] = f[x],
         \A x \in T : d[x] = h[x] - f[x]
  PROVE  Total(h, S) = Total(f, S) + Total(d, T)
<1>0. (\A x \in S : f[x] \in Int) /\ (\A x \in S : h[x] \in Int)
  OBVIOUS
<1>1. IsFiniteSet(T) /\ \A x \in T : d[x] \in Int
  BY <1>0, FS_Subset, SMTT(30)
<1>2. PICK gf : AddsUp(f, S, gf) /\ Total(f, S) = gf[S]
  BY TotalAdds
<1>3. PICK gh : AddsUp(h, S, gh) /\ Total(h, S) = gh[S]
  BY TotalAdds
<1>4. PICK gd : AddsUp(d, T, gd) /\ Total(d, T) = gd[T]
  BY <1>1, TotalAdds
<1>5. \A s \in SUBSET S : gf[s] \in Int /\ \A x \in s : gf[s] = f[x] + gf[s \ {x}]
  BY <1>0, <1>2, AddsInt, AddsAny, SMTT(30)
<1>6. \A s \in SUBSET S : gh[s] \in Int /\ \A x \in s : gh[s] = h[x] + gh[s \ {x}]
  BY <1>0, <1>3, AddsInt, AddsAny, SMTT(30)
<1>7. \A s \in SUBSET T : gd[s] \in Int /\ \A x \in s : gd[s] = d[x] + gd[s \ {x}]
  BY <1>1, <1>4, AddsInt, AddsAny, SMTT(30)
<1>8. gf[{}] = 0 /\ gh[{}] = 0 /\ gd[{}] = 0
  BY <1>2, <1>3, <1>4 DEF AddsUp, SumStep
<1>. DEFINE B == {s \in SUBSET S : gh[s] # gf[s] + gd[s \cap T]}
<1>9. ASSUME NEW s \in B PROVE \E x \in s : s \ {x} \in B
  <2>1. s # {}
    <3>1. {} \cap T = {}
      OBVIOUS
    <3> QED  BY <1>8, <3>1, SMTT(30)
  <2>2. PICK x \in s : TRUE
    BY <2>1
  <2>3. SUFFICES ASSUME s \ {x} \notin B PROVE FALSE
    OBVIOUS
  <2>4. gh[s \ {x}] = gf[s \ {x}] + gd[(s \ {x}) \cap T]
    BY <2>3
  <2>5. gh[s] = h[x] + gh[s \ {x}] /\ gf[s] = f[x] + gf[s \ {x}]
    BY <1>5, <1>6
  <2>6. gf[s \ {x}] \in Int /\ gh[s \ {x}] \in Int /\ gd[(s \ {x}) \cap T] \in Int
    BY <1>5, <1>6, <1>7
  <2>7. CASE x \in T
    <3>1. (s \cap T) \ {x} = (s \ {x}) \cap T /\ s \cap T \in SUBSET T /\ x \in s \cap T
      BY <2>7
    <3>2. gd[s \cap T] = d[x] + gd[(s \ {x}) \cap T]
      BY <1>7, <3>1, SMTT(30)
    <3>3. d[x] = h[x] - f[x] /\ f[x] \in Int /\ h[x] \in Int
      BY <1>0, <2>7
    <3>4. gh[s] # gf[s] + gd[s \cap T]
      OBVIOUS
    <3> QED  BY <2>4, <2>5, <2>6, <3>2, <3>3, <3>4, SMTT(30)
  <2>8. CASE x \notin T
    <3>1. s \cap T = (s \ {x}) \cap T
      BY <2>8
    <3>2. h[x] = f[x] /\ f[x] \in Int
      BY <1>0, <2>8
    <3>3. gh[s] # gf[s] + gd[s \cap T]
      OBVIOUS
    <3>. DEFINE a == gf[s \ {x}]
                b == gd[(s \ {x}) \cap T]
    <3>4. gh[s] = f[x] + (a + b) /\ gf[s] = f[x] + a /\ gd[s \cap T] = b
      BY <2>4, <2>5, <3>1, <3>2
    <3>5. a \in Int /\ b \in Int
      BY <2>6
    <3>. HIDE DEF a, b
    <3> QED  BY <3>2, <3>3, <3>4, <3>5, SMTT(30)
  <2> QED  BY <2>7, <2>8
<1>10. B = {}
  <2>1. B \in SUBSET SUBSET S
    OBVIOUS
  <2>. HIDE DEF B
  <2> QED  BY <1>9, <2>1, Descent
<1>11. S \cap T = T
  OBVIOUS
<1> QED
  BY <1>2, <1>3, <1>4, <1>10, <1>11

(* Zeros add up to zero.                                                     *)
LEMMA TotalZero ==
  ASSUME NEW S, IsFiniteSet(S), NEW f, \A x \in S : f[x] = 0
  PROVE  Total(f, S) = 0
<1>1. PICK g : AddsUp(f, S, g) /\ Total(f, S) = g[S]
  BY TotalAdds
<1>2. \A s \in SUBSET S : g[s] \in Int /\ \A x \in s : g[s] = f[x] + g[s \ {x}]
  BY <1>1, AddsInt, AddsAny, SMTT(30)
<1>. DEFINE B == {s \in SUBSET S : g[s] # 0}
<1>3. ASSUME NEW s \in B PROVE \E x \in s : s \ {x} \in B
  <2>1. s # {}
    BY <1>1 DEF AddsUp, SumStep
  <2>2. PICK x \in s : TRUE
    BY <2>1
  <2>3. s \ {x} \in SUBSET S /\ g[s] # 0 /\ f[x] = 0
    OBVIOUS
  <2>4. g[s] = f[x] + g[s \ {x}] /\ g[s \ {x}] \in Int
    BY <1>2, <2>3
  <2>5. g[s \ {x}] # 0
    BY <2>3, <2>4, SMTT(30)
  <2> QED  BY <2>3, <2>5
<1>4. B = {}
  <2>1. B \in SUBSET SUBSET S
    OBVIOUS
  <2>. HIDE DEF B
  <2> QED  BY <1>3, <2>1, Descent
<1> QED
  BY <1>1, <1>4

-----------------------------------------------------------------------------
(* The totals.  A step says for which records it counts and weighs anew.     *)

SameStates(S) == \A j \in Ids \ S : items'[j].state = items[j].state
SameSizes(S) == \A j \in Ids \ S : Size(items'[j]) = Size(items[j])

Recounts(S) ==
  /\ SameStates(S)
  /\ counts' = [s \in DOMAIN counts |->
                  counts[s] - Cardinality({id \in S : items[id].state = s})
                            + Cardinality({id \in S : items'[id].state = s})]

Reweighs(S) ==
  /\ SameSizes(S)
  /\ bytes' = bytes + Total([id \in S |-> Size(items'[id]) - Size(items[id])], S)

Counted == (SameStates({}) /\ counts' = counts) \/ \E S \in SUBSET Ids : Recounts(S)
Weighed == (SameSizes({}) /\ bytes' = bytes) \/ \E S \in SUBSET Ids : Reweighs(S)

(* The size of a record is a natural number.                                 *)
LEMMA SizeNat ==
  ASSUME NEW it \in Item
  PROVE  Size(it) \in Nat
BY SMTT(30) DEF Item, Size

(* The records in state s, after the records of S changed.                   *)
LEMMA StateSplit ==
  ASSUME TypeOK, NEW S \in SUBSET Ids, SameStates(S), NEW s
  PROVE  /\ Cardinality({id \in Ids : items'[id].state = s}) =
              Cardinality({id \in Ids : items[id].state = s})
                - Cardinality({id \in S : items[id].state = s})
                + Cardinality({id \in S : items'[id].state = s})
         /\ Cardinality({id \in Ids : items[id].state = s}) \in Nat
         /\ Cardinality({id \in S : items[id].state = s}) \in Nat
         /\ Cardinality({id \in S : items'[id].state = s}) \in Nat
<1>. DEFINE A == {id \in Ids \ S : items[id].state = s}
            B == {id \in S : items[id].state = s}
            C == {id \in S : items'[id].state = s}
<1>1. /\ {id \in Ids : items[id].state = s} = A \cup B /\ A \cap B = {}
      /\ {id \in Ids : items'[id].state = s} = A \cup C /\ A \cap C = {}
  BY DEF SameStates
<1>2. A \subseteq Ids /\ B \subseteq Ids /\ C \subseteq Ids
  OBVIOUS
<1>. HIDE DEF A, B, C
<1>3. IsFiniteSet(A) /\ IsFiniteSet(B) /\ IsFiniteSet(C)
  BY <1>2, IdsAssumption, FS_Subset
<1>4. Cardinality(A) \in Nat /\ Cardinality(B) \in Nat /\ Cardinality(C) \in Nat
  BY <1>3, FS_CardinalityType
<1>5. Cardinality(A \cup B) = Cardinality(A) + Cardinality(B) - Cardinality(A \cap B)
  BY <1>3, FS_Union
<1>6. Cardinality(A \cup C) = Cardinality(A) + Cardinality(C) - Cardinality(A \cap C)
  BY <1>3, FS_Union
<1>7. Cardinality(A \cap B) = 0 /\ Cardinality(A \cap C) = 0
  BY <1>1, FS_EmptySet
<1>8. /\ Cardinality(A \cup B) = Cardinality(A) + Cardinality(B)
      /\ Cardinality(A \cup C) = Cardinality(A) + Cardinality(C)
  BY <1>4, <1>5, <1>6, <1>7, SMTT(30)
<1>9. /\ Cardinality(A \cup C) = Cardinality(A \cup B) - Cardinality(B) + Cardinality(C)
      /\ Cardinality(A \cup B) \in Nat
  BY <1>4, <1>8, SMTT(30)
<1> QED
  BY <1>1, <1>4, <1>9 DEF B, C

(* The counters are exact after a step that moves each record from one to
   another.                                                                  *)
LEMMA CountedRight ==
  ASSUME TypeOK, TotalsMatchRecords, Counted
  PROVE  \A s \in DOMAIN counts' : counts'[s] = Cardinality({id \in Ids : items'[id].state = s})
<1>1. CASE SameStates({}) /\ counts' = counts
  <2>1. \A s : {id \in Ids : items'[id].state = s} = {id \in Ids : items[id].state = s}
    BY <1>1 DEF SameStates
  <2> QED  BY <1>1, <2>1 DEF TotalsMatchRecords
<1>2. ASSUME NEW S \in SUBSET Ids, Recounts(S)
      PROVE  \A s \in DOMAIN counts' :
               counts'[s] = Cardinality({id \in Ids : items'[id].state = s})
  <2>1. DOMAIN counts' = DOMAIN counts /\ SameStates(S)
    BY <1>2 DEF Recounts
  <2>2. ASSUME NEW s \in DOMAIN counts
        PROVE  counts'[s] = Cardinality({id \in Ids : items'[id].state = s})
    <3>1. counts[s] = Cardinality({id \in Ids : items[id].state = s})
      BY DEF TotalsMatchRecords
    <3>2. counts'[s] = counts[s] - Cardinality({id \in S : items[id].state = s})
                                 + Cardinality({id \in S : items'[id].state = s})
      BY <1>2 DEF Recounts
    <3>3. Cardinality({id \in Ids : items'[id].state = s}) =
            Cardinality({id \in Ids : items[id].state = s})
              - Cardinality({id \in S : items[id].state = s})
              + Cardinality({id \in S : items'[id].state = s})
      BY <2>1, StateSplit
    <3> QED
      BY <3>1, <3>2, <3>3
  <2> QED  BY <2>1, <2>2
<1> QED
  BY <1>1, <1>2 DEF Counted

(* The total of bytes is exact after a step that adds what each record grew
   by.                                                                       *)
LEMMA WeighedRight ==
  ASSUME TypeOK, TypeOK', TotalsMatchRecords, Weighed
  PROVE  bytes' = Total([id \in Ids |-> Size(items'[id])], Ids)
<1>. DEFINE f == [id \in Ids |-> Size(items[id])]
            h == [id \in Ids |-> Size(items'[id])]
<1>0. bytes = Total(f, Ids)
  BY DEF TotalsMatchRecords
<1>1. CASE SameSizes({}) /\ bytes' = bytes
  <2>1. f = h
    BY <1>1 DEF SameSizes
  <2> QED  BY <1>0, <1>1, <2>1
<1>2. ASSUME NEW S \in SUBSET Ids, Reweighs(S)
      PROVE  bytes' = Total(h, Ids)
  <2>. DEFINE d == [id \in S |-> Size(items'[id]) - Size(items[id])]
  <2>1. bytes' = bytes + Total(d, S)
    BY <1>2 DEF Reweighs
  <2>2. \A x \in Ids : f[x] \in Int /\ h[x] \in Int
    BY SizeNat, SMTT(30) DEF TypeOK
  <2>3. \A x \in Ids \ S : h[x] = f[x]
    BY <1>2 DEF Reweighs, SameSizes
  <2>4. \A x \in S : d[x] = h[x] - f[x]
    OBVIOUS
  <2>. HIDE DEF f, h, d
  <2>5. Total(h, Ids) = Total(f, Ids) + Total(d, S)
    BY <2>2, <2>3, <2>4, IdsAssumption, TotalChange, SMTT(30)
  <2> QED  BY <1>0, <2>1, <2>5
<1> QED
  BY <1>1, <1>2 DEF Weighed

(* The steps.                                                                *)

(* Moving or removing one record corrects the counters and the bytes by
   that record.                                                              *)
LEMMA MoveTotals ==
  ASSUME TypeOK, NEW id \in Ids, NEW it, Move(id, it) \/ Remove(id)
  PROVE  Counted /\ Weighed
<1>. DEFINE x == IF Move(id, it) THEN Touch(it) ELSE NoItem
            new == [items EXCEPT ![id] = x]
<1>1. items' = new /\ Reindex({id}, new) /\ Resize({id}, new)
  BY DEF Move, Remove
<1>2. \A j \in Ids \ {id} : new[j] = items[j]
  BY DEF TypeOK
<1>. HIDE DEF new
<1>3. Recounts({id})
  BY <1>1, <1>2 DEF Recounts, SameStates, Reindex
<1>4. Reweighs({id})
  BY <1>1, <1>2 DEF Reweighs, SameSizes, Resize
<1> QED
  BY <1>3, <1>4 DEF Counted, Weighed

(* What leasing and recovering a record leaves of it.                        *)
LEMMA SizeGranted ==
  ASSUME NEW it \in Item, NEW t, NEW u, it.state # "absent"
  PROVE  Size(Granted(it, t, u)) = Size(it)
<1>1. /\ Granted(it, t, u).ckpt = it.ckpt /\ Granted(it, t, u).err = it.err
      /\ Granted(it, t, u).state = "leased"
  BY DEF Granted, Item
<1> QED
  BY <1>1 DEF Size

(* Reserving a record changes neither its size nor its state.                *)
LEMMA SizeReserved ==
  ASSUME NEW it \in Item, NEW w
  PROVE  Size(Reserved(it, w)) = Size(it) /\ Reserved(it, w).state = it.state
<1>1. /\ Reserved(it, w).ckpt = it.ckpt /\ Reserved(it, w).err = it.err
      /\ Reserved(it, w).state = it.state
  BY DEF Reserved, Item
<1> QED
  BY <1>1 DEF Size

(* Nor does giving the reservation up; recovery keeps the size.              *)
LEMMA SizeKept ==
  ASSUME NEW it \in Item
  PROVE  /\ Size(Unreserved(it)) = Size(it) /\ Unreserved(it).state = it.state
         /\ Size(Recovered(it)) = Size(it)
         /\ it.state = "absent" => Recovered(it).state = "absent"
<1>1. /\ Unreserved(it).ckpt = it.ckpt /\ Unreserved(it).err = it.err
      /\ Unreserved(it).state = it.state
  BY DEF Unreserved, Item
<1>2. /\ Recovered(it).ckpt = it.ckpt /\ Recovered(it).err = it.err
      /\ Recovered(it).state = IF it.state = "leased" THEN "pending" ELSE it.state
  BY DEF Recovered, Item
<1> QED
  BY <1>1, <1>2 DEF Size

(* A checkpoint changes the size of its record, and the bytes by as much.    *)
LEMMA CheckpointTotals ==
  ASSUME TypeOK, NEW id \in Ids, NEW n, NEW c, Checkpoint(id, n, c)
  PROVE  Counted /\ Weighed
<1>. DEFINE new == [items EXCEPT ![id] = Touch(SetCheckpoint(items[id], c))]
<1>1. items' = new /\ Resize({id}, new) /\ counts' = counts
  BY DEF Checkpoint, index
<1>2. (\A j \in Ids \ {id} : new[j] = items[j]) /\ new[id] = Touch(SetCheckpoint(items[id], c))
  BY DEF TypeOK
<1>3. Touch(SetCheckpoint(items[id], c)).state = items[id].state
  BY DEF Touch, SetCheckpoint, TypeOK, Item
<1>. HIDE DEF new
<1>4. SameStates({})
  BY <1>1, <1>2, <1>3 DEF SameStates
<1>5. Reweighs({id})
  BY <1>1, <1>2 DEF Reweighs, SameSizes, Resize
<1> QED
  BY <1>1, <1>4, <1>5 DEF Counted, Weighed

(* A step that leaves records and totals alone.                              *)
LEMMA SameTotals ==
  ASSUME items' = items, counts' = counts, bytes' = bytes
  PROVE  Counted /\ Weighed
BY DEF Counted, Weighed, SameStates, SameSizes

(* Selecting reserves records and parks the unreadable ones.                 *)
LEMMA SelectTotals ==
  ASSUME TypeOK, NEW w \in Callers, NEW skip, NEW only, NEW max, LeaseSelect(w, skip, only, max)
  PROVE  Counted /\ Weighed
<1>1. /\ counts' = counts /\ bytes' = bytes
      /\ \A j \in Ids : items'[j] = items[j] \/ items'[j] = Reserved(items[j], w)
  BY DEF LeaseSelect
<1>2. \A j \in Ids : items[j] \in Item
  BY DEF TypeOK
<1>3. \A j \in Ids : items'[j].state = items[j].state /\ Size(items'[j]) = Size(items[j])
  BY <1>1, <1>2, SizeReserved
<1> QED
  BY <1>1, <1>3 DEF Counted, Weighed, SameStates, SameSizes

(* Granting under one lock moves each record to the leased ones.             *)
LEMMA AtomicTotals ==
  ASSUME TypeOK, NEW skip, NEW only, NEW max, NEW ttl, LeaseAtomic(skip, only, max, ttl)
  PROVE  Counted /\ Weighed
<1>. DEFINE S == SelectLease(skip, only, max)
            new == [id \in Ids |-> IF id \in S
                                   THEN Granted(items[id], Len(grants[id]) + 1, now + ttl)
                                   ELSE items[id]]
<1>1. items' = new /\ Reindex(S, new) /\ bytes' = bytes
  BY DEF LeaseAtomic
<1>2. S \in SUBSET Ids /\ \A j \in S : items[j].state # "absent"
  BY SelectFacts DEF Eligible, Ripe, Queued
<1>. HIDE DEF S
<1>3. \A j \in Ids \ S : new[j] = items[j]
  OBVIOUS
<1>4. ASSUME NEW j \in Ids
      PROVE  Size(new[j]) = Size(items[j])
  <2>1. CASE j \in S
    <3>. DEFINE t == Len(grants[j]) + 1
                u == now + ttl
    <3>1. new[j] = Granted(items[j], t, u) /\ items[j] \in Item
      BY <2>1 DEF TypeOK
    <3>. HIDE DEF t, u, new
    <3> QED  BY <1>2, <2>1, <3>1, SizeGranted, SMTT(30)
  <2> QED  BY <1>3, <2>1
<1>. HIDE DEF new
<1>5. Recounts(S)
  BY <1>1, <1>3 DEF Recounts, SameStates, Reindex
<1> QED
  BY <1>1, <1>2, <1>4, <1>5 DEF Counted, Weighed, SameSizes

(* So does granting in two phases, for those it still may take.              *)
LEMMA CommitTotals ==
  ASSUME TypeOK, NEW w, NEW ok, NEW bad, NEW e, NEW ttl, NEW delivered,
         LeaseCommit(w, ok, bad, e, ttl, delivered)
  PROVE  Counted /\ Weighed
<1>. DEFINE C == Candidates(w)
            U(id) == Unreserved(items[id])
            After(id) == IF id \in ok THEN Granted(U(id), Len(grants[id]) + 1, now + ttl)
                         ELSE IF id \in bad THEN Parked(U(id), e)
                         ELSE U(id)
            new == [id \in Ids |-> IF id \in C THEN After(id) ELSE items[id]]
<1>1. /\ items' = new /\ Reindex(ok \cup bad, new) /\ Resize(bad, new)
      /\ ok \cup bad \subseteq {id \in C : StillAsRead(id)} /\ ok \cap bad = {}
  BY DEF LeaseCommit
<1>2. /\ ok \in SUBSET Ids /\ bad \in SUBSET Ids /\ C \subseteq Ids
      /\ \A j \in ok : j \in C /\ items[j].state # "absent"
  BY <1>1 DEF StillAsRead, Ripe, Queued, Candidates
<1>3. ASSUME NEW j \in Ids
      PROVE  /\ items[j] \in Item /\ U(j) \in Item
             /\ U(j).state = items[j].state /\ Size(U(j)) = Size(items[j])
  BY UnreservedFacts, SizeKept DEF TypeOK
<1>. HIDE DEF C, U
<1>4. ASSUME NEW j \in Ids \ (ok \cup bad)
      PROVE  new[j].state = items[j].state /\ Size(new[j]) = Size(items[j])
  <2>1. new[j] = U(j) \/ new[j] = items[j]
    OBVIOUS
  <2>. HIDE DEF new
  <2> QED  BY <1>3, <2>1
<1>5. ASSUME NEW j \in ok
      PROVE  Size(new[j]) = Size(items[j])
  <2>. DEFINE t == Len(grants[j]) + 1
              u == now + ttl
  <2>1. j \in Ids /\ new[j] = Granted(U(j), t, u)
    BY <1>2
  <2>. HIDE DEF t, u, new
  <2>2. U(j) \in Item /\ U(j).state # "absent"
    BY <1>2, <1>3, <2>1
  <2>3. Size(Granted(U(j), t, u)) = Size(U(j))
    BY <2>2, SizeGranted
  <2> QED  BY <1>3, <2>1, <2>3
<1>. HIDE DEF new
<1>6. Recounts(ok \cup bad)
  BY <1>1, <1>4 DEF Recounts, SameStates, Reindex
<1>7. Reweighs(bad)
  BY <1>1, <1>4, <1>5 DEF Reweighs, SameSizes, Resize
<1>8. ok \cup bad \in SUBSET Ids
  BY <1>2
<1> QED
  BY <1>2, <1>6, <1>7, <1>8 DEF Counted, Weighed

(* A restart counts the records anew.                                        *)
LEMMA RestartTotals ==
  ASSUME TypeOK, Restart
  PROVE  Counted /\ Weighed
<1>. DEFINE new == [id \in Ids |-> Recovered(items[id])]
<1>1. items' = new /\ Reindex(Live, new) /\ bytes' = bytes
  BY DEF Restart
<1>2. \A j \in Ids : items[j] \in Item /\ new[j] = Recovered(items[j])
  BY DEF TypeOK
<1>. HIDE DEF new
<1>3. /\ \A j \in Ids : Size(new[j]) = Size(items[j])
      /\ \A j \in Ids \ Live : new[j].state = items[j].state
  BY <1>2, SizeKept DEF Live
<1>4. Recounts(Live)
  BY <1>1, <1>3 DEF Recounts, SameStates, Reindex
<1>5. Live \in SUBSET Ids
  BY DEF Live
<1> QED
  BY <1>1, <1>3, <1>4, <1>5 DEF Counted, Weighed, SameSizes

(* Every step corrects the totals by what it changes.                        *)
LEMMA NextTotals ==
  ASSUME TypeOK, Next
  PROVE  Counted /\ Weighed
<1>1. CASE Tick
  <2>1. items' = items /\ counts' = counts /\ bytes' = bytes
    BY <1>1 DEF Tick, index
  <2> QED  BY <2>1, SameTotals
<1>2. CASE Restart
  BY <1>2, RestartTotals
<1>3. CASE Producer
  BY <1>3, MoveTotals DEF Producer, AppendRecord
<1>4. CASE Poller
  <2>1. PICK skip, only, max : \/ \E ttl \in TTLs : LeaseAtomic(skip, only, max, ttl)
                               \/ \E w \in Callers : LeaseSelect(w, skip, only, max)
    BY <1>4 DEF Poller
  <2> QED  BY <2>1, AtomicTotals, SelectTotals
<1>5. CASE Committer
  BY <1>5, CommitTotals DEF Committer
<1>6. CASE Worker
  <2>0. PICK id \in Ids : \E n \in 1..Len(grants[id]) : WorkerCall(id, n)
    BY <1>6 DEF Worker, WorkerCall
  <2>1. PICK n : WorkerCall(id, n)
    BY <2>0
  <2>2. CASE \E c \in Ckpts : Checkpoint(id, n, c)
    BY <2>2, CheckpointTotals
  <2>3. CASE Ack(id, n)
    BY <2>3, MoveTotals DEF Ack
  <2>4. CASE \/ \E delay \in Delays, d \in Deps, refund \in BOOLEAN, e \in Errs :
                  Nack(id, n, delay, d, refund, e)
             \/ Release(id, n)
             \/ \E e \in Errs : Park(id, n, e)
    <3>1. \E it : Move(id, it)
      BY <2>4 DEF Nack, Release, Park
    <3> QED  BY <3>1, MoveTotals
  <2>5. CASE LeaseLost(id, n)
    <3>1. items' = items /\ counts' = counts /\ bytes' = bytes
      BY <2>5 DEF LeaseLost, index
    <3> QED  BY <3>1, SameTotals
  <2> QED  BY <2>1, <2>2, <2>3, <2>4, <2>5 DEF WorkerCall
<1>7. CASE Operator
  <2>1. PICK id \in Ids : (\E it : Move(id, it)) \/ Remove(id)
    BY <1>7 DEF Operator, Requeue, Discard
  <2> QED  BY <2>1, MoveTotals
<1> QED
  BY <1>1, <1>2, <1>3, <1>4, <1>5, <1>6, <1>7 DEF Next

(* Initially there is nothing to count.                                      *)
LEMMA TotalsInit ==
  ASSUME Init
  PROVE  TotalsMatchRecords
<1>1. /\ items = [id \in Ids |-> NoItem] /\ bytes = 0
      /\ counts = [s \in States \ {"absent"} |-> 0]
  BY DEF Init
<1>2. NoItem.state = "absent" /\ Size(NoItem) = 0
  BY DEF NoItem, Size
<1>3. \A s \in DOMAIN counts : {id \in Ids : items[id].state = s} = {} /\ counts[s] = 0
  BY <1>1, <1>2
<1>4. \A s \in DOMAIN counts : counts[s] = Cardinality({id \in Ids : items[id].state = s})
  BY <1>3, FS_EmptySet
<1>. DEFINE f == [id \in Ids |-> Size(items[id])]
            z == [id \in {} |-> 0]
<1>5. \A x \in Ids : f[x] = 0
  BY <1>1, <1>2
<1>. HIDE DEF f, z
<1>6. Total(f, Ids) = 0
  BY <1>5, IdsAssumption, TotalZero
<1> QED
  BY <1>1, <1>4, <1>6 DEF f, TotalsMatchRecords

(* Every step keeps the totals exact.                                        *)
LEMMA TotalsStep ==
  ASSUME TypeOK, TypeOK', TotalsMatchRecords, [Next]_vars
  PROVE  TotalsMatchRecords'
<1>1. Counted /\ Weighed
  <2>1. CASE UNCHANGED vars
    BY <2>1, SameTotals DEF vars
  <2> QED  BY <2>1, NextTotals
<1> QED
  BY <1>1, CountedRight, WeighedRight DEF TotalsMatchRecords

(* The counts per state that Stats reports and the bytes that the limits are
   tested against are at every moment those of the records there are: insert,
   remove, move, resize, the lease calls and the replay keep them exact.      *)
THEOREM TotalsCorrect == Spec => []TotalsMatchRecords
<1>1. Init => TotalsMatchRecords
  BY TotalsInit
<1>2. IInv /\ IInv' /\ TotalsMatchRecords /\ [Next]_vars => TotalsMatchRecords'
  BY TotalsStep DEF IInv
<1> QED
  BY <1>1, <1>2, Inductive, PTL DEF Spec
=============================================================================
