---------------------------- MODULE MachineProofs ---------------------------
(***************************************************************************)
(* The inductive invariant of Machine, facts about its operators, the proof *)
(* that every step keeps the invariant, and what the invariant gives:       *)
(* leases and records, the attempts of a record, what a lease hands out.    *)
(***************************************************************************)
EXTENDS Machine, TLAPS, FiniteSetTheorems

\* A leaf goes to Zenon, or to Z3 where it says so.
USE ZenonT(20), SMTT(30)

-----------------------------------------------------------------------------
(* The inductive invariant.                                                  *)

(* Live records have distinct Seq numbers, none above the last one assigned. *)
SeqInv ==
  /\ \A id \in Ids : items[id].seq <= seq
  /\ \A i, j \in Live : items[i].seq = items[j].seq => i = j

(* A leased record carries the newest token, and that grant is for it.       *)
TokenInv ==
  \A id \in Ids :
    IF items[id].state = "leased"
      THEN /\ items[id].token = Len(grants[id])
           /\ items[id].token > 0
           /\ grants[id][Len(grants[id])].seq = items[id].seq
           /\ grants[id][Len(grants[id])].until = items[id].until
      ELSE items[id].token = 0

(* Only the head of an order key is ever leased, expired or not.             *)
LeasedHead == \A id \in Ids : items[id].state = "leased" => IsHead(id)

(* A lease that has not expired and that its worker has not ended is the     *)
(* record's current one.                                                     *)
OutHeld ==
  \A id \in Ids : \A n \in Out(id) : grants[id][n].until > now => Held(id, n)

(* No group believes in a wake time later than the due time of a head of a   *)
(* key in it that no Lease call has reserved.                                *)
WakeInv ==
  \A d \in Deps : \A id \in groups[d] :
    items[id].res = Free /\ IsHead(id) => wake[d] <= Due(items[id])

(* The inductive invariant: the index and the wake times agree with the records,
   and every token, lease and outstanding handout agrees with its record.        *)
IInv ==
  TypeOK /\ IndexMatchesRecords /\ SeqInv /\ TokenInv /\ LeasedHead /\ OutHeld /\ WakeInv

-----------------------------------------------------------------------------
(* Lemmas about the operators.                                               *)

(* Zero is the least natural number.                                         *)
LEMMA NatPos == \A n \in Nat : 0 <= n
BY SMTT(30)

(* A non-empty set of naturals has a least element, which Min returns.       *)
LEMMA MinNat ==
  ASSUME NEW S \in SUBSET Nat, S # {}
  PROVE  Min(S) \in S /\ \A x \in S : Min(S) <= x
<1>. DEFINE R == OpToRel(<, Nat)
<1>1. IsWellFoundedOn(R, Nat)
  BY NatLessThanWellFounded
<1>2. \E m \in S : \A x \in S : ~(<<x, m>> \in R)
  <2>. HIDE DEF R
  <2>. QED  BY <1>1, WFMin
<1>3. PICK m \in S : \A x \in S : ~(<<x, m>> \in R)
  BY <1>2
<1>4. R = {ss \in Nat \X Nat : ss[1] < ss[2]}
  BY DEF OpToRel
<1>5. ASSUME NEW x \in S, x < m PROVE FALSE
  <2>1. <<x, m>> \in Nat \X Nat /\ <<x, m>>[1] < <<x, m>>[2]
    BY <1>5
  <2>2. <<x, m>> \in {ss \in Nat \X Nat : ss[1] < ss[2]}
    BY <2>1
  <2>. HIDE DEF R
  <2>. QED  BY <1>3, <1>4, <2>2
<1>6. \A x \in S : m <= x
  BY <1>5, SMTT(30)
<1>. QED  BY <1>6 DEF Min

(* The types, pointwise.                                                     *)
LEMMA Typed ==
  ASSUME TypeOK, NEW j \in Ids
  PROVE  /\ items[j] \in Item
         /\ items[j].seq \in Nat /\ items[j].token \in Nat /\ items[j].until \in Nat
         /\ items[j].dep \in Deps
         /\ Due(items[j]) \in Nat
         /\ grants[j] \in Seq(Lease) /\ Len(grants[j]) \in Nat
         /\ \A m \in 1..Len(grants[j]) : grants[j][m] \in Lease /\ grants[j][m].until \in Nat
<1>1. items[j] \in Item
  BY DEF TypeOK
<1>2. /\ items[j].seq \in Nat /\ items[j].token \in Nat /\ items[j].until \in Nat
      /\ items[j].dep \in Deps /\ Due(items[j]) \in Nat
  BY <1>1 DEF Item, Due
<1>3. grants[j] \in Seq(Lease)
  BY DEF TypeOK
<1>4. Len(grants[j]) \in Nat
  BY <1>3, SMTT(30)
<1>5. \A m \in 1..Len(grants[j]) : grants[j][m] \in Lease
  BY <1>3, SMTT(30)
<1>6. \A m \in 1..Len(grants[j]) : grants[j][m].until \in Nat
  BY <1>5 DEF Lease
<1>. QED  BY <1>1, <1>2, <1>3, <1>4, <1>5, <1>6

(* Touch changes no field but stale.                                         *)
LEMMA TouchFacts ==
  ASSUME NEW it \in Item
  PROVE  /\ Touch(it) \in Item
         /\ Touch(it).state = it.state /\ Touch(it).seq = it.seq
         /\ Touch(it).dep = it.dep /\ Touch(it).token = it.token
         /\ Touch(it).until = it.until /\ Touch(it).next = it.next
         /\ Touch(it).res = it.res
BY DEF Touch, Item

(* Clear only ever lowers wake times, and to zero on D.                      *)
LEMMA ClearFacts ==
  ASSUME NEW D, NEW w \in [Deps -> Nat]
  PROVE  /\ Clear(D, w) \in [Deps -> Nat]
         /\ \A d \in Deps : Clear(D, w)[d] <= w[d]
         /\ \A d \in Deps \cap D : Clear(D, w)[d] = 0
BY SMTT(30) DEF Clear

(* Reindex keeps the index well typed.                                       *)
LEMMA ReindexType ==
  ASSUME TypeOK, NEW S \in SUBSET Ids, NEW new, Reindex(S, new)
  PROVE  /\ groups' \in [Deps -> SUBSET Ids]
         /\ parked' \in SUBSET Ids
BY DEF Reindex, TypeOK

(* What scanGroup caches is a time, and no later than any due time to come.  *)
LEMMA NextWakeFacts ==
  ASSUME TypeOK, NEW d \in Deps
  PROVE  /\ NextWake(d) \in Nat
         /\ \A id \in groups[d] : Due(items[id]) > now => NextWake(d) <= Due(items[id])
<1>. DEFINE T == {Due(items[id]) : id \in {j \in groups[d] : Due(items[j]) > now}}
                 \cup {now + MaxWakeSkew}
<1>1. groups[d] \subseteq Ids
  BY DEF TypeOK
<1>2. \A id \in Ids : Due(items[id]) \in Nat
  BY DEF TypeOK, Item, Due
<1>3. now + MaxWakeSkew \in Nat
  BY TimesAssumption, SMTT(30) DEF TypeOK
<1>4. T \in SUBSET Nat /\ T # {}
  BY <1>1, <1>2, <1>3
<1>5. NextWake(d) = Min(T)
  BY DEF NextWake
<1>6. Min(T) \in T /\ \A x \in T : Min(T) <= x
  <2>. HIDE DEF T
  <2>. QED  BY <1>4, MinNat
<1>7. NextWake(d) \in Nat
  BY <1>4, <1>5, <1>6
<1>8. ASSUME NEW id \in groups[d], Due(items[id]) > now
      PROVE  NextWake(d) <= Due(items[id])
  <2>1. Due(items[id]) \in T
    BY <1>8
  <2>. HIDE DEF T
  <2>. QED  BY <2>1, <1>5, <1>6
<1>. QED  BY <1>7, <1>8

(* A scan changes the wake time only of groups with nothing eligible.        *)
LEMMA ScanWakeFacts ==
  ASSUME TypeOK, NEW skip, NEW only
  PROVE  /\ ScanWake(skip, only) \in [Deps -> Nat]
         /\ \A d \in Deps :
              \/ ScanWake(skip, only)[d] = wake[d]
              \/ /\ ScanWake(skip, only)[d] = NextWake(d)
                 /\ \A id \in groups[d] : ~Eligible(id, now)
<1>1. \A d \in Deps : NextWake(d) \in Nat /\ wake[d] \in Nat
  BY NextWakeFacts DEF TypeOK
<1>. QED  BY <1>1 DEF ScanWake

(* What move does to the items, the index and the wake times.                *)
LEMMA MoveFacts ==
  ASSUME TypeOK, NEW id \in Ids, NEW it \in Item, Move(id, it)
  PROVE  /\ items' = [items EXCEPT ![id] = Touch(it)]
         /\ items' \in [Ids -> Item]
         /\ Reindex({id}, items')
         /\ groups' \in [Deps -> SUBSET Ids]
         /\ parked' \in SUBSET Ids
         /\ wake' \in [Deps -> Nat]
         /\ \A d \in Deps : wake'[d] <= wake[d]
         /\ Queued(items[id]) => wake'[items[id].dep] = 0
         /\ Queued(it) => wake'[it.dep] = 0
<1>1. items' = [items EXCEPT ![id] = Touch(it)] /\ Reindex({id}, items')
  BY DEF Move
<1>2. items' \in [Ids -> Item]
  BY <1>1, TouchFacts DEF TypeOK
<1>3. /\ groups' \in [Deps -> SUBSET Ids]
      /\ parked' \in SUBSET Ids
  BY <1>1, ReindexType
<1>. DEFINE D == DepsOf({id}, items) \cup DepsOf({id}, items')
<1>4. wake' = Clear(D, wake)
  BY <1>1 DEF Move
<1>5. wake \in [Deps -> Nat]
  BY DEF TypeOK
<1>6. /\ wake' \in [Deps -> Nat]
      /\ \A d \in Deps : wake'[d] <= wake[d]
      /\ \A d \in Deps \cap D : wake'[d] = 0
  <2>. HIDE DEF D
  <2>. QED  BY <1>4, <1>5, ClearFacts
<1>7. Queued(items[id]) => items[id].dep \in Deps \cap D
  BY DEF DepsOf, TypeOK, Item
<1>8. items'[id] = Touch(it)
  BY <1>1 DEF TypeOK
<1>9. Queued(it) => it.dep \in Deps \cap D
  BY <1>8, TouchFacts, SMTT(30) DEF DepsOf, Queued, Item
<1>. QED  BY <1>1, <1>2, <1>3, <1>6, <1>7, <1>9

(* Ending lease n of id changes its status and nothing else.                 *)
LEMMA SettleFacts ==
  ASSUME TypeOK, NEW id \in Ids, NEW n \in Out(id), NEW o \in Outcomes, Settle(id, n, o)
  PROVE  /\ grants' \in [Ids -> Seq(Lease)]
         /\ \A j \in Ids : Len(grants'[j]) = Len(grants[j])
         /\ \A j \in Ids : \A m \in 1..Len(grants[j]) :
              /\ grants'[j][m].seq = grants[j][m].seq
              /\ grants'[j][m].until = grants[j][m].until
              /\ grants'[j][m].status =
                   IF j = id /\ m = n THEN o ELSE grants[j][m].status
<1>. DEFINE g == grants[id]
            l == [g[n] EXCEPT !.status = o]
<1>1. g \in Seq(Lease) /\ n \in 1..Len(g)
  BY DEF TypeOK, Out
<1>2. g[n] \in Lease
  BY <1>1, SMTT(30)
<1>3. l \in Lease /\ l.seq = g[n].seq /\ l.until = g[n].until /\ l.status = o
  BY <1>2 DEF Lease
<1>. HIDE DEF l
<1>4. grants' = [grants EXCEPT ![id] = [g EXCEPT ![n] = l]]
  BY DEF Settle, l
<1>. HIDE DEF g
<1>5. /\ [g EXCEPT ![n] = l] \in Seq(Lease)
      /\ Len([g EXCEPT ![n] = l]) = Len(g)
      /\ \A m \in 1..Len(g) : [g EXCEPT ![n] = l][m] = IF m = n THEN l ELSE g[m]
  BY <1>1, <1>3, SMTT(30)
<1>6. grants'[id] = [g EXCEPT ![n] = l] /\ \A j \in Ids : j # id => grants'[j] = grants[j]
  BY <1>4 DEF TypeOK
<1>7. grants' \in [Ids -> Seq(Lease)]
  BY <1>4, <1>5 DEF TypeOK
<1>. QED  BY <1>3, <1>5, <1>6, <1>7, SMTT(30) DEF g

(* Settling the lease an item holds (ack, nack, expiry) leaves every other
   lease as it is, and leaves that one no longer out.                        *)
LEMMA SettleEnds ==
  ASSUME TypeOK, NEW id \in Ids, NEW n \in Out(id), NEW o \in Outcomes, o # "out", Settle(id, n, o),
         items[id].token = n
  PROVE  /\ grants' \in [Ids -> Seq(Lease)]
         /\ \A j \in Ids : Len(grants'[j]) = Len(grants[j])
         /\ \A j \in Ids : \A m \in 1..Len(grants[j]) :
              /\ grants'[j][m].seq = grants[j][m].seq
              /\ grants'[j][m].until = grants[j][m].until
              /\ grants'[j][m].status = "out" =>
                   grants[j][m].status = "out" /\ ~(j = id /\ m = items[id].token)
<1>1. /\ grants' \in [Ids -> Seq(Lease)]
      /\ \A j \in Ids : Len(grants'[j]) = Len(grants[j])
      /\ \A j \in Ids : \A m \in 1..Len(grants[j]) :
           /\ grants'[j][m].seq = grants[j][m].seq
           /\ grants'[j][m].until = grants[j][m].until
           /\ grants'[j][m].status = IF j = id /\ m = n THEN o ELSE grants[j][m].status
  BY SettleFacts, SMTT(30)
<1>2. ASSUME NEW j \in Ids, NEW m \in 1..Len(grants[j]), grants'[j][m].status = "out"
      PROVE  grants[j][m].status = "out" /\ ~(j = id /\ m = items[id].token)
  BY <1>1, <1>2
<1>. QED  BY <1>1, <1>2, SMTT(30)

(* What settling a lease does to the status of every lease.                  *)
LEMMA SettledStatus ==
  ASSUME TypeOK, NEW id \in Ids, NEW n \in Out(id), NEW o \in Outcomes, Settle(id, n, o)
  PROVE  grants'[id][n].status = o
<1>1. n \in 1..Len(grants[id])
  BY DEF Out
<1>2. \A m \in 1..Len(grants[id]) :
        grants'[id][m].status = IF id = id /\ m = n THEN o ELSE grants[id][m].status
  BY SettleFacts, SMTT(30)
<1>. QED  BY <1>1, <1>2

(* The ids of S have one more lease each, until now + ttl.                   *)
GrantEffect(S, ttl) ==
  /\ grants' \in [Ids -> Seq(Lease)]
  /\ \A j \in Ids \ S : grants'[j] = grants[j]
  /\ \A j \in S :
       /\ Len(grants'[j]) = Len(grants[j]) + 1
       /\ \A m \in 1..Len(grants[j]) : grants'[j][m] = grants[j][m]
       /\ grants'[j][Len(grants[j]) + 1].seq = items[j].seq
       /\ grants'[j][Len(grants[j]) + 1].until = now + ttl

(* A grant appends one lease to the records of S.                            *)
LEMMA GrantFacts ==
  ASSUME TypeOK, NEW S \in SUBSET Ids, NEW ttl \in TTLs,
         NEW o \in Outcomes, NoteGrants(S, ttl, o)
  PROVE  GrantEffect(S, ttl)
<1>. DEFINE l(j) == [seq |-> items[j].seq, until |-> now + ttl, status |-> o]
<1>1. now + ttl \in Nat
  BY TimesAssumption, SMTT(30) DEF TypeOK
<1>2. \A j \in Ids : /\ l(j) \in Lease /\ l(j).seq = items[j].seq
                     /\ l(j).until = now + ttl /\ l(j).status = o
  BY <1>1 DEF TypeOK, Item, Lease
<1>3. grants' = [j \in Ids |-> IF j \in S THEN Append(grants[j], l(j)) ELSE grants[j]]
  BY DEF NoteGrants
<1>. HIDE DEF l
<1>4. \A j \in Ids : /\ Append(grants[j], l(j)) \in Seq(Lease)
                     /\ Len(Append(grants[j], l(j))) = Len(grants[j]) + 1
                     /\ \A m \in 1..Len(grants[j]) : Append(grants[j], l(j))[m] = grants[j][m]
                     /\ Append(grants[j], l(j))[Len(grants[j]) + 1] = l(j)
  BY <1>2, SMTT(30) DEF TypeOK
<1>5. grants' \in [Ids -> Seq(Lease)]
  BY <1>3, <1>4 DEF TypeOK
<1>. QED  BY <1>2, <1>3, <1>4, <1>5 DEF GrantEffect

(* What each operation makes of an item is an item, and what becomes of the  *)
(* fields the invariant speaks of.                                           *)
LEMMA NackedFacts ==
  ASSUME NEW it \in Item, NEW d \in Deps, NEW e \in Nat, NEW t \in Nat, NEW refund
  PROVE  /\ Nacked(it, t, d, refund, e) \in Item
         /\ Nacked(it, t, d, refund, e).state = "pending"
         /\ Nacked(it, t, d, refund, e).seq = it.seq
         /\ Nacked(it, t, d, refund, e).token = 0
<1>1. (IF refund /\ it.attempts > 0 THEN it.attempts - 1 ELSE it.attempts) \in Nat
  BY SMTT(30) DEF Item
<1>2. (IF d = NoDep THEN it.dep ELSE d) \in Deps
  BY DEF Item
<1>3. ASSUME NEW dd \in Deps, NEW a \in Nat
      PROVE  [it EXCEPT !.state = "pending", !.token = 0, !.until = 0, !.next = t,
                        !.err = e, !.dep = dd, !.attempts = a] \in Item
  BY DEF Item, States
<1>4. Nacked(it, t, d, refund, e) \in Item
  BY <1>1, <1>2, <1>3 DEF Nacked
<1>5. /\ Nacked(it, t, d, refund, e).state = "pending"
      /\ Nacked(it, t, d, refund, e).seq = it.seq
      /\ Nacked(it, t, d, refund, e).token = 0
  BY DEF Nacked, Item
<1>. QED  BY <1>4, <1>5

(* Released (applyRelease): a typed pending record with no token.               *)
LEMMA ReleasedFacts ==
  ASSUME NEW it \in Item
  PROVE  /\ Released(it) \in Item
         /\ Released(it).state = "pending" /\ Released(it).seq = it.seq
         /\ Released(it).token = 0
<1>1. (IF it.attempts > 0 THEN it.attempts - 1 ELSE it.attempts) \in Nat
  BY SMTT(30) DEF Item
<1>2. ASSUME NEW a \in Nat
      PROVE  /\ [it EXCEPT !.state = "pending", !.token = 0, !.until = 0, !.attempts = a] \in Item
             /\ [it EXCEPT !.state = "pending", !.token = 0, !.until = 0, !.attempts = a].state = "pending"
             /\ [it EXCEPT !.state = "pending", !.token = 0, !.until = 0, !.attempts = a].seq = it.seq
             /\ [it EXCEPT !.state = "pending", !.token = 0, !.until = 0, !.attempts = a].token = 0
  BY DEF Item, States
<1>. QED  BY <1>1, <1>2 DEF Released

(* Granted (grant): a typed leased record under the given token.                *)
LEMMA GrantedFacts ==
  ASSUME NEW it \in Item, NEW t \in Nat, NEW u \in Nat
  PROVE  /\ Granted(it, t, u) \in Item
         /\ Granted(it, t, u).state = "leased" /\ Granted(it, t, u).seq = it.seq
         /\ Granted(it, t, u).dep = it.dep /\ Granted(it, t, u).token = t
         /\ Granted(it, t, u).until = u
<1>1. it.attempts + 1 \in Nat
  BY SMTT(30) DEF Item
<1>2. ASSUME NEW a \in Nat
      PROVE  /\ [it EXCEPT !.state = "leased", !.token = t, !.until = u, !.attempts = a] \in Item
             /\ [it EXCEPT !.state = "leased", !.token = t, !.until = u, !.attempts = a].state = "leased"
             /\ [it EXCEPT !.state = "leased", !.token = t, !.until = u, !.attempts = a].seq = it.seq
             /\ [it EXCEPT !.state = "leased", !.token = t, !.until = u, !.attempts = a].dep = it.dep
             /\ [it EXCEPT !.state = "leased", !.token = t, !.until = u, !.attempts = a].token = t
             /\ [it EXCEPT !.state = "leased", !.token = t, !.until = u, !.attempts = a].until = u
  BY DEF Item, States
<1>. QED  BY <1>1, <1>2 DEF Granted

(* Parked (applyPark): a typed parked record with no token.                     *)
LEMMA ParkedFacts ==
  ASSUME NEW it \in Item, NEW e \in Nat
  PROVE  /\ Parked(it, e) \in Item
         /\ Parked(it, e).state = "parked" /\ Parked(it, e).seq = it.seq
         /\ Parked(it, e).token = 0
BY DEF Parked, Item, States

(* Requeued (applyRequeue): a typed pending record that is due at once.         *)
LEMMA RequeuedFacts ==
  ASSUME NEW it \in Item, NEW c \in Nat
  PROVE  /\ Requeued(it, c) \in Item
         /\ Requeued(it, c).state = "pending" /\ Requeued(it, c).seq = it.seq
         /\ Requeued(it, c).token = it.token
BY DEF Requeued, Item, States

(* Reserved (reserve) touches nothing but the reservation.                      *)
LEMMA ReservedFacts ==
  ASSUME NEW it \in Item, NEW w \in Callers
  PROVE  /\ Reserved(it, w) \in Item /\ Unreserved(it) \in Item
         /\ Reserved(it, w).state = it.state /\ Reserved(it, w).seq = it.seq
         /\ Reserved(it, w).dep = it.dep /\ Reserved(it, w).token = it.token
         /\ Reserved(it, w).until = it.until /\ Reserved(it, w).res = w
         /\ Reserved(it, w).next = it.next
BY DEF Reserved, Unreserved, Item

(* Unreserved (unreserve) touches nothing but the reservation.                  *)
LEMMA UnreservedFacts ==
  ASSUME NEW it \in Item
  PROVE  /\ Unreserved(it) \in Item
         /\ Unreserved(it).state = it.state /\ Unreserved(it).seq = it.seq
         /\ Unreserved(it).dep = it.dep /\ Unreserved(it).token = it.token
         /\ Unreserved(it).until = it.until /\ Unreserved(it).next = it.next
BY DEF Unreserved, Item

(* Recovered (endReplay): a leased record is pending again, others are kept.    *)
LEMMA RecoveredFacts ==
  ASSUME NEW it \in Item
  PROVE  /\ Recovered(it) \in Item
         /\ Recovered(it).state = IF it.state = "leased" THEN "pending" ELSE it.state
         /\ Recovered(it).seq = it.seq /\ Recovered(it).token = 0
<1>1. (IF it.state = "leased" THEN "pending" ELSE it.state) \in States
  BY DEF Item, States
<1>. QED  BY <1>1 DEF Recovered, Item

-----------------------------------------------------------------------------
(* The steps, in the shape the invariant's proof uses.                       *)

(* A worker's call ends lease n of id and the record stays, as it: Nack,     *)
(* Release and Park.                                                         *)
EndStep(id, n, it, o) ==
  /\ n \in Out(id) /\ Held(id, n)
  /\ Move(id, it) /\ Settle(id, n, o)
  /\ it.state \in {"pending", "parked"} /\ it.seq = items[id].seq /\ it.token = 0
  /\ UNCHANGED <<now, seq, byKey, base>>

(* Each step that ends a lease moves a record off the leased state.             *)
LEMMA EndSteps ==
  ASSUME TypeOK, NEW id \in Ids, NEW n,
         \/ \E delay \in Delays, d \in Deps, refund \in BOOLEAN, e \in Errs :
              Nack(id, n, delay, d, refund, e)
         \/ Release(id, n)
         \/ \E e \in Errs : Park(id, n, e)
  PROVE  \E it \in Item, o \in Outcomes \ {"out"} : EndStep(id, n, it, o)
<1>1. items[id] \in Item /\ now \in Nat /\ Errs \subseteq Nat /\ Delays \subseteq Nat
  BY SizesAssumption, TimesAssumption DEF TypeOK
<1>2. {"refunded", "kept"} \subseteq Outcomes \ {"out"}
  BY DEF Outcomes
<1>3. ASSUME NEW delay \in Delays, NEW d \in Deps, NEW refund \in BOOLEAN, NEW e \in Errs,
             Nack(id, n, delay, d, refund, e)
      PROVE  \E it \in Item, o \in Outcomes \ {"out"} : EndStep(id, n, it, o)
  <2>. DEFINE it == Nacked(items[id], now + delay, d, refund, e)
              o == IF refund THEN "refunded" ELSE "kept"
  <2>1. now + delay \in Nat /\ e \in Nat
    BY <1>1, SMTT(30)
  <2>2. it \in Item /\ it.state = "pending" /\ it.seq = items[id].seq /\ it.token = 0
    BY <1>1, <2>1, NackedFacts, SMTT(30)
  <2>3. o \in Outcomes \ {"out"}
    BY <1>2
  <2>4. EndStep(id, n, it, o)
    BY <1>3, <2>2 DEF Nack, EndStep
  <2>. HIDE DEF it, o
  <2>. QED  BY <2>2, <2>3, <2>4
<1>4. ASSUME Release(id, n)
      PROVE  \E it \in Item, o \in Outcomes \ {"out"} : EndStep(id, n, it, o)
  <2>1. EndStep(id, n, Released(items[id]), "refunded")
    BY <1>1, <1>4, ReleasedFacts DEF Release, EndStep
  <2>. QED  BY <1>1, <1>2, <2>1, ReleasedFacts
<1>5. ASSUME NEW e \in Errs, Park(id, n, e)
      PROVE  \E it \in Item, o \in Outcomes \ {"out"} : EndStep(id, n, it, o)
  <2>1. EndStep(id, n, Parked(items[id], e), "kept")
    BY <1>1, <1>5, ParkedFacts DEF Park, EndStep
  <2>. QED  BY <1>1, <1>2, <2>1, ParkedFacts
<1>. QED  BY <1>3, <1>4, <1>5

(* A record leaves the store: Ack and Discard.                               *)
LEMMA RemoveFacts ==
  ASSUME TypeOK, NEW id \in Ids, Remove(id)
  PROVE  /\ items' = [items EXCEPT ![id] = NoItem]
         /\ items' \in [Ids -> Item]
         /\ Reindex({id}, items')
         /\ groups' \in [Deps -> SUBSET Ids]
         /\ parked' \in SUBSET Ids
         /\ byKey' \in [Keys -> SUBSET Ids]
         /\ \A k \in Keys : byKey'[k] = byKey[k] \ {id}
         /\ wake' \in [Deps -> Nat]
         /\ \A d \in Deps : wake'[d] <= wake[d]
         /\ \A j \in Successors(id) : Queued(items[j]) => wake'[items[j].dep] = 0
<1>1. items' = [items EXCEPT ![id] = NoItem] /\ Reindex({id}, items')
  BY DEF Remove
<1>2. NoItem \in Item
  BY DepsAssumption DEF NoItem, Item, States
<1>3. items' \in [Ids -> Item]
  BY <1>1, <1>2 DEF TypeOK
<1>4. /\ groups' \in [Deps -> SUBSET Ids]
      /\ parked' \in SUBSET Ids
  BY <1>1, ReindexType
<1>5. byKey' \in [Keys -> SUBSET Ids] /\ \A k \in Keys : byKey'[k] = byKey[k] \ {id}
  BY DEF Remove, TypeOK
<1>. DEFINE D == DepsOf({id} \cup Successors(id), items)
<1>6. wake' = Clear(D, wake) /\ wake \in [Deps -> Nat]
  BY DEF Remove, TypeOK
<1>7. /\ wake' \in [Deps -> Nat]
      /\ \A d \in Deps : wake'[d] <= wake[d]
      /\ \A d \in Deps \cap D : wake'[d] = 0
  <2>. HIDE DEF D
  <2>. QED  BY <1>6, ClearFacts
<1>8. ASSUME NEW j \in Successors(id), Queued(items[j])
      PROVE  items[j].dep \in Deps \cap D
  <2>1. j \in Ids
    BY DEF Successors, TypeOK
  <2>. QED  BY <1>8, <2>1 DEF DepsOf, TypeOK, Item
<1>. QED  BY <1>1, <1>3, <1>4, <1>5, <1>7, <1>8

-----------------------------------------------------------------------------
(* Frames: what follows when an action leaves Seq numbers or states alone.   *)

(* The head of a key depends on nothing but byKey and the Seq numbers.       *)
LEMMA HeadFrame ==
  ASSUME TypeOK, byKey' = byKey, \A j \in Ids : items'[j].seq = items[j].seq,
         NEW id \in Ids
  PROVE  IsHead(id)' <=> IsHead(id)
<1>1. \A k \in Keys : byKey[k] \subseteq Ids
  BY DEF TypeOK
<1>. QED  BY <1>1 DEF IsHead

(* Reindex moves the ids of S to where their new state puts them.            *)
LEMMA ReindexMatches ==
  ASSUME TypeOK, IndexMatchesRecords, NEW S \in SUBSET Ids, Reindex(S, items'),
         \A j \in Ids \ S : items'[j].state = items[j].state /\ items'[j].dep = items[j].dep
  PROVE  /\ \A d \in Deps : groups'[d] = {id \in Ids : Queued(items'[id]) /\ items'[id].dep = d}
         /\ parked' = {id \in Ids : items'[id].state = "parked"}
<1>1. \A d \in Deps : groups'[d] = (groups[d] \ S)
                        \cup {id \in S : Queued(items'[id]) /\ items'[id].dep = d}
  BY DEF Reindex
<1>2. \A d \in Deps : groups[d] = {id \in Ids : Queued(items[id]) /\ items[id].dep = d}
  BY DEF IndexMatchesRecords
<1>3. \A j \in Ids \ S : Queued(items'[j]) <=> Queued(items[j])
  BY DEF Queued
<1>4. ASSUME NEW d \in Deps
      PROVE  groups'[d] = {id \in Ids : Queued(items'[id]) /\ items'[id].dep = d}
  BY <1>1, <1>2, <1>3, SMTT(30)
<1>5. parked' = {id \in Ids : items'[id].state = "parked"}
  BY DEF Reindex, IndexMatchesRecords
<1>. QED  BY <1>4, <1>5

(* When no record comes or goes the order keys and the Seq numbers stand.    *)
LEMMA RecordsFrame ==
  ASSUME IInv, byKey' = byKey, seq' = seq,
         \A j \in Ids : /\ items'[j].seq = items[j].seq
                        /\ items'[j].state = "absent" <=> items[j].state = "absent"
  PROVE  /\ SeqInv'
         /\ \A k \in Keys : byKey'[k] = {id \in Live' : KeyOf[id] = k}
<1>1. Live' = Live
  BY DEF Live
<1>2. SeqInv'
  BY <1>1 DEF IInv, SeqInv, Live
<1>. QED  BY <1>1, <1>2 DEF IInv, IndexMatchesRecords

(* No record moves: the clock may advance, leases may end without effect and *)
(* reservations and checkpoints may change.                                  *)
LEMMA StillInv ==
  ASSUME IInv, TypeOK', WakeInv', now' >= now,
         seq' = seq, byKey' = byKey, groups' = groups, parked' = parked,
         \A j \in Ids : /\ items'[j].state = items[j].state /\ items'[j].seq = items[j].seq
                        /\ items'[j].dep = items[j].dep /\ items'[j].token = items[j].token
                        /\ items'[j].until = items[j].until,
         \A j \in Ids : Len(grants'[j]) = Len(grants[j]),
         \A j \in Ids : \A m \in 1..Len(grants[j]) :
           /\ grants'[j][m].seq = grants[j][m].seq
           /\ grants'[j][m].until = grants[j][m].until
           /\ grants'[j][m].status = "out" => grants[j][m].status = "out"
  PROVE  IInv'
<1>. USE DEF IInv
<1>1. SeqInv' /\ \A k \in Keys : byKey'[k] = {id \in Live' : KeyOf[id] = k}
  BY RecordsFrame
<1>2. IndexMatchesRecords'
  <2>1. \A j \in Ids : Queued(items'[j]) <=> Queued(items[j])
    BY DEF Queued
  <2>. QED  BY <1>1, <2>1 DEF IndexMatchesRecords
<1>3. TokenInv'
  <2>1. ASSUME NEW j \in Ids, items[j].state = "leased"
        PROVE  Len(grants[j]) \in 1..Len(grants[j])
    <3>1. Len(grants[j]) \in Nat
      BY Typed
    <3>2. Len(grants[j]) > 0
      BY <2>1 DEF TokenInv
    <3>. QED  BY ONLY <3>1, <3>2, SMTT(30)
  <2>. QED  BY <2>1, SMTT(30) DEF TokenInv
<1>4. LeasedHead'
  BY HeadFrame DEF LeasedHead
<1>5. OutHeld'
  <2>1. SUFFICES ASSUME NEW j \in Ids, NEW m \in Out(j)', grants'[j][m].until > now'
                 PROVE  Held(j, m)'
    BY DEF OutHeld
  <2>2. m \in 1..Len(grants[j]) /\ m \in Out(j)
    BY DEF Out
  <2>3. grants[j][m].until \in Nat /\ now \in Nat /\ now' \in Nat
    BY <2>2, Typed DEF TypeOK
  <2>4. grants[j][m].until > now
    <3>1. grants[j][m].until > now' /\ now' >= now
      BY <2>1, <2>2
    <3>. QED  BY ONLY <2>3, <3>1, SMTT(30)
  <2>5. Held(j, m)
    BY <2>2, <2>4 DEF OutHeld
  <2>. QED  BY <2>5 DEF Held
<1>. QED  BY <1>1, <1>2, <1>3, <1>4, <1>5

(* The same when reservations and wake times stand too.                      *)
LEMMA WakeFrame ==
  ASSUME IInv, byKey' = byKey, groups' = groups, wake' = wake,
         \A j \in Ids : /\ items'[j].state = items[j].state /\ items'[j].seq = items[j].seq
                        /\ items'[j].until = items[j].until /\ items'[j].next = items[j].next
                        /\ items'[j].res = items[j].res
  PROVE  WakeInv'
<1>. USE DEF IInv
<1>1. \A d \in Deps : groups[d] \subseteq Ids
  BY DEF TypeOK
<1>2. \A j \in Ids : IsHead(j)' <=> IsHead(j)
  BY HeadFrame
<1>. QED  BY <1>1, <1>2, SMTT(30) DEF WakeInv, Due

-----------------------------------------------------------------------------
(* Each step preserves the invariant.                                        *)

(* A record moves and keeps its place in its key; no lease that stays out    *)
(* was its current one.                                                      *)
LEMMA MoveInv ==
  ASSUME IInv, NEW id \in Ids, NEW it \in Item, Move(id, it),
         items[id].state # "absent",
         it.state \in {"pending", "parked"}, it.seq = items[id].seq, it.token = 0,
         now' = now, seq' = seq, byKey' = byKey, base' \in [Ids -> Nat],
         grants' \in [Ids -> Seq(Lease)],
         \A j \in Ids : Len(grants'[j]) = Len(grants[j]),
         \A j \in Ids : \A m \in 1..Len(grants[j]) :
           /\ grants'[j][m].seq = grants[j][m].seq
           /\ grants'[j][m].until = grants[j][m].until
           /\ grants'[j][m].status = "out" =>
                grants[j][m].status = "out" /\ ~(j = id /\ m = items[id].token)
  PROVE  IInv'
<1>. USE DEF IInv
<1>2. TypeOK'
  BY MoveFacts DEF TypeOK
<1>3. /\ \A j \in Ids : j # id => items'[j] = items[j]
      /\ items'[id].state = it.state /\ items'[id].seq = it.seq
      /\ items'[id].dep = it.dep /\ items'[id].token = 0
  <2>1. items' = [items EXCEPT ![id] = Touch(it)]
    BY MoveFacts
  <2>2. items'[id] = Touch(it) /\ \A j \in Ids : j # id => items'[j] = items[j]
    BY <2>1 DEF TypeOK
  <2>. QED  BY <2>2, TouchFacts, SMTT(30)
<1>5. \A j \in Ids : /\ items'[j].seq = items[j].seq
                     /\ items'[j].state = "absent" <=> items[j].state = "absent"
  BY <1>3
<1>6. /\ \A d \in Deps : groups'[d] = {j \in Ids : Queued(items'[j]) /\ items'[j].dep = d}
      /\ parked' = {j \in Ids : items'[j].state = "parked"}
  <2>1. Reindex({id}, items')
    BY MoveFacts
  <2>. QED  BY <1>3, <2>1, ReindexMatches
<1>7. IndexMatchesRecords' /\ SeqInv'
  BY <1>5, <1>6, RecordsFrame DEF IndexMatchesRecords
<1>8. TokenInv'
  <2>1. ASSUME NEW j \in Ids, j # id, items[j].state = "leased"
        PROVE  Len(grants[j]) \in 1..Len(grants[j])
    <3>1. Len(grants[j]) \in Nat
      BY Typed
    <3>2. Len(grants[j]) > 0
      BY <2>1 DEF TokenInv
    <3>. QED  BY <3>1, <3>2, SMTT(30)
  <2>2. items'[id].state # "leased" /\ items'[id].token = 0
    BY <1>3
  <2>3. ASSUME NEW j \in Ids, j # id, items[j].state = "leased"
        PROVE  /\ items'[j].token = Len(grants'[j]) /\ items'[j].token > 0
               /\ grants'[j][Len(grants'[j])].seq = items'[j].seq
               /\ grants'[j][Len(grants'[j])].until = items'[j].until
    <3>1. /\ items[j].token = Len(grants[j]) /\ items[j].token > 0
          /\ grants[j][Len(grants[j])].seq = items[j].seq
          /\ grants[j][Len(grants[j])].until = items[j].until
          /\ items'[j] = items[j]
      BY <1>3, <2>3 DEF TokenInv
    <3>. QED  BY <2>1, <2>3, <3>1, SMTT(30)
  <2>4. ASSUME NEW j \in Ids, j # id, items[j].state # "leased"
        PROVE  items'[j].state # "leased" /\ items'[j].token = 0
    BY <1>3, <2>4, SMTT(30) DEF TokenInv
  <2>5. \A j \in Ids : j # id => items'[j].state = items[j].state
    BY <1>3
  <2>. QED  BY <2>2, <2>3, <2>4, <2>5, SMTT(30) DEF TokenInv
<1>9. LeasedHead'
  BY <1>3, <1>5, HeadFrame DEF LeasedHead
<1>10. OutHeld'
  <2>1. SUFFICES ASSUME NEW j \in Ids, NEW m \in Out(j)', grants'[j][m].until > now'
                 PROVE  Held(j, m)'
    BY DEF OutHeld
  <2>2. m \in 1..Len(grants[j]) /\ grants'[j][m].status = "out"
    BY DEF Out
  <2>3. m \in Out(j) /\ ~(j = id /\ m = items[id].token) /\ grants[j][m].until > now
    BY <2>1, <2>2 DEF Out
  <2>4. Held(j, m)
    BY <2>3 DEF OutHeld
  <2>. QED  BY <1>3, <2>3, <2>4 DEF Held
<1>11. WakeInv'
  <2>1. SUFFICES ASSUME NEW d \in Deps, NEW j \in groups'[d], items'[j].res = Free, IsHead(j)'
                 PROVE  wake'[d] <= Due(items'[j])
    BY DEF WakeInv
  <2>2. j \in Ids /\ Queued(items'[j]) /\ items'[j].dep = d
    BY <1>6, SMTT(30)
  <2>3. Due(items'[j]) \in Nat /\ wake'[d] \in Nat /\ wake[d] \in Nat /\ wake'[d] <= wake[d]
    <3>1. items'[j] \in Item /\ wake' \in [Deps -> Nat] /\ wake \in [Deps -> Nat]
      BY <1>2, <2>2 DEF TypeOK
    <3>2. Due(items'[j]) \in Nat
      BY ONLY <3>1, Zenon DEF Item, Due
    <3>3. wake'[d] <= wake[d]
      BY MoveFacts
    <3>. QED  BY <3>1, <3>2, <3>3
  <2>4. CASE j = id
    <3>1. Queued(it) => wake'[it.dep] = 0
      BY MoveFacts
    <3>2. Queued(it) /\ it.dep = d
      BY <1>3, <2>2, <2>4 DEF Queued
    <3>. QED  BY <2>3, <3>1, <3>2, SMTT(30)
  <2>5. CASE j # id
    <3>1. items'[j] = items[j] /\ IsHead(j) /\ j \in groups[d]
      BY <1>3, <1>5, <2>1, <2>2, <2>5, HeadFrame DEF IndexMatchesRecords
    <3>2. wake[d] <= Due(items[j])
      BY <2>1, <3>1 DEF WakeInv
    <3>. QED  BY <2>3, <3>1, <3>2, SMTT(30)
  <2>. QED  BY <2>4, <2>5
<1>. QED  BY <1>2, <1>7, <1>8, <1>9, <1>10, <1>11

(* Nack, Release and Park preserve the invariant.                               *)
LEMMA EndStepInv ==
  ASSUME IInv, NEW id \in Ids, NEW n, NEW it \in Item, NEW o \in Outcomes \ {"out"},
         EndStep(id, n, it, o)
  PROVE  IInv'
<1>1. /\ n \in Out(id) /\ Held(id, n) /\ Move(id, it) /\ Settle(id, n, o)
      /\ it.state \in {"pending", "parked"} /\ it.seq = items[id].seq /\ it.token = 0
      /\ now' = now /\ seq' = seq /\ byKey' = byKey /\ base' = base
  BY DEF EndStep
<1>2. TypeOK /\ items[id].state # "absent" /\ items[id].token = n /\ base \in [Ids -> Nat]
  BY <1>1 DEF IInv, Held, TypeOK
<1>3. /\ grants' \in [Ids -> Seq(Lease)]
      /\ \A j \in Ids : Len(grants'[j]) = Len(grants[j])
      /\ \A j \in Ids : \A m \in 1..Len(grants[j]) :
           /\ grants'[j][m].seq = grants[j][m].seq
           /\ grants'[j][m].until = grants[j][m].until
           /\ grants'[j][m].status = "out" =>
                grants[j][m].status = "out" /\ ~(j = id /\ m = items[id].token)
  <2>1. /\ TypeOK /\ n \in Out(id) /\ o \in Outcomes /\ o # "out" /\ Settle(id, n, o)
        /\ items[id].token = n
    BY <1>1, <1>2
  <2>. QED  BY <2>1, SettleEnds
<1>. QED  BY <1>1, <1>2, <1>3, MoveInv

(* RequeueWith preserves the invariant.                                         *)
LEMMA RequeueInv ==
  ASSUME IInv, NEW id \in Ids, NEW replace, NEW c \in Ckpts, Requeue(id, replace, c)
  PROVE  IInv'
<1>. DEFINE cc == IF replace THEN c ELSE items[id].ckpt
            it == Requeued(items[id], cc)
<1>1. /\ items[id].state = "parked" /\ Move(id, it)
      /\ now' = now /\ seq' = seq /\ byKey' = byKey /\ grants' = grants
      /\ base' = [base EXCEPT ![id] = Len(grants[id])]
  BY DEF Requeue
<1>2. TypeOK /\ items[id] \in Item /\ items[id].token = 0
  BY <1>1 DEF IInv, TypeOK, TokenInv
<1>3. cc \in Nat
  BY <1>2, SizesAssumption DEF Item
<1>. HIDE DEF cc
<1>4. it \in Item /\ it.state = "pending" /\ it.seq = items[id].seq /\ it.token = 0
  BY <1>2, <1>3, RequeuedFacts
<1>. HIDE DEF it
<1>5. /\ grants \in [Ids -> Seq(Lease)] /\ base' \in [Ids -> Nat]
      /\ \A j \in Ids : Len(grants[j]) \in Nat
  BY <1>1, <1>2, Typed DEF TypeOK
<1>6. \A j \in Ids : \A m \in 1..Len(grants[j]) : m # items[id].token
  BY <1>2, <1>5, SMTT(30)
<1>. QED  BY <1>1, <1>2, <1>4, <1>5, <1>6, MoveInv

(* A record leaves; no lease that stays out was its current one.             *)
LEMMA RemoveInv ==
  ASSUME IInv, NEW id \in Ids, Remove(id), now' = now, seq' = seq, base' = base,
         grants' \in [Ids -> Seq(Lease)],
         \A j \in Ids : Len(grants'[j]) = Len(grants[j]),
         \A j \in Ids : \A m \in 1..Len(grants[j]) :
           /\ grants'[j][m].seq = grants[j][m].seq
           /\ grants'[j][m].until = grants[j][m].until
           /\ grants'[j][m].status = "out" =>
                grants[j][m].status = "out" /\ ~(j = id /\ m = items[id].token)
  PROVE  IInv'
<1>. USE DEF IInv
<1>1. /\ items' = [items EXCEPT ![id] = NoItem]
      /\ Reindex({id}, items')
      /\ \A k \in Keys : byKey'[k] = byKey[k] \ {id}
      /\ \A d \in Deps : wake'[d] <= wake[d]
      /\ \A j \in Successors(id) : Queued(items[j]) => wake'[items[j].dep] = 0
  BY RemoveFacts
<1>2. TypeOK'
  BY RemoveFacts DEF TypeOK
<1>3. items'[id] = NoItem /\ \A j \in Ids : j # id => items'[j] = items[j]
  BY <1>1 DEF TypeOK
<1>4. items'[id].state = "absent" /\ items'[id].token = 0 /\ items'[id].seq = 0
  BY ONLY <1>3, SMTT(30) DEF NoItem
<1>5. Live' = Live \ {id}
  BY <1>3, <1>4, SMTT(30) DEF Live
<1>6. /\ \A d \in Deps : groups'[d] = {j \in Ids : Queued(items'[j]) /\ items'[j].dep = d}
      /\ parked' = {j \in Ids : items'[j].state = "parked"}
  BY <1>1, <1>3, ReindexMatches
<1>7. IndexMatchesRecords'
  BY <1>1, <1>5, <1>6 DEF IndexMatchesRecords
<1>8. SeqInv'
  <2>1. \A j \in Ids : items'[j].seq <= seq'
    <3>1. seq \in Nat /\ \A j \in Ids : items[j].seq <= seq
      BY DEF SeqInv, TypeOK
    <3>. QED  BY <1>3, <1>4, <3>1, SMTT(30)
  <2>2. \A i, j \in Live' : items'[i].seq = items'[j].seq => i = j
    BY <1>3, <1>5, SMTT(30) DEF SeqInv, Live
  <2>. QED  BY <2>1, <2>2 DEF SeqInv
<1>9. TokenInv'
  <2>1. ASSUME NEW j \in Ids, j # id, items[j].state = "leased"
        PROVE  Len(grants[j]) \in 1..Len(grants[j])
    <3>1. Len(grants[j]) \in Nat
      BY Typed
    <3>2. Len(grants[j]) > 0
      BY <2>1 DEF TokenInv
    <3>. QED  BY <3>1, <3>2, SMTT(30)
  <2>. QED  BY <1>3, <1>4, <2>1, SMTT(30) DEF TokenInv
<1>10. ASSUME NEW j \in Ids, j # id, IsHead(j) PROVE IsHead(j)'
  <2>1. \A k \in Keys : byKey[k] \subseteq Ids
    BY DEF TypeOK
  <2>2. ASSUME KeyOf[j] \in Keys, NEW x \in byKey'[KeyOf[j]]
        PROVE  items'[j].seq <= items'[x].seq
    <3>1. x \in byKey[KeyOf[j]] /\ x # id
      BY ONLY <1>1, <2>2, Zenon
    <3>2. items[j].seq <= items[x].seq /\ x \in Ids
      BY <1>10, <2>1, <2>2, <3>1 DEF IsHead
    <3>3. items'[x] = items[x] /\ items'[j] = items[j]
      BY <1>3, <1>10, <3>1, <3>2
    <3>. QED  BY ONLY <3>2, <3>3, Zenon
  <2>. QED  BY <2>2 DEF IsHead
<1>11. LeasedHead'
  BY <1>3, <1>4, <1>10 DEF LeasedHead
<1>12. OutHeld'
  <2>1. SUFFICES ASSUME NEW j \in Ids, NEW m \in Out(j)', grants'[j][m].until > now'
                 PROVE  Held(j, m)'
    BY DEF OutHeld
  <2>2. m \in 1..Len(grants[j]) /\ grants'[j][m].status = "out"
    BY DEF Out
  <2>3. m \in Out(j) /\ ~(j = id /\ m = items[id].token) /\ grants[j][m].until > now
    BY <2>1, <2>2 DEF Out
  <2>4. Held(j, m)
    BY <2>3 DEF OutHeld
  <2>. QED  BY <1>3, <2>3, <2>4 DEF Held
<1>13. WakeInv'
  <2>1. SUFFICES ASSUME NEW d \in Deps, NEW j \in groups'[d], items'[j].res = Free, IsHead(j)'
                 PROVE  wake'[d] <= Due(items'[j])
    BY DEF WakeInv
  <2>2. j \in Ids /\ Queued(items'[j]) /\ items'[j].dep = d
    BY <1>6, SMTT(30)
  <2>3. j # id /\ items'[j] = items[j] /\ j \in groups[d]
    BY <1>3, <1>4, <2>2 DEF Queued, IndexMatchesRecords
  <2>4. Due(items[j]) \in Nat /\ wake'[d] \in Nat /\ wake[d] \in Nat /\ wake'[d] <= wake[d]
    <3>1. Due(items[j]) \in Nat
      BY <2>2, Typed
    <3>. QED  BY <1>1, <1>2, <3>1 DEF TypeOK
  <2>5. CASE IsHead(j)
    <3>1. wake[d] <= Due(items[j])
      BY <2>1, <2>3, <2>5 DEF WakeInv
    <3>. QED  BY ONLY <2>3, <2>4, <3>1, SMTT(30)
  <2>6. CASE ~IsHead(j)
    <3>1. PICK i \in byKey[KeyOf[j]] : KeyOf[j] \in Keys /\ ~(items[j].seq <= items[i].seq)
      BY <2>6 DEF IsHead
    <3>. DEFINE k == KeyOf[j]
    <3>2. byKey[k] = {x \in Live : KeyOf[x] = k}
      BY <3>1 DEF IndexMatchesRecords
    <3>3. j \in byKey[k]
      BY <2>2, <2>3, <3>2 DEF Live, Queued
    <3>4. \A x \in byKey[k] \ {id} : items[j].seq <= items[x].seq
      <4>1. byKey[k] \subseteq Ids
        BY <3>1 DEF TypeOK
      <4>. QED  BY <1>1, <1>3, <2>1, <2>3, <3>1, <4>1 DEF IsHead
    <3>5. i = id
      BY <3>1, <3>4
    <3>6. KeyOf[id] = k
      BY <3>1, <3>2, <3>5
    <3>7. ASSUME NEW x \in byKey[k] PROVE items[id].seq <= items[x].seq
      <4>1. x \in Ids
        BY <3>1 DEF TypeOK
      <4>2. items[id].seq \in Nat /\ items[x].seq \in Nat /\ items[j].seq \in Nat
        BY <2>2, <4>1, Typed
      <4>. QED  BY <3>1, <3>4, <3>5, <4>2, SMTT(30)
    <3>8. j \in Successors(id)
      BY <2>3, <3>1, <3>3, <3>4, <3>6, <3>7 DEF Successors, IsHead
    <3>9. wake'[d] = 0
      BY <1>1, <2>2, <2>3, <3>8
    <3>. QED  BY <2>3, <2>4, <3>9, NatPos
  <2>. QED  BY <2>5, <2>6
<1>. QED  BY <1>2, <1>7, <1>8, <1>9, <1>11, <1>12, <1>13

(* Ack preserves the invariant.                                                 *)
LEMMA AckInv ==
  ASSUME IInv, NEW id \in Ids, NEW n, Ack(id, n)
  PROVE  IInv'
<1>1. /\ n \in Out(id) /\ Held(id, n) /\ Remove(id) /\ Settle(id, n, "acked")
      /\ now' = now /\ seq' = seq /\ base' = base
  BY DEF Ack
<1>2. TypeOK /\ "acked" \in Outcomes /\ "acked" # "out" /\ items[id].token = n
  BY <1>1 DEF IInv, Outcomes, Held
<1>3. /\ grants' \in [Ids -> Seq(Lease)]
      /\ \A j \in Ids : Len(grants'[j]) = Len(grants[j])
      /\ \A j \in Ids : \A m \in 1..Len(grants[j]) :
           /\ grants'[j][m].seq = grants[j][m].seq
           /\ grants'[j][m].until = grants[j][m].until
           /\ grants'[j][m].status = "out" =>
                grants[j][m].status = "out" /\ ~(j = id /\ m = items[id].token)
  BY <1>1, <1>2, SettleEnds
<1>. QED  BY <1>1, <1>3, RemoveInv

(* Discard preserves the invariant.                                             *)
LEMMA DiscardInv ==
  ASSUME IInv, NEW id \in Ids, Discard(id)
  PROVE  IInv'
<1>1. items[id].token = 0
  BY DEF Discard, IInv, TokenInv
<1>2. grants' = grants /\ Remove(id) /\ now' = now /\ seq' = seq /\ base' = base
  BY DEF Discard
<1>3. grants \in [Ids -> Seq(Lease)] /\ \A j \in Ids : Len(grants[j]) \in Nat
  BY Typed DEF IInv, TypeOK
<1>4. ASSUME NEW j \in Ids, NEW m \in 1..Len(grants[j]) PROVE m # items[id].token
  <2>1. Len(grants[j]) \in Nat
    BY <1>3
  <2>2. m # 0
    BY ONLY <2>1, m \in 1..Len(grants[j]), SMTT(30)
  <2>. QED  BY <1>1, <2>2
<1>. QED  BY <1>2, <1>3, <1>4, RemoveInv

(* The passage of time preserves the invariant.                                 *)
LEMMA TickInv ==
  ASSUME IInv, Tick
  PROVE  IInv'
<1>1. /\ now' = now + 1 /\ items' = items /\ seq' = seq /\ byKey' = byKey /\ groups' = groups
      /\ wake' = wake /\ parked' = parked /\ counts' = counts /\ grants' = grants /\ base' = base
  BY DEF Tick, index
<1>2. now \in Nat \ {0}
  BY DEF IInv, TypeOK
<1>3. TypeOK'
  BY <1>1, <1>2, SMTT(30) DEF IInv, TypeOK
<1>4. WakeInv'
  BY <1>1, WakeFrame
<1>5. now' >= now
  BY <1>1, <1>2, SMTT(30)
<1>. QED  BY <1>1, <1>3, <1>4, <1>5, StillInv

(* A lease lost on the way to its caller preserves the invariant.               *)
LEMMA LeaseLostInv ==
  ASSUME IInv, NEW id \in Ids, NEW n, LeaseLost(id, n)
  PROVE  IInv'
<1>1. /\ n \in Out(id) /\ Settle(id, n, "lost")
      /\ now' = now /\ items' = items /\ seq' = seq /\ byKey' = byKey /\ groups' = groups
      /\ wake' = wake /\ parked' = parked /\ counts' = counts /\ base' = base
  BY DEF LeaseLost, index
<1>2. TypeOK /\ "lost" \in Outcomes \ {"out"} /\ now \in Nat
  BY DEF IInv, Outcomes, TypeOK
<1>3. /\ grants' \in [Ids -> Seq(Lease)]
      /\ \A j \in Ids : Len(grants'[j]) = Len(grants[j])
      /\ \A j \in Ids : \A m \in 1..Len(grants[j]) :
           /\ grants'[j][m].seq = grants[j][m].seq
           /\ grants'[j][m].until = grants[j][m].until
           /\ grants'[j][m].status = "out" => grants[j][m].status = "out"
  BY <1>1, <1>2, SettleFacts, SMTT(30)
<1>4. TypeOK'
  BY <1>1, <1>2, <1>3 DEF TypeOK
<1>5. WakeInv'
  BY <1>1, WakeFrame
<1>6. now' >= now
  BY <1>1, <1>2, SMTT(30)
<1>. QED  BY <1>1, <1>3, <1>4, <1>5, <1>6, StillInv

(* Checkpoint preserves the invariant.                                          *)
LEMMA CheckpointInv ==
  ASSUME IInv, NEW id \in Ids, NEW n, NEW c \in Ckpts, Checkpoint(id, n, c)
  PROVE  IInv'
<1>. DEFINE it == Touch(SetCheckpoint(items[id], c))
<1>1. /\ items' = [items EXCEPT ![id] = it]
      /\ now' = now /\ seq' = seq /\ byKey' = byKey /\ groups' = groups
      /\ wake' = wake /\ parked' = parked /\ counts' = counts /\ grants' = grants /\ base' = base
  BY DEF Checkpoint, index
<1>2. ASSUME NEW x \in Item
      PROVE  /\ SetCheckpoint(x, c) \in Item
             /\ SetCheckpoint(x, c).state = x.state /\ SetCheckpoint(x, c).seq = x.seq
             /\ SetCheckpoint(x, c).dep = x.dep /\ SetCheckpoint(x, c).token = x.token
             /\ SetCheckpoint(x, c).until = x.until /\ SetCheckpoint(x, c).next = x.next
             /\ SetCheckpoint(x, c).res = x.res
  BY SizesAssumption DEF SetCheckpoint, Item
<1>3. TypeOK /\ items[id] \in Item /\ now \in Nat
  BY DEF IInv, TypeOK
<1>4. /\ it \in Item
      /\ it.state = items[id].state /\ it.seq = items[id].seq /\ it.dep = items[id].dep
      /\ it.token = items[id].token /\ it.until = items[id].until
      /\ it.next = items[id].next /\ it.res = items[id].res
  <2>. DEFINE x == SetCheckpoint(items[id], c)
  <2>1. /\ x \in Item /\ x.state = items[id].state /\ x.seq = items[id].seq
        /\ x.dep = items[id].dep /\ x.token = items[id].token /\ x.until = items[id].until
        /\ x.next = items[id].next /\ x.res = items[id].res
    BY <1>2, <1>3
  <2>. HIDE DEF x
  <2>2. it = Touch(x)
    BY DEF x
  <2>. HIDE DEF it
  <2>. QED  BY <2>1, <2>2, TouchFacts
<1>. HIDE DEF it
<1>5. TypeOK'
  BY <1>1, <1>3, <1>4 DEF TypeOK
<1>6. items'[id] = it /\ \A j \in Ids : j # id => items'[j] = items[j]
  BY <1>1, <1>3 DEF TypeOK
<1>7. \A j \in Ids : /\ items'[j].state = items[j].state /\ items'[j].seq = items[j].seq
                     /\ items'[j].dep = items[j].dep /\ items'[j].token = items[j].token
                     /\ items'[j].until = items[j].until /\ items'[j].next = items[j].next
                     /\ items'[j].res = items[j].res
  BY <1>4, <1>6
<1>8. WakeInv'
  BY <1>1, <1>7, WakeFrame
<1>9. now' >= now
  BY <1>1, <1>3, SMTT(30)
<1>. QED  BY <1>1, <1>5, <1>7, <1>8, <1>9, StillInv

(* Append preserves the invariant.                                              *)
LEMMA AppendInv ==
  ASSUME IInv, NEW id \in Ids, NEW st \in Births, NEW d \in Deps, NEW c \in Ckpts,
         NEW e \in Errs, AppendRecord(id, st, d, c, e)
  PROVE  IInv'
<1>. USE DEF IInv
<1>. DEFINE it == Born(st, d, c, e)
<1>1. /\ items[id].state = "absent" /\ Move(id, it) /\ seq' = seq + 1
      /\ byKey' = [k \in Keys |-> IF k = KeyOf[id] THEN byKey[k] \cup {id} ELSE byKey[k]]
      /\ now' = now /\ grants' = grants /\ base' = [base EXCEPT ![id] = Len(grants[id])]
  BY DEF AppendRecord
<1>2. seq \in Nat /\ st \in {"pending", "parked"} /\ c \in Nat /\ e \in Nat
  BY BirthsAssumption, SizesAssumption DEF TypeOK
<1>3. it \in Item /\ it.state = st /\ it.seq = seq + 1 /\ it.token = 0
  <2>1. ASSUME NEW s \in Nat
        PROVE  LET x == [NoItem EXCEPT !.state = st, !.seq = s, !.dep = d, !.ckpt = c, !.err = e]
               IN x \in Item /\ x.state = st /\ x.seq = s /\ x.token = 0
    <3>1. st \in States
      BY <1>2 DEF States
    <3>. QED  BY <1>2, <3>1 DEF NoItem, Item
  <2>2. seq + 1 \in Nat
    BY <1>2, SMTT(30)
  <2>. QED  BY <2>1, <2>2 DEF Born
<1>. HIDE DEF it
<1>4. /\ \A j \in Ids : j # id => items'[j] = items[j]
      /\ items'[id].state = st /\ items'[id].seq = seq + 1
      /\ items'[id].dep = it.dep /\ items'[id].token = 0
  <2>1. items' = [items EXCEPT ![id] = Touch(it)]
    BY <1>1, <1>3, MoveFacts
  <2>2. items'[id] = Touch(it) /\ \A j \in Ids : j # id => items'[j] = items[j]
    BY <2>1 DEF TypeOK
  <2>. QED  BY <1>3, <2>2, TouchFacts, SMTT(30)
<1>5. TypeOK'
  <2>1. base' \in [Ids -> Nat]
    BY <1>1, Typed DEF TypeOK
  <2>2. byKey' \in [Keys -> SUBSET Ids]
    BY <1>1 DEF TypeOK
  <2>3. /\ items' \in [Ids -> Item] /\ groups' \in [Deps -> SUBSET Ids]
        /\ parked' \in SUBSET Ids
        /\ wake' \in [Deps -> Nat]
    BY <1>1, <1>3, MoveFacts
  <2>4. seq' \in Nat /\ now' \in Nat \ {0} /\ grants' \in [Ids -> Seq(Lease)]
    BY <1>1, <1>2, SMTT(30) DEF TypeOK
  <2>. QED  BY <2>1, <2>2, <2>3, <2>4 DEF TypeOK
<1>6. Live' = Live \cup {id}
  BY <1>2, <1>4 DEF Live
<1>7. /\ \A dd \in Deps : groups'[dd] = {j \in Ids : Queued(items'[j]) /\ items'[j].dep = dd}
      /\ parked' = {j \in Ids : items'[j].state = "parked"}
  <2>1. Reindex({id}, items')
    BY <1>1, <1>3, MoveFacts
  <2>. QED  BY <1>4, <2>1, ReindexMatches
<1>8. IndexMatchesRecords'
  <2>1. \A k \in Keys : byKey'[k] = {j \in Live' : KeyOf[j] = k}
    BY <1>1, <1>6 DEF IndexMatchesRecords
  <2>. QED  BY <1>7, <2>1 DEF IndexMatchesRecords
<1>9. \A j \in Ids : items[j].seq \in Nat /\ items[j].seq <= seq
  BY Typed DEF SeqInv
<1>10. SeqInv'
  <2>1. \A j \in Ids : items'[j].seq <= seq'
    <3>1. \A j \in Ids : j = id \/ items'[j].seq = items[j].seq
      BY <1>4
    <3>2. seq \in Nat /\ seq' = seq + 1 /\ items'[id].seq = seq + 1
      BY <1>1, <1>2, <1>4
    <3>. QED  BY ONLY <1>9, <3>1, <3>2, SMTT(30)
  <2>2. ASSUME NEW i \in Live', NEW j \in Live', items'[i].seq = items'[j].seq PROVE i = j
    <3>1. i \in Ids /\ j \in Ids
      BY DEF Live
    <3>2. CASE i = id
      BY <1>2, <1>4, <1>9, <2>2, <3>1, <3>2, SMTT(30)
    <3>3. CASE j = id
      BY <1>2, <1>4, <1>9, <2>2, <3>1, <3>3, SMTT(30)
    <3>4. CASE i # id /\ j # id
      BY <1>4, <1>6, <2>2, <3>1, <3>4 DEF SeqInv
    <3>. QED  BY <3>2, <3>3, <3>4
  <2>. QED  BY <2>1, <2>2 DEF SeqInv
<1>11. TokenInv'
  <2>1. items'[id].state # "leased"
    BY <1>2, <1>4
  <2>. QED  BY <1>1, <1>4, <2>1 DEF TokenInv
<1>12. ASSUME NEW j \in Ids, j # id PROVE IsHead(j)' <=> IsHead(j)
  <2>1. \A k \in Keys : byKey[k] \subseteq Ids
    BY DEF TypeOK
  <2>2. items[j].seq <= seq + 1
    <3>1. items[j].seq \in Nat /\ items[j].seq <= seq /\ seq \in Nat
      BY <1>2, <1>9
    <3>. QED  BY ONLY <3>1, SMTT(30)
  <2>3. \A k \in Keys : id \notin byKey[k]
    BY <1>1 DEF IndexMatchesRecords, Live
  <2>4. ASSUME NEW k \in Keys, k = KeyOf[j]
        PROVE  (\A x \in byKey'[k] : items'[j].seq <= items'[x].seq)
                 <=> (\A x \in byKey[k] : items[j].seq <= items[x].seq)
    BY <1>1, <1>4, <1>12, <2>1, <2>2, <2>3
  <2>. QED  BY <2>4 DEF IsHead
<1>13. LeasedHead'
  <2>1. items'[id].state # "leased"
    BY <1>2, <1>4
  <2>. QED  BY <1>4, <1>12, <2>1 DEF LeasedHead
<1>14. OutHeld'
  <2>1. SUFFICES ASSUME NEW j \in Ids, NEW m \in Out(j)', grants'[j][m].until > now'
                 PROVE  Held(j, m)'
    BY DEF OutHeld
  <2>2. m \in Out(j) /\ grants[j][m].until > now
    BY <1>1, <2>1 DEF Out
  <2>3. Held(j, m)
    BY <2>2 DEF OutHeld
  <2>4. j # id
    BY <1>1, <2>3 DEF Held
  <2>. QED  BY <1>4, <2>3, <2>4 DEF Held
<1>15. WakeInv'
  <2>1. SUFFICES ASSUME NEW dd \in Deps, NEW j \in groups'[dd], items'[j].res = Free, IsHead(j)'
                 PROVE  wake'[dd] <= Due(items'[j])
    BY DEF WakeInv
  <2>2. j \in Ids /\ Queued(items'[j]) /\ items'[j].dep = dd
    BY <1>7
  <2>3. /\ Due(items'[j]) \in Nat /\ wake'[dd] \in Nat /\ wake[dd] \in Nat
        /\ wake'[dd] <= wake[dd]
    <3>1. items'[j] \in Item /\ wake' \in [Deps -> Nat] /\ wake \in [Deps -> Nat]
      BY <1>5, <2>2 DEF TypeOK
    <3>2. Due(items'[j]) \in Nat
      BY ONLY <3>1, Zenon DEF Item, Due
    <3>3. wake'[dd] <= wake[dd]
      BY <1>1, <1>3, MoveFacts
    <3>. QED  BY ONLY <3>1, <3>2, <3>3, dd \in Deps, Zenon
  <2>4. CASE j = id
    <3>1. Queued(it) => wake'[it.dep] = 0
      BY <1>1, <1>3, MoveFacts
    <3>2. Queued(it) /\ it.dep = dd
      BY <1>3, <1>4, <2>2, <2>4 DEF Queued
    <3>. QED  BY ONLY <2>3, <3>1, <3>2, SMTT(30)
  <2>5. CASE j # id
    <3>1. items'[j] = items[j] /\ IsHead(j) /\ j \in groups[dd]
      BY <1>4, <1>12, <2>1, <2>2, <2>5 DEF IndexMatchesRecords
    <3>2. wake[dd] <= Due(items[j])
      BY <2>1, <3>1 DEF WakeInv
    <3>. QED  BY <2>3, <3>1, <3>2, SMTT(30)
  <2>. QED  BY <2>4, <2>5
<1>. QED  BY <1>5, <1>8, <1>10, <1>11, <1>13, <1>14, <1>15

-----------------------------------------------------------------------------
(* Wake times after a scan, when the unreserved items not in C are as before *)
(* and the groups of the items in C are cleared or C stays reserved.         *)
LEMMA ScanInv ==
  ASSUME IInv, NEW skip, NEW only, NEW C \in SUBSET Ids, byKey' = byKey,
         \A d \in Deps : groups'[d] \subseteq groups[d],
         \A j \in Ids : items'[j].seq = items[j].seq,
         \A j \in Ids \ C : items'[j] = items[j],
         \A j \in C : Queued(items[j]) =>
                        items'[j].res # Free \/ wake'[items[j].dep] <= Due(items'[j]),
         wake' \in [Deps -> Nat],
         \A d \in Deps : wake'[d] <= wake[d] \/ wake'[d] <= ScanWake(skip, only)[d]
  PROVE  WakeInv'
<1>. USE DEF IInv
<1>1. SUFFICES ASSUME NEW d \in Deps, NEW j \in groups[d], items'[j].res = Free, IsHead(j)'
               PROVE  wake'[d] <= Due(items'[j])
  BY DEF WakeInv
<1>2. j \in Ids /\ Queued(items[j]) /\ items[j].dep = d
  BY SMTT(30) DEF IndexMatchesRecords
<1>3. CASE j \in C
  BY <1>1, <1>2, <1>3
<1>4. CASE j \notin C
  <2>1. items'[j] = items[j] /\ IsHead(j)
    BY <1>1, <1>2, <1>4, HeadFrame
  <2>2. Due(items[j]) \in Nat /\ now \in Nat /\ wake[d] \in Nat /\ NextWake(d) \in Nat
    BY <1>2, Typed, NextWakeFacts DEF TypeOK
  <2>3. wake[d] <= Due(items[j])
    BY <1>1, <2>1 DEF WakeInv
  <2>4. CASE wake'[d] <= wake[d] \/ ScanWake(skip, only)[d] = wake[d]
    BY <2>1, <2>2, <2>3, <2>4, SMTT(30)
  <2>5. CASE /\ wake'[d] <= ScanWake(skip, only)[d]
             /\ ScanWake(skip, only)[d] = NextWake(d)
             /\ \A id \in groups[d] : ~Eligible(id, now)
    <3>1. ~(Due(items[j]) <= now)
      BY <1>1, <1>2, <2>1, <2>5 DEF Eligible, Ripe
    <3>2. NextWake(d) <= Due(items[j])
      BY <2>2, <3>1, NextWakeFacts, SMTT(30)
    <3>. QED  BY <2>1, <2>2, <2>5, <3>2, SMTT(30)
  <2>. QED  BY <2>4, <2>5, ScanWakeFacts, SMTT(30)
<1>. QED  BY <1>3, <1>4

(* The selection of WALStore.Lease, which reserves, preserves the invariant.    *)
LEMMA LeaseSelectInv ==
  ASSUME IInv, NEW w \in Callers, NEW skip, NEW only, NEW max, LeaseSelect(w, skip, only, max)
  PROVE  IInv'
<1>. USE DEF IInv
<1>. DEFINE S == SelectLease(skip, only, max)
<1>1. /\ items' = [id \in Ids |-> IF id \in S THEN Reserved(items[id], w) ELSE items[id]]
      /\ wake' = ScanWake(skip, only)
      /\ now' = now /\ seq' = seq /\ byKey' = byKey /\ groups' = groups /\ parked' = parked
      /\ counts' = counts /\ grants' = grants /\ base' = base
  BY DEF LeaseSelect
<1>. DEFINE C == S \cap Ids
<1>. HIDE DEF S
<1>2. \A j \in Ids : IF j \in S THEN items'[j] = Reserved(items[j], w) ELSE items'[j] = items[j]
  BY <1>1
<1>3. items' \in [Ids -> Item]
  BY <1>1, Typed, ReservedFacts
<1>4. wake' \in [Deps -> Nat]
  BY <1>1, ScanWakeFacts
<1>5. TypeOK'
  BY <1>1, <1>3, <1>4 DEF TypeOK
<1>6. \A j \in Ids : /\ items'[j].state = items[j].state /\ items'[j].seq = items[j].seq
                     /\ items'[j].dep = items[j].dep /\ items'[j].token = items[j].token
                     /\ items'[j].until = items[j].until
  BY <1>2, Typed, ReservedFacts, SMTT(30)
<1>7. \A j \in C : items'[j].res # Free
  BY <1>2, Typed, ReservedFacts, CallersAssumption, SMTT(30)
<1>8. /\ C \in SUBSET Ids
      /\ \A j \in Ids \ C : items'[j] = items[j]
      /\ \A d \in Deps : wake'[d] <= ScanWake(skip, only)[d]
  BY <1>1, <1>2, <1>4, SMTT(30)
<1>9. WakeInv'
  <2>. HIDE DEF C
  <2>. QED  BY <1>1, <1>4, <1>6, <1>7, <1>8, ScanInv
<1>10. now' >= now
  BY <1>1, SMTT(30) DEF TypeOK
<1>. QED  BY <1>1, <1>5, <1>6, <1>9, <1>10, StillInv

(* A step that neither replaces a record nor ends a lease except by losing   *)
(* it.                                                                       *)
Stable ==
  /\ \A j \in Live : items'[j].seq = items[j].seq
  /\ \A j \in Ids : \A m \in 1..Len(grants[j]) :
       grants'[j][m].status \in {grants[j][m].status, "lost"}

(* selectLease picks only eligible records.                                  *)
LEMMA SelectFacts ==
  ASSUME TypeOK, NEW skip, NEW only, NEW max
  PROVE  /\ SelectLease(skip, only, max) \in SUBSET Ids
         /\ \A j \in SelectLease(skip, only, max) : Eligible(j, now)
<1>. DEFINE E == {id \in UNION {groups[d] : d \in Considered(skip, only)} : Eligible(id, now)}
<1>1. SelectLease(skip, only, max) \subseteq E
  BY DEF SelectLease, Oldest
<1>2. \A d \in Considered(skip, only) : groups[d] \subseteq Ids
  BY DEF Considered, TypeOK
<1>3. E \subseteq Ids /\ \A j \in E : Eligible(j, now)
  BY <1>2
<1>. HIDE DEF E
<1>. QED  BY <1>1, <1>3

(* The records of G are leased and those of B parked, all of them ripe.      *)
LEMMA GrantInv ==
  ASSUME IInv, TypeOK', WakeInv', NEW G \in SUBSET Ids, NEW B \in SUBSET Ids, G \cap B = {},
         NEW ttl \in TTLs, GrantEffect(G, ttl), Reindex(G \cup B, items'),
         byKey' = byKey, seq' = seq, now' = now,
         \A j \in G \cup B : Ripe(j, now),
         \A j \in Ids : items'[j].seq = items[j].seq,
         \A j \in G : /\ items'[j].state = "leased" /\ items'[j].token = Len(grants[j]) + 1
                      /\ items'[j].until = now + ttl,
         \A j \in B : items'[j].state = "parked" /\ items'[j].token = 0,
         \A j \in Ids \ (G \cup B) :
           /\ items'[j].state = items[j].state /\ items'[j].dep = items[j].dep
           /\ items'[j].token = items[j].token /\ items'[j].until = items[j].until
  PROVE  IInv'
<1>. USE DEF IInv
<1>1. \A j \in G \cup B : Queued(items[j]) /\ Due(items[j]) <= now /\ IsHead(j)
  BY DEF Ripe
<1>2. \A j \in Ids : items'[j].state = "absent" <=> items[j].state = "absent"
  BY <1>1 DEF Queued
<1>3. SeqInv' /\ \A k \in Keys : byKey'[k] = {id \in Live' : KeyOf[id] = k}
  BY <1>2, RecordsFrame
<1>4. /\ \A d \in Deps : groups'[d] = {j \in Ids : Queued(items'[j]) /\ items'[j].dep = d}
      /\ parked' = {j \in Ids : items'[j].state = "parked"}
  <2>1. G \cup B \in SUBSET Ids
    OBVIOUS
  <2>. QED  BY <2>1, ReindexMatches
<1>5. IndexMatchesRecords'
  BY <1>3, <1>4 DEF IndexMatchesRecords
<1>6. /\ \A j \in Ids \ G : grants'[j] = grants[j]
      /\ \A j \in G :
           /\ Len(grants'[j]) = Len(grants[j]) + 1
           /\ \A m \in 1..Len(grants[j]) : grants'[j][m] = grants[j][m]
           /\ grants'[j][Len(grants[j]) + 1].seq = items[j].seq
           /\ grants'[j][Len(grants[j]) + 1].until = now + ttl
  BY DEF GrantEffect
<1>7. TokenInv'
  <2>1. ASSUME NEW j \in G
        PROVE  /\ items'[j].token = Len(grants'[j]) /\ items'[j].token > 0
               /\ grants'[j][Len(grants'[j])].seq = items'[j].seq
               /\ grants'[j][Len(grants'[j])].until = items'[j].until
    <3>1. Len(grants[j]) \in Nat
      BY Typed
    <3>. QED  BY <1>6, <3>1, SMTT(30)
  <2>2. ASSUME NEW j \in Ids \ (G \cup B), items'[j].state = "leased"
        PROVE  /\ items'[j].token = Len(grants'[j]) /\ items'[j].token > 0
               /\ grants'[j][Len(grants'[j])].seq = items'[j].seq
               /\ grants'[j][Len(grants'[j])].until = items'[j].until
    BY <1>6, <2>2, SMTT(30) DEF TokenInv
  <2>3. ASSUME NEW j \in Ids, items'[j].state # "leased" PROVE items'[j].token = 0
    BY <2>3 DEF TokenInv
  <2>4. \A j \in Ids : items'[j].state = "leased" => j \in G \/ j \in Ids \ (G \cup B)
    OBVIOUS
  <2>. QED  BY <2>1, <2>2, <2>3, <2>4 DEF TokenInv
<1>8. LeasedHead'
  <2>1. \A j \in Ids : IsHead(j)' <=> IsHead(j)
    BY HeadFrame
  <2>. QED  BY <1>1, <2>1 DEF LeasedHead
<1>9. OutHeld'
  <2>1. SUFFICES ASSUME NEW j \in Ids, NEW m \in Out(j)', grants'[j][m].until > now'
                 PROVE  Held(j, m)'
    BY DEF OutHeld
  <2>2. m \in 1..Len(grants'[j]) /\ grants'[j][m].status = "out" /\ Len(grants[j]) \in Nat
    BY Typed DEF Out
  <2>3. CASE j \in G /\ m = Len(grants[j]) + 1
    BY <2>3 DEF Held
  <2>4. CASE ~(j \in G /\ m = Len(grants[j]) + 1)
    <3>1. m \in 1..Len(grants[j]) /\ grants'[j][m] = grants[j][m]
      BY <1>6, <2>2, <2>4, SMTT(30)
    <3>2. m \in Out(j) /\ grants[j][m].until > now
      BY <2>1, <2>2, <3>1 DEF Out
    <3>3. Held(j, m)
      BY <3>2 DEF OutHeld
    <3>4. items[j].state = "leased" /\ items[j].token = m
          /\ items[j].until = grants[j][m].until
      BY <3>3, SMTT(30) DEF Held, TokenInv
    <3>5. j \notin G \cup B
      <4>1. items[j].until \in Nat /\ now \in Nat
        BY Typed DEF TypeOK
      <4>. QED  BY <1>1, <3>2, <3>4, <4>1, SMTT(30) DEF Due
    <3>. QED  BY <3>4, <3>5 DEF Held
  <2>. QED  BY <2>3, <2>4
<1>. QED  BY <1>3, <1>5, <1>7, <1>8, <1>9

(* MemoryStore.Lease preserves the invariant.                                   *)
LEMMA LeaseAtomicInv ==
  ASSUME IInv, NEW skip, NEW only, NEW max, NEW ttl \in TTLs,
         LeaseAtomic(skip, only, max, ttl)
  PROVE  IInv' /\ Stable
<1>. DEFINE S == SelectLease(skip, only, max)
<1>1. /\ items' = [id \in Ids |-> IF id \in S
                                  THEN Granted(items[id], Len(grants[id]) + 1, now + ttl)
                                  ELSE items[id]]
      /\ Reindex(S, items')
      /\ wake' = Clear(DepsOf(S, items), ScanWake(skip, only))
      /\ NoteGrants(S, ttl, "out")
      /\ UNCHANGED <<now, seq, byKey, bytes, base>>
  BY DEF LeaseAtomic
<1>2. TypeOK /\ IndexMatchesRecords
  BY DEF IInv
<1>3. S \in SUBSET Ids /\ \A j \in S : Ripe(j, now)
  BY <1>2, SelectFacts DEF Eligible
<1>4. GrantEffect(S, ttl)
  <2>1. "out" \in Outcomes
    BY DEF Outcomes
  <2>. HIDE DEF S
  <2>. QED  BY <1>1, <1>2, <1>3, <2>1, GrantFacts
<1>5. now + ttl \in Nat
  BY <1>2, TimesAssumption, SMTT(30) DEF TypeOK
<1>. HIDE DEF S
<1>6. ASSUME NEW j \in S
      PROVE  /\ items'[j] \in Item /\ items'[j].state = "leased" /\ items'[j].seq = items[j].seq
             /\ items'[j].dep = items[j].dep /\ items'[j].token = Len(grants[j]) + 1
             /\ items'[j].until = now + ttl
  <2>. DEFINE k == Len(grants[j]) + 1
              v == now + ttl
              u == items[j]
  <2>1. j \in Ids
    BY <1>3
  <2>2. u \in Item /\ Len(grants[j]) \in Nat
    BY <1>2, <2>1, Typed
  <2>3. items'[j] = Granted(u, k, v) /\ k \in Nat /\ v \in Nat
    BY <1>1, <1>5, <2>1, <2>2, SMTT(30)
  <2>4. /\ items'[j] \in Item /\ items'[j].state = "leased" /\ items'[j].seq = u.seq
        /\ items'[j].dep = u.dep /\ items'[j].token = k /\ items'[j].until = v
    <3>. HIDE DEF k, v, u
    <3>. QED  BY ONLY <2>2, <2>3, GrantedFacts, SMTT(30)
  <2>. QED  BY <2>4
<1>7. /\ \A j \in Ids \ S : items'[j] = items[j]
      /\ \A j \in Ids : items'[j].seq = items[j].seq
  BY <1>1, <1>6
<1>8. TypeOK'
  <2>1. items' \in [Ids -> Item]
    BY <1>1, <1>2, <1>6, <1>7 DEF TypeOK
  <2>2. /\ groups' \in [Deps -> SUBSET Ids] /\ parked' \in SUBSET Ids
    BY <1>1, <1>2, <1>3, ReindexType
  <2>3. wake' \in [Deps -> Nat]
    BY <1>1, <1>2, ScanWakeFacts, ClearFacts
  <2>4. grants' \in [Ids -> Seq(Lease)]
    BY <1>4 DEF GrantEffect
  <2>. QED  BY <1>1, <1>2, <2>1, <2>2, <2>3, <2>4 DEF TypeOK
<1>9. \A d \in Deps : groups'[d] \subseteq groups[d]
  <2>1. \A d \in Deps : groups'[d] = {j \in Ids : Queued(items'[j]) /\ items'[j].dep = d}
    BY <1>1, <1>2, <1>3, <1>7, ReindexMatches
  <2>2. \A j \in S : Queued(items[j]) /\ items'[j].dep = items[j].dep
    BY <1>3, <1>6 DEF Ripe
  <2>3. \A j \in Ids : Queued(items'[j]) => Queued(items[j]) /\ items'[j].dep = items[j].dep
    BY <1>7, <2>2
  <2>4. \A d \in Deps : groups[d] = {j \in Ids : Queued(items[j]) /\ items[j].dep = d}
    BY <1>2 DEF IndexMatchesRecords
  <2>5. ASSUME NEW d \in Deps, NEW j \in groups'[d] PROVE j \in groups[d]
    <3>1. j \in Ids /\ Queued(items'[j]) /\ items'[j].dep = d
      BY <2>1
    <3>2. j \in Ids /\ Queued(items[j]) /\ items[j].dep = d
      BY <2>3, <3>1
    <3>. QED  BY <2>4, <3>2
  <2>. QED  BY <2>5
<1>10. WakeInv'
  <2>1. ASSUME NEW j \in S PROVE wake'[items[j].dep] = 0 /\ 0 <= Due(items'[j])
    <3>1. items[j].dep \in Deps /\ items[j].dep \in DepsOf(S, items)
      <4>1. items[j].dep \in Deps /\ Queued(items[j])
        BY <1>2, <1>3, Typed DEF Ripe
      <4>. QED  BY <4>1 DEF DepsOf
    <3>2. ScanWake(skip, only) \in [Deps -> Nat]
      BY <1>2, ScanWakeFacts
    <3>3. wake'[items[j].dep] = 0
      BY <1>1, <3>1, <3>2, ClearFacts
    <3>4. Due(items'[j]) = now + ttl
      BY <1>6 DEF Due
    <3>. QED  BY <1>5, <3>3, <3>4, SMTT(30)
  <2>2. \A d \in Deps : wake'[d] <= ScanWake(skip, only)[d]
    BY <1>1, <1>2, ScanWakeFacts, ClearFacts
  <2>3. wake' \in [Deps -> Nat] /\ byKey' = byKey
    BY <1>1, <1>8 DEF TypeOK
  <2>4. \A j \in S : Queued(items[j]) =>
                       items'[j].res # Free \/ wake'[items[j].dep] <= Due(items'[j])
    BY <2>1
  <2>. QED  BY <1>3, <1>7, <1>9, <2>2, <2>3, <2>4, ScanInv
<1>. DEFINE B == {}
<1>11. S \cup B = S /\ S \cap B = {} /\ B \in SUBSET Ids
  OBVIOUS
<1>12. Reindex(S \cup B, items')
  BY <1>1, <1>11
<1>13. /\ \A j \in S \cup B : Ripe(j, now)
       /\ \A j \in S : /\ items'[j].state = "leased" /\ items'[j].token = Len(grants[j]) + 1
                       /\ items'[j].until = now + ttl
       /\ \A j \in B : items'[j].state = "parked" /\ items'[j].token = 0
       /\ \A j \in Ids \ (S \cup B) :
           /\ items'[j].state = items[j].state /\ items'[j].dep = items[j].dep
           /\ items'[j].token = items[j].token /\ items'[j].until = items[j].until
  BY <1>3, <1>6, <1>7
<1>14. byKey' = byKey /\ seq' = seq /\ now' = now
  BY <1>1
<1>15. IInv'
  <2>. HIDE DEF B
  <2>1. S \in SUBSET Ids /\ \A j \in Ids : items'[j].seq = items[j].seq
    BY <1>3, <1>7
  <2>. QED  BY ONLY IInv, ttl \in TTLs, <1>4, <1>8, <1>10, <1>11, <1>12, <1>13, <1>14, <2>1,
                    GrantInv, ZenonT(30)
<1>16. Stable
  BY <1>4, <1>7 DEF Stable, Live, GrantEffect
<1>. QED  BY <1>15, <1>16

-----------------------------------------------------------------------------
(* commitLease, unreadable payloads parked, preserves the invariant.            *)
LEMMA LeaseCommitInv ==
  ASSUME IInv, NEW w \in Callers, NEW ok, NEW bad, NEW e \in Errs, NEW ttl \in TTLs,
         NEW delivered, LeaseCommit(w, ok, bad, e, ttl, delivered)
  PROVE  IInv' /\ Stable
<1>. DEFINE C == Candidates(w)
            o == IF delivered THEN "out" ELSE "lost"
            U(id) == Unreserved(items[id])
            After(id) == IF id \in ok THEN Granted(U(id), Len(grants[id]) + 1, now + ttl)
                         ELSE IF id \in bad THEN Parked(U(id), e)
                         ELSE U(id)
<1>1. /\ items' = [id \in Ids |-> IF id \in C THEN After(id) ELSE items[id]]
      /\ ok \cup bad \subseteq {id \in C : StillAsRead(id)}
      /\ ok \cap bad = {}
      /\ Reindex(ok \cup bad, items')
      /\ wake' = Clear(DepsOf(C, items), wake)
      /\ NoteGrants(ok, ttl, o)
      /\ UNCHANGED <<now, seq, byKey, base>>
  BY DEF LeaseCommit
<1>2. TypeOK /\ IndexMatchesRecords
  BY DEF IInv
<1>3. /\ C \in SUBSET Ids
      /\ ok \in SUBSET Ids /\ bad \in SUBSET Ids /\ ok \cup bad \in SUBSET Ids
      /\ ok \subseteq C /\ bad \subseteq C
      /\ \A j \in ok \cup bad : Ripe(j, now)
  BY <1>1 DEF Candidates, StillAsRead
<1>4. GrantEffect(ok, ttl)
  <2>1. o \in Outcomes
    BY DEF Outcomes
  <2>. HIDE DEF o
  <2>2. NoteGrants(ok, ttl, o)
    BY <1>1
  <2>. QED  BY <1>2, <1>3, <2>1, <2>2, GrantFacts
<1>5. now + ttl \in Nat /\ e \in Nat
  BY <1>2, TimesAssumption, SizesAssumption, SMTT(30) DEF TypeOK
<1>. HIDE DEF C, o
<1>6. ASSUME NEW j \in Ids
      PROVE  /\ U(j) \in Item /\ U(j).state = items[j].state /\ U(j).seq = items[j].seq
             /\ U(j).dep = items[j].dep /\ U(j).token = items[j].token
             /\ U(j).until = items[j].until
             /\ Len(grants[j]) + 1 \in Nat
  <2>1. items[j] \in Item /\ Len(grants[j]) + 1 \in Nat
    BY <1>2, Typed, SMTT(30)
  <2>. QED  BY <2>1, UnreservedFacts
<1>. HIDE DEF U
<1>7. ASSUME NEW j \in ok
      PROVE  /\ items'[j] \in Item /\ items'[j].state = "leased" /\ items'[j].seq = items[j].seq
             /\ items'[j].dep = items[j].dep /\ items'[j].token = Len(grants[j]) + 1
             /\ items'[j].until = now + ttl
  <2>1. items'[j] = Granted(U(j), Len(grants[j]) + 1, now + ttl) /\ j \in Ids
    BY <1>1, <1>3
  <2>2. /\ U(j) \in Item /\ U(j).seq = items[j].seq /\ U(j).dep = items[j].dep
        /\ Len(grants[j]) + 1 \in Nat
    BY <1>6, <2>1
  <2>. DEFINE u == U(j)
              v == now + ttl
              k == Len(grants[j]) + 1
  <2>3. /\ items'[j] = Granted(u, k, v) /\ u \in Item /\ k \in Nat /\ v \in Nat
        /\ u.seq = items[j].seq /\ u.dep = items[j].dep
    BY <1>5, <2>1, <2>2
  <2>4. /\ items'[j] \in Item /\ items'[j].state = "leased" /\ items'[j].seq = items[j].seq
        /\ items'[j].dep = items[j].dep /\ items'[j].token = k /\ items'[j].until = v
    <3>. HIDE DEF u, v, k
    <3>. QED  BY ONLY <2>3, GrantedFacts, SMTT(30)
  <2>. QED  BY <2>4
<1>8. ASSUME NEW j \in bad
      PROVE  /\ items'[j] \in Item /\ items'[j].state = "parked"
             /\ items'[j].seq = items[j].seq /\ items'[j].token = 0
  <2>1. items'[j] = Parked(U(j), e) /\ j \in Ids
    BY <1>1, <1>3
  <2>. DEFINE u == U(j)
  <2>2. u \in Item /\ u.seq = items[j].seq /\ items'[j] = Parked(u, e) /\ e \in Nat
    BY <1>5, <1>6, <2>1
  <2>. HIDE DEF u
  <2>. QED  BY ONLY <2>2, ParkedFacts, SMTT(30)
<1>9. ASSUME NEW j \in Ids \ (ok \cup bad)
      PROVE  /\ items'[j] \in Item /\ items'[j].state = items[j].state
             /\ items'[j].seq = items[j].seq /\ items'[j].dep = items[j].dep
             /\ items'[j].token = items[j].token /\ items'[j].until = items[j].until
  <2>1. CASE j \in C
    <3>1. items'[j] = U(j)
      BY <1>1, <2>1
    <3>. QED  BY <1>6, <3>1
  <2>2. CASE j \notin C
    BY <1>1, <1>2, <2>2 DEF TypeOK
  <2>. QED  BY <2>1, <2>2
<1>10. /\ \A j \in Ids \ C : items'[j] = items[j]
       /\ \A j \in Ids : items'[j].seq = items[j].seq /\ items'[j] \in Item
  BY <1>1, <1>7, <1>8, <1>9
<1>. HIDE DEF After
<1>11. TypeOK'
  <2>1. items' \in [Ids -> Item]
    BY <1>1, <1>10
  <2>2. /\ groups' \in [Deps -> SUBSET Ids] /\ parked' \in SUBSET Ids
    BY <1>1, <1>2, <1>3, ReindexType
  <2>3. wake \in [Deps -> Nat]
    BY <1>2 DEF TypeOK
  <2>4. wake' \in [Deps -> Nat]
    BY <1>1, <2>3, ClearFacts
  <2>5. grants' \in [Ids -> Seq(Lease)]
    BY <1>4 DEF GrantEffect
  <2>. QED  BY <1>1, <1>2, <2>1, <2>2, <2>4, <2>5 DEF TypeOK
<1>12. \A d \in Deps : groups'[d] \subseteq groups[d]
  <2>1. \A d \in Deps : groups'[d] = {j \in Ids : Queued(items'[j]) /\ items'[j].dep = d}
    BY <1>1, <1>2, <1>3, <1>9, ReindexMatches
  <2>2. ASSUME NEW j \in Ids, Queued(items'[j])
        PROVE  Queued(items[j]) /\ items'[j].dep = items[j].dep
    <3>1. CASE j \in ok
      BY <1>3, <1>7, <3>1 DEF Ripe
    <3>2. CASE j \in bad
      BY <1>8, <2>2, <3>2 DEF Queued
    <3>3. CASE j \in Ids \ (ok \cup bad)
      BY <1>9, <2>2, <3>3 DEF Queued
    <3>. QED  BY <3>1, <3>2, <3>3
  <2>3. \A d \in Deps : groups[d] = {j \in Ids : Queued(items[j]) /\ items[j].dep = d}
    BY <1>2 DEF IndexMatchesRecords
  <2>4. ASSUME NEW d \in Deps, NEW j \in groups'[d] PROVE j \in groups[d]
    <3>1. j \in Ids /\ Queued(items'[j]) /\ items'[j].dep = d
      BY <2>1
    <3>2. j \in Ids /\ Queued(items[j]) /\ items[j].dep = d
      BY <2>2, <3>1
    <3>. QED  BY <2>3, <3>2
  <2>. QED  BY <2>4
<1>13. WakeInv'
  <2>1. ASSUME NEW j \in C, Queued(items[j])
        PROVE  wake'[items[j].dep] = 0 /\ Due(items'[j]) \in Nat
    <3>1. items[j].dep \in Deps /\ items[j].dep \in DepsOf(C, items)
      <4>1. items[j].dep \in Deps
        BY <1>2, <1>3, Typed
      <4>. QED  BY <2>1, <4>1 DEF DepsOf
    <3>2. wake'[items[j].dep] = 0
      BY <1>1, <3>1 DEF Clear
    <3>3. Due(items'[j]) \in Nat
      BY <1>3, <1>10 DEF Due, Item
    <3>. QED  BY <3>2, <3>3
  <2>2. wake' \in [Deps -> Nat] /\ byKey' = byKey /\ wake \in [Deps -> Nat]
    BY <1>1, <1>2, <1>11 DEF TypeOK
  <2>3. \A d \in Deps : wake'[d] <= wake[d]
    BY <1>1, <2>2, ClearFacts
  <2>4. ASSUME NEW j \in C, Queued(items[j])
        PROVE  wake'[items[j].dep] <= Due(items'[j])
    <3>1. wake'[items[j].dep] = 0 /\ Due(items'[j]) \in Nat
      BY <2>1, <2>4
    <3>2. 0 <= Due(items'[j])
      BY <3>1, SMTT(30)
    <3>. QED  BY <3>1, <3>2
  <2>. QED  BY <1>3, <1>10, <1>12, <2>2, <2>3, <2>4, ScanInv
<1>14. /\ \A j \in ok : /\ items'[j].state = "leased" /\ items'[j].token = Len(grants[j]) + 1
                        /\ items'[j].until = now + ttl
       /\ \A j \in bad : items'[j].state = "parked" /\ items'[j].token = 0
       /\ \A j \in Ids \ (ok \cup bad) :
           /\ items'[j].state = items[j].state /\ items'[j].dep = items[j].dep
           /\ items'[j].token = items[j].token /\ items'[j].until = items[j].until
  BY <1>7, <1>8, <1>9
<1>15. /\ byKey' = byKey /\ seq' = seq /\ now' = now
       /\ ok \cap bad = {} /\ Reindex(ok \cup bad, items')
       /\ \A j \in Ids : items'[j].seq = items[j].seq
  BY <1>1, <1>10
<1>16. IInv'
  BY <1>3, <1>4, <1>11, <1>13, <1>14, <1>15, GrantInv
<1>17. Stable
  BY <1>4, <1>15 DEF Stable, Live, GrantEffect
<1>. QED  BY <1>16, <1>17

(* Recovery: every lease is gone and every wake time unknown.                *)
LEMMA RestartInv ==
  ASSUME IInv, Restart
  PROVE  IInv' /\ Stable
<1>. DEFINE new == [id \in Ids |-> Recovered(items[id])]
<1>1. /\ items' = new
      /\ Reindex(Live, items')
      /\ wake' = [d \in Deps |-> 0]
      /\ grants' = [id \in Ids |-> [n \in 1..Len(grants[id]) |->
                      [grants[id][n] EXCEPT !.status = IF @ = "out" THEN "lost" ELSE @]]]
      /\ now' = now /\ seq' = seq /\ byKey' = byKey /\ base' = base
  BY DEF Restart
<1>2. TypeOK /\ IndexMatchesRecords
  BY DEF IInv
<1>3. ASSUME NEW j \in Ids
      PROVE  /\ items'[j] \in Item /\ items'[j].seq = items[j].seq /\ items'[j].token = 0
             /\ items'[j].state = IF items[j].state = "leased" THEN "pending" ELSE items[j].state
             /\ items'[j].dep = items[j].dep
  <2>1. items[j] \in Item
    BY <1>2, Typed
  <2>2. items'[j] = Recovered(items[j])
    BY <1>1
  <2>3. Recovered(items[j]).dep = items[j].dep
    BY <2>1 DEF Recovered, Item
  <2>. QED  BY <2>1, <2>2, <2>3, RecoveredFacts
<1>4. ASSUME NEW j \in Ids
      PROVE  /\ grants'[j] \in Seq(Lease) /\ Len(grants'[j]) = Len(grants[j])
             /\ \A n \in 1..Len(grants[j]) : /\ grants'[j][n].status # "out"
                                             /\ grants'[j][n].status \in {grants[j][n].status, "lost"}
  <2>. DEFINE f(n) == [grants[j][n] EXCEPT !.status = IF @ = "out" THEN "lost" ELSE @]
  <2>1. Len(grants[j]) \in Nat /\ \A n \in 1..Len(grants[j]) : grants[j][n] \in Lease
    BY <1>2, Typed
  <2>2. ASSUME NEW l \in Lease
        PROVE  /\ [l EXCEPT !.status = IF @ = "out" THEN "lost" ELSE @] \in Lease
               /\ [l EXCEPT !.status = IF @ = "out" THEN "lost" ELSE @].status # "out"
               /\ [l EXCEPT !.status = IF @ = "out" THEN "lost" ELSE @].status \in {l.status, "lost"}
    BY DEF Lease, Outcomes
  <2>3. \A n \in 1..Len(grants[j]) : /\ f(n) \in Lease /\ f(n).status # "out"
                                     /\ f(n).status \in {grants[j][n].status, "lost"}
    BY <2>1, <2>2
  <2>4. grants'[j] = [n \in 1..Len(grants[j]) |-> f(n)]
    BY <1>1
  <2>. HIDE DEF f
  <2>. QED  BY <2>1, <2>3, <2>4, SMTT(30)
<1>5. items' \in [Ids -> Item]
  BY <1>1, <1>3
<1>6. grants' \in [Ids -> Seq(Lease)]
  BY <1>1, <1>4
<1>. HIDE DEF new
<1>7. Live \in SUBSET Ids
  BY DEF Live
<1>8. TypeOK'
  <2>1. /\ groups' \in [Deps -> SUBSET Ids] /\ parked' \in SUBSET Ids
    BY <1>1, <1>2, <1>7, ReindexType
  <2>2. wake' \in [Deps -> Nat]
    BY <1>1
  <2>. QED  BY <1>1, <1>2, <1>5, <1>6, <2>1, <2>2 DEF TypeOK
<1>9. \A j \in Ids : items'[j].state = "absent" <=> items[j].state = "absent"
  BY <1>3
<1>10. SeqInv' /\ \A k \in Keys : byKey'[k] = {id \in Live' : KeyOf[id] = k}
  BY <1>1, <1>3, <1>9, RecordsFrame
<1>11. IndexMatchesRecords'
  <2>1. \A j \in Ids \ Live : items'[j].state = items[j].state /\ items'[j].dep = items[j].dep
    BY <1>3 DEF Live
  <2>2. Reindex(Live, items')
    BY <1>1
  <2>3. /\ \A d \in Deps : groups'[d] = {id \in Ids : Queued(items'[id]) /\ items'[id].dep = d}
        /\ parked' = {id \in Ids : items'[id].state = "parked"}
    BY <1>2, <1>7, <2>1, <2>2, ReindexMatches
  <2>. QED  BY <1>10, <2>3 DEF IndexMatchesRecords
<1>12. \A j \in Ids : items'[j].state # "leased"
  BY <1>3
<1>13. TokenInv' /\ LeasedHead'
  BY <1>3, <1>12 DEF TokenInv, LeasedHead
<1>14. OutHeld'
  BY <1>4 DEF OutHeld, Out
<1>15. WakeInv'
  <2>1. \A d \in Deps : groups'[d] \subseteq Ids /\ wake'[d] = 0
    BY <1>1, <1>8 DEF TypeOK
  <2>2. \A j \in Ids : Due(items'[j]) \in Nat
    BY <1>3 DEF Due, Item
  <2>. QED  BY <2>1, <2>2, SMTT(30) DEF WakeInv
<1>16. Stable
  BY <1>3, <1>4 DEF Stable, Live
<1>. QED  BY <1>8, <1>10, <1>11, <1>13, <1>14, <1>15, <1>16 DEF IInv

-----------------------------------------------------------------------------
(* newMachine: an empty machine satisfies the invariant.                        *)
LEMMA InitInv ==
  ASSUME Init
  PROVE  IInv
<1>. USE DEF Init
<1>1. NoItem \in Item
  BY DepsAssumption DEF NoItem, Item, States
<1>2. TypeOK
  BY <1>1, SMTT(30) DEF TypeOK
<1>3. \A id \in Ids : items[id].state = "absent" /\ items[id].seq = 0 /\ items[id].token = 0
  BY DEF NoItem
<1>4. IndexMatchesRecords
  BY <1>3 DEF IndexMatchesRecords, Queued, Live
<1>5. SeqInv /\ TokenInv /\ LeasedHead
  BY <1>3, SMTT(30) DEF SeqInv, TokenInv, LeasedHead, Live
<1>6. OutHeld /\ WakeInv
  BY SMTT(30) DEF OutHeld, Out, WakeInv
<1>. QED  BY <1>2, <1>4, <1>5, <1>6 DEF IInv

-----------------------------------------------------------------------------
(* The theorems.                                                             *)

WorkerCall(id, n) ==
  \/ \E c \in Ckpts : Checkpoint(id, n, c)
  \/ Ack(id, n)
  \/ \E delay \in Delays, d \in Deps, refund \in BOOLEAN, e \in Errs :
       Nack(id, n, delay, d, refund, e)
  \/ Release(id, n)
  \/ \E e \in Errs : Park(id, n, e)
  \/ LeaseLost(id, n)

(* Every step of the store preserves the inductive invariant.                *)
LEMMA NextInv ==
  ASSUME IInv, [Next]_vars
  PROVE  IInv'
<1>1. CASE Tick
  BY <1>1, TickInv
<1>2. CASE Restart
  BY <1>2, RestartInv
<1>3. CASE Producer
  BY <1>3, AppendInv DEF Producer
<1>4. CASE Poller
  <2>1. PICK skip, only, max : \/ \E ttl \in TTLs : LeaseAtomic(skip, only, max, ttl)
                               \/ \E w \in Callers : LeaseSelect(w, skip, only, max)
    BY <1>4 DEF Poller
  <2>2. CASE \E ttl \in TTLs : LeaseAtomic(skip, only, max, ttl)
    BY <2>2, LeaseAtomicInv
  <2>3. CASE \E w \in Callers : LeaseSelect(w, skip, only, max)
    BY <2>3, LeaseSelectInv
  <2>. QED  BY <2>1, <2>2, <2>3
<1>5. CASE Committer
  BY <1>5, LeaseCommitInv DEF Committer
<1>6. CASE Worker
  <2>0. PICK id \in Ids : \E n \in 1..Len(grants[id]) : WorkerCall(id, n)
    BY <1>6 DEF Worker, WorkerCall
  <2>1. PICK n : WorkerCall(id, n)
    BY <2>0
  <2>2. CASE \E c \in Ckpts : Checkpoint(id, n, c)
    BY <2>2, CheckpointInv
  <2>3. CASE Ack(id, n)
    BY <2>3, AckInv
  <2>4. CASE \/ \E delay \in Delays, d \in Deps, refund \in BOOLEAN, e \in Errs :
                  Nack(id, n, delay, d, refund, e)
             \/ Release(id, n)
             \/ \E e \in Errs : Park(id, n, e)
    <3>1. TypeOK
      BY DEF IInv
    <3>2. PICK it \in Item, o \in Outcomes \ {"out"} : EndStep(id, n, it, o)
      BY <2>4, <3>1, EndSteps
    <3>. QED  BY <3>2, EndStepInv
  <2>5. CASE LeaseLost(id, n)
    BY <2>5, LeaseLostInv
  <2>. QED  BY <2>1, <2>2, <2>3, <2>4, <2>5 DEF WorkerCall
<1>7. CASE Operator
  <2>1. PICK id \in Ids : \/ \E replace \in BOOLEAN, c \in Ckpts : Requeue(id, replace, c)
                          \/ Discard(id)
    BY <1>7 DEF Operator
  <2>2. CASE \E replace \in BOOLEAN, c \in Ckpts : Requeue(id, replace, c)
    BY <2>2, RequeueInv
  <2>3. CASE Discard(id)
    BY <2>3, DiscardInv
  <2>. QED  BY <2>1, <2>2, <2>3
<1>8. CASE UNCHANGED vars
  BY <1>8, SMTT(30) DEF IInv, TypeOK, IndexMatchesRecords, SeqInv, TokenInv, LeasedHead, OutHeld,
              WakeInv, Live, IsHead, Out, Held, vars
<1>. QED  BY <1>1, <1>2, <1>3, <1>4, <1>5, <1>6, <1>7, <1>8 DEF Next

(* The order of the naturals is total.                                       *)
LEMMA NatAbove == \A x, y \in Nat : ~(x <= y) => x > y
BY SMTT(30)

(* Every state that the operations of the two stores reach satisfies the
   inductive invariant: the fact the theorems below rest on.                     *)
THEOREM Inductive == Spec => []IInv
<1>1. Init => IInv
  BY InitInv
<1>2. IInv /\ [Next]_vars => IInv'
  BY NextInv
<1>. QED  BY <1>1, <1>2, PTL DEF Spec

(* Type correctness, for any ids, keys, dependencies, limits and callers.    *)
THEOREM TypeCorrect == Spec => []TypeOK
<1>1. IInv => TypeOK
  BY DEF IInv
<1>. QED  BY <1>1, Inductive, PTL

(* link, unlink, move and remove never leave a record in a wrong group, in   *)
(* the parked list by mistake, or missing from its order key's list.         *)
THEOREM IndexCorrect == Spec => []IndexMatchesRecords
<1>1. IInv => IndexMatchesRecords
  BY DEF IInv
<1>. QED  BY <1>1, Inductive, PTL

-----------------------------------------------------------------------------
(* scanGroup's cached wake time never makes selectLease pass over a group    *)
(* that holds an eligible record.                                            *)
THEOREM WakeCorrect == Spec => []WakeHidesNothing
<1>1. ASSUME IInv PROVE WakeHidesNothing
  <2>1. SUFFICES ASSUME NEW d \in Deps, wake[d] > now, NEW id \in groups[d], Eligible(id, now)
                 PROVE  FALSE
    BY DEF WakeHidesNothing
  <2>2. id \in Ids /\ wake[d] \in Nat /\ now \in Nat
    BY <1>1 DEF IInv, TypeOK
  <2>3. Due(items[id]) \in Nat
    BY <1>1, <2>2, Typed DEF IInv
  <2>4. wake[d] <= Due(items[id]) /\ Due(items[id]) <= now
    BY <1>1, <2>1, <2>2 DEF IInv, WakeInv, Eligible, Ripe
  <2>. QED  BY <2>1, <2>2, <2>3, <2>4, SMTT(30)
<1>2. IInv => WakeHidesNothing
  BY <1>1
<1>. QED  BY <1>2, Inductive, PTL

(* Mutual exclusion: no two workers are inside unexpired leases on one       *)
(* record or on two records of one order key, in either store.               *)
THEOREM MutualExclusion == Spec => []OneWorkerPerKey
<1>1. ASSUME IInv PROVE OneWorkerPerKey
  <2>1. SUFFICES ASSUME NEW i \in Ids, NEW j \in Ids, NEW m \in Out(i), NEW n \in Out(j),
                        <<i, m>> # <<j, n>>,
                        i = j \/ (KeyOf[i] = KeyOf[j] /\ KeyOf[i] \in Keys),
                        ~(grants[i][m].until <= now), ~(grants[j][n].until <= now)
                 PROVE  FALSE
    BY SMTT(30) DEF OneWorkerPerKey
  <2>2. /\ grants[i][m].until \in Nat /\ grants[j][n].until \in Nat /\ now \in Nat
    BY <1>1, Typed DEF IInv, TypeOK, Out
  <2>3. Held(i, m) /\ Held(j, n)
    <3>1. grants[i][m].until > now /\ grants[j][n].until > now
      BY <2>1, <2>2, NatAbove
    <3>2. OutHeld
      BY <1>1 DEF IInv
    <3>. QED  BY <2>1, <3>1, <3>2 DEF OutHeld
  <2>4. i # j
    BY <2>1, <2>3 DEF Held
  <2>5. /\ items[i].state = "leased" /\ items[j].state = "leased"
        /\ IsHead(i) /\ IsHead(j)
    BY <1>1, <2>3 DEF IInv, LeasedHead, Held
  <2>6. i \in byKey[KeyOf[i]] /\ j \in byKey[KeyOf[i]]
    BY <1>1, <2>1, <2>4, <2>5 DEF IInv, IndexMatchesRecords, Live
  <2>7. items[i].seq <= items[j].seq /\ items[j].seq <= items[i].seq
    BY <2>1, <2>4, <2>5, <2>6 DEF IsHead
  <2>8. items[i].seq \in Nat /\ items[j].seq \in Nat
    BY <1>1, Typed DEF IInv
  <2>9. items[i].seq = items[j].seq
    BY <2>7, <2>8, SMTT(30)
  <2>. QED  BY <1>1, <2>4, <2>5, <2>9 DEF IInv, SeqInv, Live
<1>2. IInv => OneWorkerPerKey
  BY <1>1
<1>. QED  BY <1>2, Inductive, PTL

(* Every step but Ack, Nack, Release, Park and Discard is Stable.            *)
LEMMA StableSteps ==
  ASSUME IInv, Next
  PROVE  \/ Stable
         \/ \E id \in Ids : \E n : Ack(id, n)
         \/ \E id \in Ids : Discard(id)
         \/ \E id \in Ids : \E n : \E it \in Item, o \in Outcomes \ {"out"} : EndStep(id, n, it, o)
<1>. DEFINE Same == /\ \A j \in Live : items'[j].seq = items[j].seq
                    /\ grants' = grants
<1>0. Same => Stable
  BY DEF Stable
<1>1. TypeOK
  BY DEF IInv
<1>2. CASE Tick
  BY <1>0, <1>2 DEF Tick
<1>3. CASE Restart
  BY <1>3, RestartInv
<1>4. CASE Producer
  <2>1. PICK id \in Ids, st \in Births, d \in Deps, c \in Ckpts, e \in Errs :
          AppendRecord(id, st, d, c, e)
    BY <1>4 DEF Producer
  <2>2. id \notin Live /\ grants' = grants /\ Move(id, Born(st, d, c, e))
    BY <2>1 DEF AppendRecord, Live
  <2>3. \A j \in Live : items'[j] = items[j]
    BY <1>1, <2>2 DEF Move, TypeOK, Live
  <2>. QED  BY <1>0, <2>2, <2>3
<1>5. CASE Poller
  <2>1. PICK skip, only, max : \/ \E ttl \in TTLs : LeaseAtomic(skip, only, max, ttl)
                               \/ \E w \in Callers : LeaseSelect(w, skip, only, max)
    BY <1>5 DEF Poller
  <2>2. CASE \E ttl \in TTLs : LeaseAtomic(skip, only, max, ttl)
    BY <2>2, LeaseAtomicInv
  <2>3. ASSUME NEW w \in Callers, LeaseSelect(w, skip, only, max) PROVE Stable
    <3>1. \A j \in Ids : Reserved(items[j], w).seq = items[j].seq
      BY <1>1, Typed, ReservedFacts
    <3>2. \A j \in Ids : items'[j] = items[j] \/ items'[j] = Reserved(items[j], w)
      BY <2>3 DEF LeaseSelect
    <3>3. grants' = grants
      BY <2>3 DEF LeaseSelect
    <3>. QED  BY <1>0, <3>1, <3>2, <3>3 DEF Live
  <2>. QED  BY <2>1, <2>2, <2>3
<1>6. CASE Committer
  BY <1>6, LeaseCommitInv DEF Committer
<1>7. CASE Worker
  <2>0. PICK id \in Ids : \E n \in 1..Len(grants[id]) : WorkerCall(id, n)
    BY <1>7 DEF Worker, WorkerCall
  <2>1. PICK n : WorkerCall(id, n)
    BY <2>0
  <2>2. ASSUME NEW c \in Ckpts, Checkpoint(id, n, c) PROVE Stable
    <3>. DEFINE it == SetCheckpoint(items[id], c)
    <3>1. items' = [items EXCEPT ![id] = Touch(it)] /\ grants' = grants
      BY <2>2 DEF Checkpoint
    <3>2. it \in Item /\ it.seq = items[id].seq
      BY <1>1, SizesAssumption, Typed DEF SetCheckpoint, Item
    <3>3. Touch(it).seq = items[id].seq
      <4>. HIDE DEF it
      <4>. QED  BY <3>2, TouchFacts
    <3>. HIDE DEF it
    <3>. QED  BY <1>0, <1>1, <3>1, <3>3 DEF TypeOK, Live
  <2>3. CASE \/ \E delay \in Delays, d \in Deps, refund \in BOOLEAN, e \in Errs :
                  Nack(id, n, delay, d, refund, e)
             \/ Release(id, n)
             \/ \E e \in Errs : Park(id, n, e)
    <3>1. \E it \in Item, o \in Outcomes \ {"out"} : EndStep(id, n, it, o)
      BY <1>1, <2>3, EndSteps
    <3>. QED  BY <3>1
  <2>4. ASSUME LeaseLost(id, n) PROVE Stable
    <3>1. n \in Out(id) /\ Settle(id, n, "lost") /\ items' = items /\ "lost" \in Outcomes
      BY <2>4 DEF LeaseLost, Outcomes
    <3>2. \A j \in Ids : \A m \in 1..Len(grants[j]) :
            grants'[j][m].status = IF j = id /\ m = n THEN "lost" ELSE grants[j][m].status
      BY <1>1, <3>1, SettleFacts, SMTT(30)
    <3>. QED  BY <3>1, <3>2 DEF Stable
  <2>. QED  BY <2>1, <2>2, <2>3, <2>4 DEF WorkerCall
<1>8. CASE Operator
  <2>1. PICK id \in Ids : \/ \E replace \in BOOLEAN, c \in Ckpts : Requeue(id, replace, c)
                          \/ Discard(id)
    BY <1>8 DEF Operator
  <2>2. ASSUME NEW replace \in BOOLEAN, NEW c \in Ckpts, Requeue(id, replace, c)
        PROVE  Stable
    <3>. DEFINE cc == IF replace THEN c ELSE items[id].ckpt
                it == Requeued(items[id], cc)
    <3>1. Move(id, it) /\ grants' = grants
      BY <2>2 DEF Requeue
    <3>2. items[id] \in Item /\ cc \in Nat
      BY <1>1, SizesAssumption, Typed DEF Item
    <3>3. it \in Item /\ it.seq = items[id].seq
      BY <3>2, RequeuedFacts
    <3>. HIDE DEF it
    <3>4. Touch(it).seq = items[id].seq /\ items' = [items EXCEPT ![id] = Touch(it)]
      BY <3>1, <3>3, TouchFacts DEF Move
    <3>. QED  BY <1>0, <1>1, <3>1, <3>4 DEF TypeOK, Live
  <2>. QED  BY <2>1, <2>2
<1>. QED  BY <1>2, <1>3, <1>4, <1>5, <1>6, <1>7, <1>8 DEF Next

(* Fencing: held lets only the newest lease of an id end anything, and only  *)
(* on the record it was granted for.                                         *)
THEOREM Fencing == Spec => OnlyNewestLeaseSettles
<1>. DEFINE A == \A id \in Ids : \A n \in 1..Len(grants[id]) :
                   /\ grants[id][n].status = "out"
                   /\ grants'[id][n].status \in {"acked", "kept", "refunded"}
                   => n = Len(grants[id]) /\ grants[id][n].seq = items[id].seq
<1>1. ASSUME IInv, Next PROVE A
  <2>1. SUFFICES ASSUME NEW j \in Ids, NEW m \in 1..Len(grants[j]),
                        grants[j][m].status = "out",
                        grants'[j][m].status \in {"acked", "kept", "refunded"}
                 PROVE  m = Len(grants[j]) /\ grants[j][m].seq = items[j].seq
    OBVIOUS
  <2>. HIDE DEF A
  <2>2. TypeOK
    BY <1>1 DEF IInv
  <2>3. Held(j, m) => m = Len(grants[j]) /\ grants[j][m].seq = items[j].seq
    BY <1>1 DEF Held, IInv, TokenInv
  <2>4. CASE Stable
    BY <2>1, <2>4 DEF Stable
  <2>5. ASSUME NEW id \in Ids, NEW n, NEW o \in Outcomes,
               n \in Out(id), Held(id, n), Settle(id, n, o)
        PROVE  Held(j, m)
    <3>1. grants'[j][m].status = IF j = id /\ m = n THEN o ELSE grants[j][m].status
      BY <2>2, <2>5, SettleFacts, SMTT(30)
    <3>2. j = id /\ m = n
      BY <2>1, <3>1
    <3>. QED  BY <2>5, <3>2
  <2>6. ASSUME NEW id \in Ids, NEW n, Ack(id, n) PROVE Held(j, m)
    BY <2>5, <2>6 DEF Ack, Outcomes
  <2>7. ASSUME NEW id \in Ids, NEW n, NEW it \in Item, NEW o \in Outcomes \ {"out"},
               EndStep(id, n, it, o)
        PROVE  Held(j, m)
    BY <2>5, <2>7 DEF EndStep
  <2>8. CASE \E id \in Ids : Discard(id)
    <3>1. grants' = grants
      BY <2>8 DEF Discard
    <3>. QED  BY <2>1, <3>1
  <2>. QED  BY <1>1, <2>3, <2>4, <2>6, <2>7, <2>8, StableSteps
<1>2. ASSUME UNCHANGED vars PROVE A
  BY <1>2 DEF vars
<1>3. IInv /\ [Next]_vars => [A]_vars
  BY <1>1, <1>2
<1>. QED  BY <1>3, Inductive, PTL DEF Spec, OnlyNewestLeaseSettles

(* No loss: remove is reached only from Ack by the lease holder and from     *)
(* Discard of a parked record.                                               *)
THEOREM NoLoss == Spec => LeavesOnlyWhenDone
<1>. DEFINE A == \A id \in Live : items'[id].seq # items[id].seq =>
                   \/ items[id].state = "parked"
                   \/ /\ items[id].state = "leased"
                      /\ grants'[id][items[id].token].status = "acked"
<1>1. ASSUME IInv, Next PROVE A
  <2>1. SUFFICES ASSUME NEW j \in Live, items'[j].seq # items[j].seq
                 PROVE  \/ items[j].state = "parked"
                        \/ /\ items[j].state = "leased"
                           /\ grants'[j][items[j].token].status = "acked"
    OBVIOUS
  <2>. HIDE DEF A
  <2>2. TypeOK /\ j \in Ids
    BY <1>1 DEF IInv, Live
  <2>3. CASE Stable
    BY <2>1, <2>3 DEF Stable
  <2>4. ASSUME NEW id \in Ids, Remove(id) PROVE id = j
    <3>1. items' = [items EXCEPT ![id] = NoItem]
      BY <2>4 DEF Remove
    <3>. QED  BY <2>1, <2>2, <3>1 DEF TypeOK
  <2>5. ASSUME NEW id \in Ids, NEW n, Ack(id, n)
        PROVE  /\ items[j].state = "leased"
               /\ grants'[j][items[j].token].status = "acked"
    <3>1. n \in Out(id) /\ Held(id, n) /\ Settle(id, n, "acked") /\ id = j
      BY <2>4, <2>5 DEF Ack
    <3>2. items[j].state = "leased" /\ items[j].token = n /\ n \in 1..Len(grants[j])
      BY <3>1 DEF Held, Out
    <3>3. "acked" \in Outcomes
      BY DEF Outcomes
    <3>4. grants'[j][n].status = "acked"
      BY <2>2, <3>1, <3>3, SettledStatus
    <3>. QED  BY <3>2, <3>4
  <2>6. ASSUME NEW id \in Ids, Discard(id) PROVE items[j].state = "parked"
    BY <2>4, <2>6 DEF Discard
  <2>7. ASSUME NEW id \in Ids, NEW n, NEW it \in Item, NEW o \in Outcomes \ {"out"},
               EndStep(id, n, it, o)
        PROVE  FALSE
    <3>1. items' = [items EXCEPT ![id] = Touch(it)] /\ it.seq = items[id].seq
      BY <2>7 DEF EndStep, Move
    <3>2. Touch(it).seq = items[id].seq
      BY <3>1, TouchFacts
    <3>. QED  BY <2>1, <2>2, <3>1, <3>2 DEF TypeOK
  <2>. QED  BY <1>1, <2>3, <2>5, <2>6, <2>7, StableSteps
<1>2. ASSUME UNCHANGED vars PROVE A
  BY <1>2 DEF vars
<1>3. IInv /\ [Next]_vars => [A]_vars
  BY <1>1, <1>2
<1>. QED  BY <1>3, Inductive, PTL DEF Spec, LeavesOnlyWhenDone

-----------------------------------------------------------------------------
(* What the machine counts.                                                  *)

(* The grants that count as attempts of the record.                          *)
Counting(id) ==
  {n \in (base[id] + 1)..Len(grants[id]) : grants[id][n].status # "refunded"}

(* A leased record has been granted since its attempts were set to zero, and *)
(* attempts is exact.                                                        *)
AttemptInv ==
  \A id \in Ids :
    /\ base[id] <= Len(grants[id])
    /\ items[id].state = "leased" => base[id] < Len(grants[id])
    /\ items[id].state # "absent" => items[id].attempts = Cardinality(Counting(id))

(* What a Lease call read is the record's checkpoint, or is known to be old. *)
Fresh(it) == it.res = Free \/ it.stale \/ it.read = it.ckpt
ReadInv == \A id \in Ids : Fresh(items[id])

-----------------------------------------------------------------------------
(* What a step does to the attempts of one record.                           *)

Kept(j) ==
  /\ base'[j] = base[j] /\ Len(grants'[j]) = Len(grants[j])
  /\ \A m \in 1..Len(grants[j]) :
       grants'[j][m].status = "refunded" <=> grants[j][m].status = "refunded"
  /\ items'[j].state # "absent" =>
       items[j].state # "absent" /\ items'[j].attempts = items[j].attempts
  /\ items'[j].state = "leased" => items[j].state = "leased"

Counts(j) ==
  /\ base'[j] = base[j] /\ Len(grants'[j]) = Len(grants[j]) + 1
  /\ \A m \in 1..Len(grants[j]) : grants'[j][m] = grants[j][m]
  /\ grants'[j][Len(grants[j]) + 1].status # "refunded"
  /\ items[j].state # "absent" /\ items'[j].attempts = items[j].attempts + 1

Refunds(j) ==
  /\ base'[j] = base[j] /\ Len(grants'[j]) = Len(grants[j])
  /\ items[j].state = "leased" /\ items'[j].state # "leased"
  /\ grants[j][Len(grants[j])].status # "refunded"
  /\ \A m \in 1..Len(grants[j]) :
       grants'[j][m].status = "refunded"
         <=> grants[j][m].status = "refunded" \/ m = Len(grants[j])
  /\ items'[j].attempts =
       IF items[j].attempts > 0 THEN items[j].attempts - 1 ELSE items[j].attempts

Resets(j) ==
  /\ grants'[j] = grants[j] /\ base'[j] = Len(grants[j])
  /\ items'[j].state # "leased" /\ items'[j].attempts = 0

Effect(j) == Kept(j) \/ Counts(j) \/ Refunds(j) \/ Resets(j)

(* Each of them keeps the count exact: the floor at zero is never reached.   *)
LEMMA EffectKeeps ==
  ASSUME TypeOK, TypeOK', AttemptInv, \A j \in Ids : Effect(j)
  PROVE  AttemptInv'
<1>1. SUFFICES ASSUME NEW j \in Ids
               PROVE  /\ base'[j] <= Len(grants'[j])
                      /\ items'[j].state = "leased" => base'[j] < Len(grants'[j])
                      /\ items'[j].state # "absent" =>
                           items'[j].attempts = Cardinality(Counting(j)')
  BY DEF AttemptInv
<1>. DEFINE b == base[j]
            l == Len(grants[j])
            C == Counting(j)
<1>2. /\ b \in Nat /\ l \in Nat /\ b <= l
      /\ items[j].state = "leased" => b < l
      /\ items[j].state # "absent" => items[j].attempts = Cardinality(C)
      /\ base'[j] \in Nat /\ Len(grants'[j]) \in Nat
  <2>1. /\ b <= l
        /\ items[j].state = "leased" => b < l
        /\ items[j].state # "absent" => items[j].attempts = Cardinality(C)
    BY DEF AttemptInv
  <2>2. /\ base[j] \in Nat /\ base'[j] \in Nat
        /\ grants[j] \in Seq(Lease) /\ grants'[j] \in Seq(Lease)
    BY DEF TypeOK
  <2>3. b \in Nat /\ l \in Nat /\ Len(grants'[j]) \in Nat
    BY <2>2, SMTT(30)
  <2>. HIDE DEF b, l, C
  <2> QED
    BY <2>1, <2>2, <2>3
<1>3. IsFiniteSet(C) /\ Cardinality(C) \in Nat
  <2>1. C \subseteq (b + 1)..l
    BY DEF Counting
  <2>. HIDE DEF C, b, l
  <2>2. b + 1 \in Int /\ l \in Int
    BY <1>2, SMTT(30)
  <2>3. IsFiniteSet((b + 1)..l)
    BY <2>2, FS_Interval
  <2> QED
    BY <2>1, <2>3, FS_Subset, FS_CardinalityType
<1>4. CASE Kept(j)
  <2>1. Counting(j)' = C
    BY <1>2, <1>4, SMTT(30) DEF Kept, Counting
  <2>. HIDE DEF C
  <2> QED
    BY <1>2, <1>4, <2>1 DEF Kept
<1>5. CASE Counts(j)
  <2>1. Counting(j)' = C \cup {l + 1} /\ l + 1 \notin C
    BY <1>2, <1>5, SMTT(30) DEF Counts, Counting
  <2>. HIDE DEF C
  <2>2. Cardinality(C \cup {l + 1}) = Cardinality(C) + 1
    BY <1>3, <2>1, FS_AddElement
  <2> QED
    BY <1>2, <1>3, <1>5, <2>1, <2>2, SMTT(30) DEF Counts
<1>6. CASE Refunds(j)
  <2>1. b < l
    BY <1>2, <1>6 DEF Refunds
  <2>2. Counting(j)' = C \ {l} /\ l \in C
    BY <1>2, <1>6, <2>1, SMTT(30) DEF Refunds, Counting
  <2>. HIDE DEF C
  <2>3. Cardinality(C \ {l}) = Cardinality(C) - 1 /\ Cardinality(C) # 0
    BY <1>3, <2>2, FS_RemoveElement, FS_EmptySet
  <2>4. items[j].attempts = Cardinality(C)
    BY <1>2, <1>6 DEF Refunds
  <2> QED
    BY <1>2, <1>3, <1>6, <2>2, <2>3, <2>4, SMTT(30) DEF Refunds
<1>7. CASE Resets(j)
  <2>1. Counting(j)' = {}
    BY <1>2, <1>7, SMTT(30) DEF Resets, Counting
  <2> QED
    BY <1>2, <1>7, <2>1, FS_EmptySet, SMTT(30) DEF Resets
<1> QED
  BY <1>4, <1>5, <1>6, <1>7 DEF Effect

-----------------------------------------------------------------------------
(* The operations on one item.                                               *)

(* Touching an item counts no attempt and forgets what was read of it.       *)
LEMMA TouchCounts ==
  ASSUME NEW it \in Item
  PROVE  /\ Touch(it).attempts = it.attempts /\ Touch(it).state = it.state
         /\ Fresh(Touch(it))
<1>1. /\ Touch(it).attempts = it.attempts /\ Touch(it).state = it.state /\ Touch(it).res = it.res
      /\ Touch(it).stale = (it.res # Free)
  BY DEF Touch, Item
<1> QED
  BY <1>1 DEF Fresh

(* What each operation does to the attempts of the record.                   *)
LEMMA ItemCounts ==
  ASSUME NEW it \in Item, NEW t, NEW u, NEW d, NEW e, NEW w
  PROVE  /\ Released(it).attempts = IF it.attempts > 0 THEN it.attempts - 1 ELSE it.attempts
         /\ Parked(it, e).attempts = it.attempts
         /\ Requeued(it, u).attempts = 0
         /\ Granted(it, t, u).attempts = it.attempts + 1
         /\ Reserved(it, w).attempts = it.attempts
         /\ Unreserved(it).attempts = it.attempts
         /\ SetCheckpoint(it, u).attempts = it.attempts
         /\ Recovered(it).attempts = it.attempts
BY DEF Released, Parked, Requeued, Granted, Reserved, Unreserved, SetCheckpoint,
       Recovered, Item

(* A nack takes the attempt back exactly when it is refunded.                *)
LEMMA NackedCounts ==
  ASSUME NEW it \in Item, NEW t, NEW d, NEW refund, NEW e
  PROVE  Nacked(it, t, d, refund, e).attempts =
           IF refund /\ it.attempts > 0 THEN it.attempts - 1 ELSE it.attempts
BY DEF Nacked, Item

(* An item no selection is reading stays one that nothing stale can
   overwrite.                                                                *)
LEMMA ItemFresh ==
  ASSUME NEW it \in Item, NEW t, NEW u, NEW e, NEW w
  PROVE  /\ Fresh(NoItem) /\ Fresh(Reserved(it, w)) /\ Fresh(Unreserved(it)) /\ Fresh(Recovered(it))
         /\ Fresh(it) => Fresh(Granted(it, t, u))
         /\ Unreserved(it).res = Free /\ (it.res = Free => Parked(it, e).res = Free)
<1>1. Fresh(NoItem)
  BY DEF NoItem, Fresh
<1>2. Reserved(it, w).read = it.ckpt /\ Reserved(it, w).ckpt = it.ckpt
  BY DEF Reserved, Item
<1>3. Unreserved(it).res = Free /\ Recovered(it).res = Free
  BY DEF Unreserved, Recovered, Item
<1>4. /\ Granted(it, t, u).res = it.res /\ Granted(it, t, u).stale = it.stale
      /\ Granted(it, t, u).read = it.read /\ Granted(it, t, u).ckpt = it.ckpt
  BY DEF Granted, Item
<1>5. Parked(it, e).res = it.res
  BY DEF Parked, Item
<1> QED
  BY <1>1, <1>2, <1>3, <1>4, <1>5 DEF Fresh

-----------------------------------------------------------------------------
(* The steps.                                                                *)

(* A lease grows by a grant only of a record whose read checkpoint is right. *)
Handout(j) == Len(grants'[j]) > Len(grants[j]) /\ items[j].res # Free => items[j].read = items[j].ckpt

Good == (\A j \in Ids : Effect(j) /\ Handout(j)) /\ ReadInv'

(* move: one record changes, its grants change at most in one status.        *)
LEMMA MoveGood ==
  ASSUME TypeOK, ReadInv, NEW id \in Ids, NEW it \in Item, Move(id, it),
         \A j \in Ids \ {id} : grants'[j] = grants[j] /\ base'[j] = base[j],
         Len(grants'[id]) = Len(grants[id]),
         items'[id].attempts = it.attempts /\ items'[id].state = it.state => Effect(id)
  PROVE  Good
<1>1. items' = [items EXCEPT ![id] = Touch(it)]
  BY MoveFacts
<1>2. items'[id] = Touch(it) /\ \A j \in Ids \ {id} : items'[j] = items[j]
  BY <1>1 DEF TypeOK
<1>3. Effect(id) /\ Fresh(items'[id])
  BY <1>2, TouchCounts
<1>4. \A j \in Ids \ {id} : Effect(j)
  BY <1>2 DEF Effect, Kept
<1>5. \A j \in Ids : Handout(j)
  <2>1. \A j \in Ids : Len(grants'[j]) = Len(grants[j]) /\ Len(grants[j]) \in Nat
    BY Typed
  <2> QED
    BY <2>1, SMTT(30) DEF Handout
<1>6. ReadInv'
  BY <1>2, <1>3 DEF ReadInv
<1> QED
  BY <1>3, <1>4, <1>5, <1>6 DEF Good

(* A new record starts with the attempts it is given.                        *)
LEMMA AppendGood ==
  ASSUME TypeOK, ReadInv, NEW id \in Ids, NEW st \in Births, NEW d \in Deps, NEW c \in Ckpts,
         NEW e \in Errs, AppendRecord(id, st, d, c, e)
  PROVE  Good
<1>. DEFINE it == Born(st, d, c, e)
<1>1. /\ Move(id, it) /\ grants' = grants
      /\ base' = [base EXCEPT ![id] = Len(grants[id])]
  BY DEF AppendRecord
<1>2. it \in Item /\ it.attempts = 0 /\ it.state = st /\ st # "leased"
  <2>1. c \in Nat /\ e \in Nat /\ st \in States /\ seq + 1 \in Nat /\ st # "leased"
    BY SizesAssumption, BirthsAssumption, SMTT(30) DEF States, TypeOK
  <2>2. NoItem \in Item /\ NoItem.attempts = 0
    BY DepsAssumption DEF NoItem, Item, States
  <2>3. it \in Item /\ it.attempts = NoItem.attempts /\ it.state = st
    BY <2>1, <2>2 DEF Born, Item
  <2> QED
    BY <2>1, <2>2, <2>3
<1>3. /\ \A j \in Ids \ {id} : grants'[j] = grants[j] /\ base'[j] = base[j]
      /\ base'[id] = Len(grants[id])
  BY <1>1 DEF TypeOK
<1>4. items'[id].attempts = it.attempts /\ items'[id].state = it.state => Effect(id)
  BY <1>1, <1>2, <1>3 DEF Effect, Resets
<1>. HIDE DEF it
<1> QED
  BY <1>1, <1>2, <1>3, <1>4, MoveGood

(* A requeued record starts again at zero.                                   *)
LEMMA RequeueGood ==
  ASSUME TypeOK, ReadInv, NEW id \in Ids, NEW replace \in BOOLEAN, NEW c \in Ckpts,
         Requeue(id, replace, c)
  PROVE  Good
<1>. DEFINE v == IF replace THEN c ELSE items[id].ckpt
            it == Requeued(items[id], v)
<1>1. /\ Move(id, it) /\ grants' = grants
      /\ base' = [base EXCEPT ![id] = Len(grants[id])]
  BY DEF Requeue
<1>2. items[id] \in Item /\ v \in Nat
  BY SizesAssumption DEF TypeOK, Item
<1>3. it \in Item /\ it.attempts = 0 /\ it.state = "pending"
  <2>. HIDE DEF v
  <2> QED
    BY <1>2, RequeuedFacts, ItemCounts
<1>4. /\ \A j \in Ids \ {id} : grants'[j] = grants[j] /\ base'[j] = base[j]
      /\ base'[id] = Len(grants[id])
  BY <1>1 DEF TypeOK
<1>5. items'[id].attempts = it.attempts /\ items'[id].state = it.state => Effect(id)
  BY <1>1, <1>3, <1>4 DEF Effect, Resets
<1>. HIDE DEF it
<1> QED
  BY <1>1, <1>3, <1>4, <1>5, MoveGood

(* Nack, Release and Park: with a refund or without.                         *)
LEMMA EndGood ==
  ASSUME IInv, ReadInv, NEW id \in Ids, NEW n \in Out(id), Held(id, n), NEW it \in Item,
         NEW o \in {"kept", "refunded"}, Move(id, it), Settle(id, n, o), base' = base,
         it.state \in {"pending", "parked"},
         it.attempts = IF o = "refunded" /\ items[id].attempts > 0
                         THEN items[id].attempts - 1 ELSE items[id].attempts
  PROVE  Good
<1>1. TypeOK /\ TokenInv /\ o \in Outcomes
  BY DEF IInv, Outcomes
<1>2. /\ \A j \in Ids : Len(grants'[j]) = Len(grants[j])
      /\ \A j \in Ids : \A m \in 1..Len(grants[j]) :
           grants'[j][m].status = IF j = id /\ m = n THEN o ELSE grants[j][m].status
  BY <1>1, SettleFacts, SMTT(30)
<1>3. n = Len(grants[id]) /\ n \in 1..Len(grants[id]) /\ grants[id][n].status = "out"
      /\ items[id].state = "leased"
  BY <1>1 DEF Held, TokenInv, Out
<1>4. items'[id].attempts = it.attempts /\ items'[id].state = it.state => Effect(id)
  <2>1. CASE o = "kept"
    BY <1>2, <1>3, <2>1 DEF Effect, Kept
  <2>2. CASE o = "refunded"
    <3>1. \A m \in 1..Len(grants[id]) :
            grants'[id][m].status = "refunded"
              <=> grants[id][m].status = "refunded" \/ m = Len(grants[id])
      BY <1>2, <1>3, <2>2
    <3> QED
      BY <1>2, <1>3, <2>2, <3>1 DEF Effect, Refunds
  <2> QED
    BY <2>1, <2>2
<1>5. \A j \in Ids \ {id} : grants'[j] = grants[j]
  BY <1>1 DEF Settle, TypeOK
<1> QED
  BY <1>1, <1>2, <1>4, <1>5, MoveGood

(* Nack, Release and Park charge or refund the attempt of the lease they
   end.                                                                      *)
LEMMA EndsGood ==
  ASSUME IInv, ReadInv, NEW id \in Ids, NEW n,
         \/ \E delay \in Delays, d \in Deps, refund \in BOOLEAN, e \in Errs :
              Nack(id, n, delay, d, refund, e)
         \/ Release(id, n)
         \/ \E e \in Errs : Park(id, n, e)
  PROVE  Good
<1>1. /\ items[id] \in Item /\ now \in Nat /\ Errs \subseteq Nat /\ Delays \subseteq Nat
      /\ items[id].attempts \in Nat
  BY SizesAssumption, TimesAssumption DEF IInv, TypeOK, Item
<1>2. ASSUME NEW delay \in Delays, NEW d \in Deps, NEW refund \in BOOLEAN, NEW e \in Errs,
             Nack(id, n, delay, d, refund, e)
      PROVE  Good
  <2>. DEFINE it == Nacked(items[id], now + delay, d, refund, e)
              o == IF refund THEN "refunded" ELSE "kept"
              a == items[id].attempts
  <2>1. /\ n \in Out(id) /\ Held(id, n) /\ Move(id, it) /\ Settle(id, n, o) /\ base' = base
    BY <1>2 DEF Nack
  <2>2. it \in Item /\ it.state = "pending"
    <3>1. now + delay \in Nat /\ e \in Nat
      BY <1>1, SMTT(30)
    <3> QED
      BY <1>1, <3>1, NackedFacts, SMTT(30)
  <2>3. it.attempts = IF o = "refunded" /\ a > 0 THEN a - 1 ELSE a
    <3>1. it.attempts = IF refund /\ a > 0 THEN a - 1 ELSE a
      <4>. DEFINE x == items[id]
                  t == now + delay
      <4>1. x \in Item
        BY <1>1
      <4>. HIDE DEF x, t
      <4>2. Nacked(x, t, d, refund, e).attempts =
              IF refund /\ x.attempts > 0 THEN x.attempts - 1 ELSE x.attempts
        BY <4>1, NackedCounts, SMTT(30)
      <4> QED
        BY <4>2 DEF x, t
    <3>2. CASE refund
      <4>1. o = "refunded"
        BY <3>2
      <4>. HIDE DEF it, o, a
      <4> QED
        BY <3>1, <3>2, <4>1
    <3>3. CASE ~refund
      <4>1. o # "refunded"
        BY <3>3
      <4>. HIDE DEF it, o, a
      <4> QED
        BY <3>1, <3>3, <4>1
    <3>. HIDE DEF it, o, a
    <3> QED
      BY <3>2, <3>3
  <2>4. o \in {"kept", "refunded"}
    OBVIOUS
  <2>. HIDE DEF it, o
  <2> QED
    BY <2>1, <2>2, <2>3, <2>4, EndGood
<1>3. ASSUME Release(id, n) PROVE Good
  <2>. DEFINE it == Released(items[id])
  <2>1. /\ n \in Out(id) /\ Held(id, n) /\ Move(id, it) /\ Settle(id, n, "refunded") /\ base' = base
    BY <1>3 DEF Release
  <2>2. /\ it \in Item /\ it.state = "pending"
        /\ it.attempts = IF items[id].attempts > 0 THEN items[id].attempts - 1 ELSE items[id].attempts
    BY <1>1, ReleasedFacts, ItemCounts
  <2>. HIDE DEF it
  <2> QED
    BY <2>1, <2>2, EndGood
<1>4. ASSUME NEW e \in Errs, Park(id, n, e) PROVE Good
  <2>. DEFINE it == Parked(items[id], e)
  <2>1. /\ n \in Out(id) /\ Held(id, n) /\ Move(id, it) /\ Settle(id, n, "kept") /\ base' = base
    BY <1>4 DEF Park
  <2>2. it \in Item /\ it.state = "parked" /\ it.attempts = items[id].attempts
    BY <1>1, ParkedFacts, ItemCounts
  <2>. HIDE DEF it
  <2> QED
    BY <2>1, <2>2, EndGood
<1> QED
  BY <1>2, <1>3, <1>4

(* No grant is made and no lease refunded.                                   *)
LEMMA QuietGood ==
  ASSUME TypeOK, ReadInv', base' = base,
         \A j \in Ids : /\ Len(grants'[j]) = Len(grants[j])
                        /\ \A m \in 1..Len(grants[j]) :
                             grants'[j][m].status = "refunded" <=> grants[j][m].status = "refunded",
         \A j \in Ids : /\ items'[j].state # "absent" =>
                             items[j].state # "absent" /\ items'[j].attempts = items[j].attempts
                        /\ items'[j].state = "leased" => items[j].state = "leased"
  PROVE  Good
<1>1. \A j \in Ids : Effect(j)
  BY DEF Effect, Kept
<1>2. \A j \in Ids : Len(grants[j]) \in Nat
  BY Typed
<1>3. \A j \in Ids : Handout(j)
  BY <1>2, SMTT(30) DEF Handout
<1> QED
  BY <1>1, <1>3 DEF Good

(* An acked or lost lease is not refunded.                                   *)
LEMMA SettleQuiet ==
  ASSUME TypeOK, NEW id \in Ids, NEW n \in Out(id), NEW o \in {"acked", "lost"}, Settle(id, n, o)
  PROVE  \A j \in Ids : /\ Len(grants'[j]) = Len(grants[j])
                        /\ \A m \in 1..Len(grants[j]) :
                             grants'[j][m].status = "refunded" <=> grants[j][m].status = "refunded"
<1>1. o \in Outcomes /\ o # "refunded"
  BY DEF Outcomes
<1>2. /\ \A j \in Ids : Len(grants'[j]) = Len(grants[j])
      /\ \A j \in Ids : \A m \in 1..Len(grants[j]) :
           grants'[j][m].status = IF j = id /\ m = n THEN o ELSE grants[j][m].status
  BY <1>1, SettleFacts, SMTT(30)
<1>3. grants[id][n].status = "out"
  BY DEF Out
<1> QED
  BY <1>1, <1>2, <1>3

(* A record that is removed takes its attempts with it.                      *)
LEMMA RemoveGood ==
  ASSUME TypeOK, ReadInv, NEW id \in Ids, Remove(id), base' = base,
         \A j \in Ids : /\ Len(grants'[j]) = Len(grants[j])
                        /\ \A m \in 1..Len(grants[j]) :
                             grants'[j][m].status = "refunded" <=> grants[j][m].status = "refunded"
  PROVE  Good
<1>1. items' = [items EXCEPT ![id] = NoItem]
  BY DEF Remove
<1>2. items'[id] = NoItem /\ \A j \in Ids \ {id} : items'[j] = items[j]
  BY <1>1 DEF TypeOK
<1>3. NoItem.state = "absent" /\ Fresh(NoItem)
  BY DEF NoItem, Fresh
<1>4. ReadInv'
  BY <1>2, <1>3 DEF ReadInv
<1> QED
  BY <1>2, <1>3, <1>4, QuietGood

(* So do all the calls a worker makes with its lease.                        *)
LEMMA WorkerGood ==
  ASSUME IInv, ReadInv, NEW id \in Ids, NEW n \in 1..Len(grants[id]),
         \/ \E c \in Ckpts : Checkpoint(id, n, c)
         \/ Ack(id, n)
         \/ \E delay \in Delays, d \in Deps, refund \in BOOLEAN, e \in Errs :
              Nack(id, n, delay, d, refund, e)
         \/ Release(id, n)
         \/ \E e \in Errs : Park(id, n, e)
         \/ LeaseLost(id, n)
  PROVE  Good
<1>0. TypeOK
  BY DEF IInv
<1>1. ASSUME NEW c \in Ckpts, Checkpoint(id, n, c) PROVE Good
  <2>. DEFINE it == SetCheckpoint(items[id], c)
  <2>1. /\ items' = [items EXCEPT ![id] = Touch(it)] /\ base' = base /\ grants' = grants
    BY <1>1 DEF Checkpoint
  <2>2. it \in Item /\ it.attempts = items[id].attempts /\ it.state = items[id].state
    <3>1. c \in Nat /\ items[id] \in Item
      BY <1>0, SizesAssumption DEF TypeOK
    <3> QED
      BY <3>1 DEF SetCheckpoint, Item
  <2>. HIDE DEF it
  <2>3. /\ items'[id].attempts = items[id].attempts /\ items'[id].state = items[id].state
        /\ Fresh(items'[id]) /\ \A j \in Ids \ {id} : items'[j] = items[j]
    <3>1. items'[id] = Touch(it) /\ \A j \in Ids \ {id} : items'[j] = items[j]
      BY <1>0, <2>1 DEF TypeOK
    <3> QED
      BY <2>2, <3>1, TouchCounts
  <2>4. ReadInv'
    BY <2>3 DEF ReadInv
  <2>5. \A j \in Ids : items'[j].attempts = items[j].attempts /\ items'[j].state = items[j].state
    BY <2>3
  <2> QED
    BY <1>0, <2>1, <2>4, <2>5, QuietGood
<1>2. CASE Ack(id, n)
  <2>1. n \in Out(id) /\ Remove(id) /\ Settle(id, n, "acked") /\ base' = base
    BY <1>2 DEF Ack
  <2> QED
    BY <1>0, <2>1, SettleQuiet, RemoveGood
<1>3. CASE LeaseLost(id, n)
  <2>1. n \in Out(id) /\ Settle(id, n, "lost") /\ base' = base /\ items' = items
    BY <1>3 DEF LeaseLost
  <2>2. ReadInv'
    BY <2>1 DEF ReadInv
  <2> QED
    BY <1>0, <2>1, <2>2, SettleQuiet, QuietGood
<1> QED
  BY <1>1, <1>2, <1>3, EndsGood

(* Discarding a record changes no other.                                     *)
LEMMA DiscardGood ==
  ASSUME IInv, ReadInv, NEW id \in Ids, Discard(id)
  PROVE  Good
<1>1. TypeOK /\ Remove(id) /\ grants' = grants /\ base' = base
  BY DEF Discard, IInv
<1> QED
  BY <1>1, RemoveGood

(* Time passes: leases run out, and no attempt is refunded for that.         *)
LEMMA TickGood ==
  ASSUME IInv, ReadInv, Tick
  PROVE  Good
<1>1. TypeOK /\ items' = items /\ grants' = grants /\ base' = base
  BY DEF Tick, IInv
<1>2. ReadInv'
  BY <1>1 DEF ReadInv
<1> QED
  BY <1>1, <1>2, QuietGood

(* A process that is gone keeps its attempts; leases it had out are lost.    *)
LEMMA RestartGood ==
  ASSUME IInv, ReadInv, Restart
  PROVE  Good
<1>0. TypeOK
  BY DEF IInv
<1>1. /\ items' = [id \in Ids |-> Recovered(items[id])]
      /\ grants' = [id \in Ids |-> [n \in 1..Len(grants[id]) |->
                      [grants[id][n] EXCEPT !.status = IF @ = "out" THEN "lost" ELSE @]]]
      /\ base' = base
  BY DEF Restart
<1>2. \A j \in Ids : items[j] \in Item /\ items'[j] = Recovered(items[j])
  BY <1>0, <1>1 DEF TypeOK
<1>3. ASSUME NEW j \in Ids
      PROVE  /\ items'[j].attempts = items[j].attempts
             /\ items'[j].state = IF items[j].state = "leased" THEN "pending" ELSE items[j].state
             /\ Fresh(items'[j])
  BY <1>2, RecoveredFacts, ItemCounts, ItemFresh
<1>4. ReadInv'
  BY <1>3 DEF ReadInv
<1>5. ASSUME NEW j \in Ids
      PROVE  /\ Len(grants'[j]) = Len(grants[j])
             /\ \A m \in 1..Len(grants[j]) :
                  grants'[j][m].status = "refunded" <=> grants[j][m].status = "refunded"
  <2>1. /\ Len(grants[j]) \in Nat /\ \A m \in 1..Len(grants[j]) : grants[j][m] \in Lease
    BY <1>0, Typed
  <2>2. grants'[j] = [n \in 1..Len(grants[j]) |->
                        [grants[j][n] EXCEPT !.status = IF @ = "out" THEN "lost" ELSE @]]
    BY <1>1
  <2>3. Len(grants'[j]) = Len(grants[j])
    BY <2>1, <2>2, SMTT(30)
  <2>4. ASSUME NEW m \in 1..Len(grants[j])
        PROVE  grants'[j][m].status = IF grants[j][m].status = "out" THEN "lost" ELSE grants[j][m].status
    BY <2>1, <2>2, SMTT(30) DEF Lease
  <2> QED
    BY <2>3, <2>4
<1> QED
  BY <1>0, <1>1, <1>3, <1>4, <1>5, QuietGood

(* Lease calls.                                                              *)
LEMMA SelectGood ==
  ASSUME IInv, ReadInv, NEW w \in Callers, NEW skip, NEW only, NEW max,
         LeaseSelect(w, skip, only, max)
  PROVE  Good
<1>0. TypeOK
  BY DEF IInv
<1>. DEFINE S == SelectLease(skip, only, max)
<1>1. /\ items' = [id \in Ids |-> IF id \in S THEN Reserved(items[id], w) ELSE items[id]]
      /\ grants' = grants /\ base' = base
  BY DEF LeaseSelect
<1>. HIDE DEF S
<1>2. ASSUME NEW j \in Ids
      PROVE  /\ items'[j].attempts = items[j].attempts /\ items'[j].state = items[j].state
             /\ Fresh(items'[j])
  <2>1. items[j] \in Item /\ (items'[j] = items[j] \/ items'[j] = Reserved(items[j], w))
    BY <1>0, <1>1 DEF TypeOK
  <2>2. CASE items'[j] = items[j]
    BY <2>2 DEF ReadInv
  <2>3. CASE items'[j] = Reserved(items[j], w)
    <3>1. Reserved(items[j], w).attempts = items[j].attempts
      BY <2>1, ItemCounts
    <3>2. Fresh(Reserved(items[j], w))
      BY <2>1, ItemFresh
    <3>3. Reserved(items[j], w).state = items[j].state
      BY <2>1 DEF Reserved, Item
    <3> QED
      BY <2>3, <3>1, <3>2, <3>3
  <2> QED
    BY <2>1, <2>2, <2>3
<1>3. ReadInv'
  BY <1>2 DEF ReadInv
<1> QED
  BY <1>0, <1>1, <1>2, <1>3, QuietGood

(* The records of G get one lease more.                                      *)
LEMMA GrantGood ==
  ASSUME TypeOK, NEW G \in SUBSET Ids, NEW ttl \in TTLs, NEW o \in {"out", "lost"},
         NoteGrants(G, ttl, o), base' = base, ReadInv',
         \A j \in G : /\ items'[j].attempts = items[j].attempts + 1
                      /\ items[j].state # "absent"
                      /\ items[j].res # Free => items[j].read = items[j].ckpt,
         \A j \in Ids \ G : /\ items'[j].state # "absent" =>
                                 items[j].state # "absent" /\ items'[j].attempts = items[j].attempts
                            /\ items'[j].state = "leased" => items[j].state = "leased"
  PROVE  Good
<1>1. GrantEffect(G, ttl)
  <2>1. o \in Outcomes
    BY DEF Outcomes
  <2> QED
    BY <2>1, GrantFacts
<1>2. ASSUME NEW j \in G
      PROVE  grants'[j][Len(grants[j]) + 1].status # "refunded"
  <2>. DEFINE l == [seq |-> items[j].seq, until |-> now + ttl, status |-> o]
  <2>1. grants'[j] = Append(grants[j], l)
    BY DEF NoteGrants
  <2>2. grants[j] \in Seq(Lease)
    BY DEF TypeOK
  <2>3. l.status = o
    OBVIOUS
  <2>. HIDE DEF l
  <2>4. grants'[j][Len(grants[j]) + 1] = l
    <3>1. grants[j] \in Seq(Lease \cup {l}) /\ l \in Lease \cup {l}
      BY <2>2, SMTT(30)
    <3> QED
      BY <2>1, <3>1, SMTT(30)
  <2> QED
    BY <2>3, <2>4
<1>3. \A j \in G : Effect(j)
  BY <1>1, <1>2 DEF Effect, Counts, GrantEffect
<1>4. \A j \in Ids \ G : Effect(j) /\ Len(grants'[j]) = Len(grants[j])
  BY <1>1 DEF Effect, Kept, GrantEffect
<1>5. \A j \in Ids : Handout(j)
  <2>1. \A j \in Ids : Len(grants[j]) \in Nat
    BY Typed
  <2> QED
    BY <1>4, <2>1, SMTT(30) DEF Handout
<1> QED
  BY <1>3, <1>4, <1>5 DEF Good

(* A lease granted under one lock charges each record one attempt.           *)
LEMMA AtomicGood ==
  ASSUME IInv, ReadInv, NEW skip, NEW only, NEW max, NEW ttl \in TTLs,
         LeaseAtomic(skip, only, max, ttl)
  PROVE  Good
<1>0. TypeOK
  BY DEF IInv
<1>. DEFINE S == SelectLease(skip, only, max)
<1>1. /\ items' = [id \in Ids |-> IF id \in S
                                  THEN Granted(items[id], Len(grants[id]) + 1, now + ttl)
                                  ELSE items[id]]
      /\ NoteGrants(S, ttl, "out") /\ base' = base
  BY DEF LeaseAtomic
<1>2. S \in SUBSET Ids /\ \A j \in S : items[j].res = Free /\ items[j].state # "absent"
  BY <1>0, SelectFacts DEF Eligible, Ripe, Queued
<1>. HIDE DEF S
<1>3. ASSUME NEW j \in S
      PROVE  items'[j].attempts = items[j].attempts + 1 /\ Fresh(items'[j])
  <2>. DEFINE t == Len(grants[j]) + 1
              u == now + ttl
  <2>1. j \in Ids /\ items[j] \in Item /\ items'[j] = Granted(items[j], t, u)
    BY <1>0, <1>1, <1>2 DEF TypeOK
  <2>. HIDE DEF t, u
  <2> QED
    BY <2>1, ItemCounts, ItemFresh, SMTT(30) DEF ReadInv
<1>4. \A j \in Ids \ S : items'[j] = items[j]
  BY <1>1
<1>5. ReadInv'
  BY <1>2, <1>3, <1>4 DEF ReadInv
<1> QED
  BY <1>0, <1>1, <1>2, <1>3, <1>4, <1>5, GrantGood

(* A lease granted in two phases charges one attempt to each record it
   still may take.                                                           *)
LEMMA CommitGood ==
  ASSUME IInv, ReadInv, NEW w \in Callers, NEW ok, NEW bad, NEW e \in Errs, NEW ttl \in TTLs,
         NEW delivered \in BOOLEAN, LeaseCommit(w, ok, bad, e, ttl, delivered)
  PROVE  Good
<1>0. TypeOK
  BY DEF IInv
<1>. DEFINE C == Candidates(w)
            o == IF delivered THEN "out" ELSE "lost"
            U(id) == Unreserved(items[id])
            After(id) == IF id \in ok THEN Granted(U(id), Len(grants[id]) + 1, now + ttl)
                         ELSE IF id \in bad THEN Parked(U(id), e)
                         ELSE U(id)
<1>1. /\ items' = [id \in Ids |-> IF id \in C THEN After(id) ELSE items[id]]
      /\ ok \cup bad \subseteq {id \in C : StillAsRead(id)}
      /\ ok \cap bad = {}
      /\ NoteGrants(ok, ttl, o) /\ base' = base
  BY DEF LeaseCommit
<1>2. o \in {"out", "lost"} /\ C \subseteq Ids
  BY DEF Candidates
<1>3. /\ ok \in SUBSET Ids /\ bad \in SUBSET Ids
      /\ \A j \in ok \cup bad : j \in C /\ ~items[j].stale /\ items[j].state # "absent"
  BY <1>1, <1>2 DEF StillAsRead, Ripe, Queued
<1>4. ASSUME NEW j \in C
      PROVE  U(j) \in Item /\ U(j).attempts = items[j].attempts /\ U(j).state = items[j].state
             /\ U(j).res = Free
  BY <1>0, <1>2, UnreservedFacts, ItemCounts, ItemFresh DEF TypeOK
<1>. HIDE DEF C, o, U
<1>5. ASSUME NEW j \in ok
      PROVE  items'[j].attempts = items[j].attempts + 1 /\ Fresh(items'[j])
  <2>. DEFINE t == Len(grants[j]) + 1
              u == now + ttl
  <2>1. j \in C /\ items'[j] = Granted(U(j), t, u)
    BY <1>1, <1>2, <1>3
  <2>. HIDE DEF t, u
  <2>2. Fresh(U(j)) /\ U(j) \in Item
    BY <1>4, <2>1 DEF Fresh
  <2>3. Granted(U(j), t, u).attempts = U(j).attempts + 1
    BY <2>2, ItemCounts, SMTT(30)
  <2>4. Fresh(Granted(U(j), t, u))
    BY <2>2, ItemFresh
  <2> QED
    BY <1>4, <2>1, <2>3, <2>4
<1>6. ASSUME NEW j \in Ids \ ok
      PROVE  /\ items'[j].state # "absent" => items[j].state # "absent"
             /\ items'[j].attempts = items[j].attempts
             /\ items'[j].state = "leased" => items[j].state = "leased"
             /\ Fresh(items'[j])
  <2>1. CASE j \notin C
    BY <1>1, <2>1 DEF ReadInv
  <2>2. CASE j \in bad
    <3>1. j \in C /\ items'[j] = Parked(U(j), e) /\ e \in Nat
      BY <1>1, <1>3, <2>2, SizesAssumption
    <3>2. items'[j].state = "parked" /\ items'[j].attempts = U(j).attempts /\ items'[j].res = Free
      <4>1. U(j) \in Item /\ U(j).res = Free
        BY <1>4, <3>1
      <4>2. Parked(U(j), e).attempts = U(j).attempts
        BY <4>1, ItemCounts
      <4>3. Parked(U(j), e).res = Free
        BY <4>1, ItemFresh
      <4>4. Parked(U(j), e).state = "parked"
        BY <4>1 DEF Parked, Item
      <4> QED
        BY <3>1, <4>2, <4>3, <4>4
    <3> QED
      BY <1>3, <1>4, <2>2, <3>1, <3>2 DEF Fresh
  <2>3. CASE j \in C \ bad
    <3>1. items'[j] = U(j)
      BY <1>1, <2>3
    <3> QED
      BY <1>4, <2>3, <3>1 DEF Fresh
  <2> QED
    BY <2>1, <2>2, <2>3
<1>7. ReadInv'
  BY <1>5, <1>6 DEF ReadInv
<1>8. \A j \in ok : items[j].res # Free => items[j].read = items[j].ckpt
  BY <1>3 DEF ReadInv, Fresh
<1> QED
  BY <1>0, <1>1, <1>2, <1>3, <1>5, <1>6, <1>7, <1>8, GrantGood, ZenonT(30)

(* Every step has one of the four effects on every record, and hands out only
   records whose checkpoint is still the one the poller read.                *)
LEMMA NextGood ==
  ASSUME IInv, ReadInv, Next
  PROVE  Good
<1>0. TypeOK
  BY DEF IInv
<1>1. CASE Tick
  BY <1>1, TickGood
<1>2. CASE Restart
  BY <1>2, RestartGood
<1>3. CASE Producer
  BY <1>0, <1>3, AppendGood DEF Producer
<1>4. CASE Poller
  <2>1. PICK skip, only, max : \/ \E ttl \in TTLs : LeaseAtomic(skip, only, max, ttl)
                               \/ \E w \in Callers : LeaseSelect(w, skip, only, max)
    BY <1>4 DEF Poller
  <2> QED
    BY <2>1, AtomicGood, SelectGood
<1>5. CASE Committer
  BY <1>5, CommitGood DEF Committer
<1>6. CASE Worker
  BY <1>6, WorkerGood DEF Worker
<1>7. CASE Operator
  BY <1>0, <1>7, RequeueGood, DiscardGood DEF Operator
<1> QED
  BY <1>1, <1>2, <1>3, <1>4, <1>5, <1>6, <1>7 DEF Next

(* Every step keeps the attempts equal to the grants that count.             *)
LEMMA CountStep ==
  ASSUME IInv, AttemptInv, ReadInv, [Next]_vars
  PROVE  AttemptInv' /\ ReadInv'
<1>1. CASE Next
  <2>1. Good
    BY <1>1, NextGood
  <2>2. TypeOK /\ TypeOK'
    BY NextInv DEF IInv
  <2> QED
    BY <2>1, <2>2, EffectKeeps DEF Good
<1>2. CASE UNCHANGED vars
  BY <1>2 DEF vars, AttemptInv, ReadInv, Counting
<1> QED
  BY <1>1, <1>2

(* Initially nothing is granted.                                             *)
LEMMA CountInit ==
  ASSUME Init
  PROVE  AttemptInv /\ ReadInv
<1>1. /\ items = [id \in Ids |-> NoItem] /\ grants = [id \in Ids |-> <<>>]
      /\ base = [id \in Ids |-> 0]
  BY DEF Init
<1>2. NoItem.state = "absent" /\ NoItem.res = Free
  BY DEF NoItem
<1> QED
  BY <1>1, <1>2, SMTT(30) DEF AttemptInv, ReadInv, Fresh

(* The inductive fact behind AttemptsCorrect and HandoutCorrect.             *)
LEMMA CountsInductive == Spec => [](AttemptInv /\ ReadInv)
<1>1. Init => AttemptInv /\ ReadInv
  BY CountInit
<1>2. IInv /\ (AttemptInv /\ ReadInv) /\ [Next]_vars => (AttemptInv /\ ReadInv)'
  BY CountStep
<1> QED
  BY <1>1, <1>2, Inductive, PTL DEF Spec

(* A record's attempts is the number of leases it was given since it was
   appended or requeued, without the refunded ones: commitLease counts, and the
   refunds of Nack and Release never meet their floor at zero.                *)
THEOREM AttemptsCorrect == Spec => []AttemptsExact
<1>1. AttemptInv => AttemptsExact
  BY DEF AttemptInv, AttemptsExact, Live, Counting
<1> QED
  BY <1>1, CountsInductive, PTL

(* The commit of a Lease call hands out the checkpoint the record has then,
   although it was read with the lock released: the version check of WALStore
   leaves out every record that changed in between.                          *)
THEOREM HandoutCorrect == Spec => HandoutIsCurrent
<1>1. IInv /\ ReadInv /\ [Next]_vars =>
        [\A id \in Ids : Len(grants'[id]) > Len(grants[id]) /\ items[id].res # Free =>
           items[id].read = items[id].ckpt]_vars
  <2>1. ASSUME IInv, ReadInv, Next
        PROVE  \A id \in Ids : Len(grants'[id]) > Len(grants[id]) /\ items[id].res # Free =>
                 items[id].read = items[id].ckpt
    BY <2>1, NextGood DEF Good, Handout
  <2> QED
    BY <2>1
<1> QED
  BY <1>1, CountsInductive, Inductive, PTL DEF Spec, HandoutIsCurrent
=============================================================================
