--------------------------- MODULE RedriverProofs ---------------------------
(***************************************************************************)
(* What holds of the redriver for any number of records, dependencies and  *)
(* workers, and any number of faults.                                      *)
(***************************************************************************)
EXTENDS Redriver, FiniteSetTheorems, WellFoundedInduction, TLAPS

\* A leaf goes to Zenon, or to Z3 where it says so.
USE ZenonT(20), SMTT(30)

(* Every non-empty set of natural numbers has a least element.               *)
LEMMA Least ==
  ASSUME NEW S \in SUBSET Nat, S # {}
  PROVE  \E n \in S : \A m \in S : n <= m
<1>1. IsWellFoundedOn(OpToRel(<, Nat), Nat)
  BY NatLessThanWellFounded
<1>2. PICK n \in S : \A m \in S : ~(<<m, n>> \in OpToRel(<, Nat))
  BY <1>1, WFMin
<1>3. \A m \in S : ~(m < n)
  BY <1>2 DEF OpToRel
<1> QED
  BY <1>3, SMTT(30)

IsSeq(s) == \E S : s \in Seq(S)

(* Where a worker can be with a lease.                                       *)
Places == {"handle", "hold", "delete", "count", "wake"} \cup Settlements

Holding(h) == "at" \in DOMAIN h /\ "lease" \in DOMAIN h /\ h.at \in Places

(* The types that the proofs use, and what keeps the counter in its bound:   *)
(* dispatch never has more leases to queue than there are free places.       *)
Types ==
  /\ workers \in Nat /\ inflight \in Int
  /\ DOMAIN hand = 1..workers
  /\ \A w \in 1..workers : hand[w] = Idle \/ Holding(hand[w])
  /\ IsSeq(work) /\ IsSeq(offered)

Reserved ==
  /\ pc = "lease" => grant.n \in Nat /\ grant.n + inflight <= capacity
  /\ pc = "offer" => Len(offered) + inflight <= capacity

(* The workers that inflight still counts.                                   *)
Counted == {w \in InHand : hand[w].at # "wake"}

(* PoolSeenRight without the wake-up.                                        *)
Exact ==
  /\ inflight = Len(work) + Cardinality(Counted)
  /\ inflight <= capacity
  /\ active = {l.id : l \in Range(work)} \cup {hand[w].lease.id : w \in Handled}

Woken == pc = "full" /\ inflight < capacity => wake \/ \E w \in InHand : hand[w].at = "wake"

Inv == Types /\ Reserved /\ OneHandlerPerRecord /\ Exact /\ Woken

-----------------------------------------------------------------------------
(* Sequences and sets.                                                       *)

(* The smaller of two numbers.                                               *)
LEMMA MinOfTwo ==
  ASSUME NEW a \in Int, NEW b \in Int
  PROVE  Min({a, b}) \in {a, b} /\ Min({a, b}) <= a /\ Min({a, b}) <= b
<1>1. \E x \in {a, b} : \A y \in {a, b} : x <= y
  BY a <= b \/ b <= a, SMTT(30)
<1> QED
  BY <1>1 DEF Min

(* A finite set listed in some order has as many entries as members.         *)
LEMMA SeqOfSet ==
  ASSUME NEW S, IsFiniteSet(S)
  PROVE  listed(S) \in Seq(S) /\ Len(listed(S)) = Cardinality(S)
<1>1. PICK f : f \in Bijection(1..Cardinality(S), S)
  BY FS_CardinalityType DEF ExistsBijection
<1>2. f \in [1..Cardinality(S) -> S] /\ IsInjective(f)
  BY <1>1 DEF Bijection, Injection
<1>3. listed(S) \in [1..Cardinality(S) -> S]
  BY <1>2 DEF listed
<1> QED
  BY <1>3, FS_CardinalityType, SMTT(30)

(* The queue grows at its end and shrinks at its front.                      *)
LEMMA QueueGrows ==
  ASSUME NEW s, IsSeq(s), NEW x
  PROVE  /\ IsSeq(Append(s, x)) /\ Len(s) \in Nat /\ Len(Append(s, x)) = Len(s) + 1
         /\ DOMAIN s = 1..Len(s) /\ DOMAIN Append(s, x) = 1..Len(s) + 1
         /\ \A n \in 1..Len(s) : Append(s, x)[n] = s[n]
         /\ Append(s, x)[Len(s) + 1] = x
<1>1. PICK S : s \in Seq(S)
  BY DEF IsSeq
<1>2. s \in Seq(S \cup {x}) /\ x \in S \cup {x}
  BY <1>1, SMTT(30)
<1>3. Append(s, x) \in Seq(S \cup {x})
  BY <1>2, SMTT(30)
<1> QED
  BY <1>2, <1>3, SMTT(30) DEF IsSeq

(* What is left of a queue once its head is taken.                           *)
LEMMA QueueShrinks ==
  ASSUME NEW s, IsSeq(s), s # <<>>
  PROVE  /\ IsSeq(Tail(s)) /\ Len(s) \in Nat \ {0} /\ Len(Tail(s)) = Len(s) - 1
         /\ DOMAIN s = 1..Len(s) /\ DOMAIN Tail(s) = 1..Len(s) - 1
         /\ \A n \in 1..Len(s) - 1 : Tail(s)[n] = s[n + 1]
         /\ Head(s) = s[1]
<1>1. PICK S : s \in Seq(S)
  BY DEF IsSeq
<1>2. Tail(s) \in Seq(S) /\ Len(s) \in Nat \ {0}
  BY <1>1, SMTT(30)
<1> QED
  BY <1>1, <1>2, SMTT(30) DEF IsSeq

(* Finitely many leases are in the pool.                                     *)
LEMMA CountedFinite ==
  ASSUME Types
  PROVE  IsFiniteSet(Counted) /\ Cardinality(Counted) \in Nat
<1>1. Counted \in SUBSET (1..workers)
  BY DEF Counted, InHand
<1>2. IsFiniteSet(1..workers)
  BY FS_Interval, SMTT(30) DEF Types
<1> QED
  BY <1>1, <1>2, FS_Subset, FS_CardinalityType

-----------------------------------------------------------------------------
(* A worker that goes on with the lease it has.                              *)

Moved(w) ==
  /\ workers' = workers /\ DOMAIN hand' = 1..workers
  /\ \A v \in 1..workers : v # w => hand'[v] = hand[v]
  /\ Holding(hand'[w]) /\ hand'[w].lease = hand[w].lease

(* A worker that holds a lease is not idle.                                  *)
LEMMA HoldingIsNotIdle ==
  ASSUME NEW h, Holding(h)
  PROVE  h # Idle
BY SMTT(30) DEF Holding, Places, Settlements, Idle

(* Moving on inside a handler changes only where that worker is.             *)
LEMMA AtMoves ==
  ASSUME Types, NEW w \in 1..workers, Holding(hand[w]), NEW x \in Places, At(w, x),
         workers' = workers
  PROVE  Moved(w) /\ hand'[w].at = x
<1>1. hand' = [hand EXCEPT ![w] = [hand[w] EXCEPT !.at = x]]
  BY DEF At
<1>2. DOMAIN hand' = 1..workers /\ hand'[w] = [hand[w] EXCEPT !.at = x]
  BY <1>1 DEF Types
<1>3. /\ DOMAIN hand'[w] = DOMAIN hand[w]
      /\ hand'[w].at = x /\ hand'[w].lease = hand[w].lease
  BY <1>2 DEF Holding
<1>4. \A v \in 1..workers : v # w => hand'[v] = hand[v]
  BY <1>1 DEF Types
<1> QED
  BY <1>2, <1>3, <1>4 DEF Moved, Holding

(* A worker that moves on keeps its lease, and the others theirs.            *)
LEMMA MovedSets ==
  ASSUME Types, NEW w \in 1..workers, Holding(hand[w]), Moved(w)
  PROVE  /\ InHand' = InHand /\ w \in InHand
         /\ \A v \in InHand : hand'[v].lease = hand[v].lease
         /\ \A v \in InHand : v # w => hand'[v] = hand[v]
         /\ \A v \in 1..workers : hand'[v] = Idle \/ Holding(hand'[v])
<1>1. hand[w] # Idle /\ hand'[w] # Idle
  BY HoldingIsNotIdle DEF Moved
<1>2. InHand' = InHand /\ w \in InHand
  BY <1>1 DEF InHand, Moved
<1> QED
  BY <1>2 DEF InHand, Moved, Types

(* Nothing of the pool changes.                                              *)
LEMMA PoolStands ==
  ASSUME UNCHANGED <<workers, work, hand, active, inflight>>, OneHandlerPerRecord, Exact
  PROVE  OneHandlerPerRecord' /\ Exact' /\ InHand' = InHand
<1>1. InHand' = InHand /\ Handled' = Handled /\ Counted' = Counted
  BY DEF InHand, Handled, Counted
<1> QED
  BY <1>1, SMTT(30) DEF OneHandlerPerRecord, Exact, capacity

(* A worker gets from one place to another before it lets go of the record.  *)
LEMMA StillHandled ==
  ASSUME Inv, NEW w \in 1..workers, Holding(hand[w]), Moved(w),
         hand[w].at \notin {"count", "wake"}, hand'[w].at \notin {"count", "wake"},
         UNCHANGED <<work, active, inflight, wake, pc>>
  PROVE  OneHandlerPerRecord' /\ Exact' /\ Woken'
<1>1. /\ InHand' = InHand
      /\ \A v \in InHand : hand'[v].lease = hand[v].lease
      /\ \A v \in InHand : v # w => hand'[v] = hand[v]
  BY MovedSets DEF Inv
<1>2. Handled' = Handled /\ Counted' = Counted
  BY <1>1 DEF Handled, Counted
<1>3. \A v \in Handled : v \in InHand
  BY DEF Handled
<1>4. OneHandlerPerRecord'
  BY <1>1, <1>2, <1>3, SMTT(30) DEF OneHandlerPerRecord, Inv
<1>5. {hand'[v].lease.id : v \in Handled} = {hand[v].lease.id : v \in Handled}
  BY <1>1, <1>3
<1>6. Exact'
  BY <1>2, <1>5 DEF Exact, Inv, Moved, capacity
<1>7. Woken'
  BY <1>1 DEF Woken, Inv, Moved, capacity
<1> QED
  BY <1>4, <1>6, <1>7

(* process lets go of the record: no one else had it.                        *)
LEMMA DeleteKeeps ==
  ASSUME Inv, NEW w \in 1..workers, Delete(w)
  PROVE  Moved(w) /\ OneHandlerPerRecord' /\ Exact' /\ Woken'
<1>1. hand[w].at = "delete" /\ At(w, "count") /\ "count" \in Places
      /\ active' = active \ {hand[w].lease.id} /\ UNCHANGED <<workers, work, inflight, wake, pc>>
  BY DEF Delete, Places, dispatcher
<1>2. Types /\ Holding(hand[w])
  BY <1>1, SMTT(30) DEF Inv, Types, Idle
<1>3. Moved(w) /\ hand'[w].at = "count"
  BY <1>1, <1>2, AtMoves
<1>4. /\ InHand' = InHand /\ w \in InHand
      /\ \A v \in InHand : hand'[v].lease = hand[v].lease
      /\ \A v \in InHand : v # w => hand'[v] = hand[v]
  BY <1>2, <1>3, MovedSets
<1>5. Handled' = Handled \ {w} /\ w \in Handled /\ Handled \subseteq InHand
  BY <1>1, <1>3, <1>4 DEF Handled
<1>6. Counted' = Counted
  BY <1>1, <1>3, <1>4 DEF Counted
<1>7. OneHandlerPerRecord'
  BY <1>1, <1>4, <1>5, SMTT(30) DEF OneHandlerPerRecord, Inv
<1>8. {hand'[v].lease.id : v \in Handled'} = {hand[v].lease.id : v \in Handled} \ {hand[w].lease.id}
  BY <1>4, <1>5, SMTT(30) DEF OneHandlerPerRecord, Inv
<1>9. hand[w].lease.id \notin {l.id : l \in Range(work)}
  BY <1>5, SMTT(30) DEF OneHandlerPerRecord, Inv, Range
<1>10. active' = {l.id : l \in Range(work)} \cup {hand'[v].lease.id : v \in Handled'}
  BY <1>1, <1>8, <1>9 DEF Inv, Exact
<1>11. Exact'
  BY <1>1, <1>6, <1>10 DEF Exact, Inv, capacity
<1>12. Woken'
  BY <1>1, <1>3, <1>4 DEF Woken, Inv, capacity
<1> QED
  BY <1>3, <1>7, <1>11, <1>12

(* process counts itself out; until it wakes dispatch it is seen as about to. *)
LEMMA CountKeeps ==
  ASSUME Inv, NEW w \in 1..workers, Count(w)
  PROVE  Moved(w) /\ OneHandlerPerRecord' /\ Exact' /\ Woken'
<1>1. hand[w].at = "count" /\ At(w, "wake") /\ "wake" \in Places
      /\ inflight' = inflight - 1 /\ UNCHANGED <<workers, work, active, wake, pc>>
  BY DEF Count, Places, dispatcher
<1>2. Types /\ Holding(hand[w])
  BY <1>1, SMTT(30) DEF Inv, Types, Idle
<1>3. Moved(w) /\ hand'[w].at = "wake"
  BY <1>1, <1>2, AtMoves
<1>4. /\ InHand' = InHand /\ w \in InHand
      /\ \A v \in InHand : hand'[v].lease = hand[v].lease
      /\ \A v \in InHand : v # w => hand'[v] = hand[v]
  BY <1>2, <1>3, MovedSets
<1>5. Handled' = Handled /\ Handled \subseteq InHand
  BY <1>1, <1>3, <1>4 DEF Handled
<1>6. Counted' = Counted \ {w} /\ w \in Counted
  BY <1>1, <1>3, <1>4 DEF Counted
<1>7. Cardinality(Counted') = Cardinality(Counted) - 1 /\ Cardinality(Counted) \in Nat
  <2>1. IsFiniteSet(Counted) /\ Cardinality(Counted) \in Nat
    BY <1>2, CountedFinite
  <2>. QED  BY <1>6, <2>1, FS_RemoveElement
<1>8. OneHandlerPerRecord'
  <2>1. OneHandlerPerRecord /\ work' = work /\ \A v \in Handled : hand'[v].lease = hand[v].lease
    BY <1>1, <1>4, <1>5 DEF Inv
  <2>. QED  BY ONLY <1>5, <2>1, SMTT(30) DEF OneHandlerPerRecord
<1>9. {hand'[v].lease.id : v \in Handled'} = {hand[v].lease.id : v \in Handled}
  BY <1>4, <1>5
<1>10. inflight' = Len(work') + Cardinality(Counted') /\ inflight' <= capacity'
  <2>1. inflight = Len(work) + Cardinality(Counted) /\ inflight <= capacity
        /\ inflight \in Int /\ workers \in Nat
    BY <1>2 DEF Inv, Exact, Types
  <2>2. Len(work) \in Nat
    BY <1>2, QueueGrows DEF Types
  <2> QED
    BY <1>1, <1>7, <2>1, <2>2, SMTT(30) DEF capacity
<1>11. Exact'
  BY <1>1, <1>9, <1>10 DEF Exact, Inv
<1>12. Woken'
  BY <1>3, <1>4 DEF Woken
<1> QED
  BY <1>3, <1>8, <1>11, <1>12

(* process wakes dispatch, and its worker is free.                           *)
LEMMA WakeKeeps ==
  ASSUME Inv, NEW w \in 1..workers, Wake(w)
  PROVE  /\ DOMAIN hand' = 1..workers /\ hand'[w] = Idle
         /\ \A v \in 1..workers : v # w => hand'[v] = hand[v]
         /\ OneHandlerPerRecord' /\ Exact' /\ Woken'
<1>1. hand[w].at = "wake" /\ hand' = [hand EXCEPT ![w] = Idle] /\ wake' = TRUE
      /\ UNCHANGED <<workers, work, active, inflight>>
  BY DEF Wake
<1>2. /\ DOMAIN hand' = 1..workers /\ hand'[w] = Idle
      /\ \A v \in 1..workers : v # w => hand'[v] = hand[v]
  BY <1>1 DEF Inv, Types
<1>3. InHand' = InHand \ {w}
  BY <1>1, <1>2 DEF InHand
<1>4. Handled' = Handled /\ Counted' = Counted /\ \A v \in Handled : hand'[v] = hand[v]
  BY <1>1, <1>2, <1>3 DEF Handled, Counted, InHand
<1>5. OneHandlerPerRecord'
  BY <1>1, <1>4, SMTT(30) DEF OneHandlerPerRecord, Inv
<1>6. {hand'[v].lease.id : v \in Handled'} = {hand[v].lease.id : v \in Handled}
  BY <1>4
<1>7. Exact'
  BY <1>1, <1>4, <1>6 DEF Exact, Inv, capacity
<1> QED
  BY <1>1, <1>2, <1>5, <1>7 DEF Woken

-----------------------------------------------------------------------------
(* The queue.                                                                *)

(* A worker takes the first lease of the queue.                              *)
LEMMA TakeKeeps ==
  ASSUME Inv, NEW w \in 1..workers, Take(w)
  PROVE  Types' /\ OneHandlerPerRecord' /\ Exact' /\ Woken'
<1>1. /\ work # <<>> /\ hand[w] = Idle /\ work' = Tail(work)
      /\ hand' = [hand EXCEPT ![w] = [lease |-> Head(work), at |-> Start(Head(work))]]
      /\ UNCHANGED <<workers, active, inflight, wake, pc, offered>>
  BY DEF Take, shared, dispatcher
<1>2. Start(Head(work)) \in Places \ {"count", "wake"}
  BY DEF Start, Places, Settlements
<1>3. Types /\ IsSeq(work)
  BY DEF Inv, Types
<1>4. /\ IsSeq(work') /\ Len(work) \in Nat \ {0} /\ Len(work') = Len(work) - 1
      /\ DOMAIN work = 1..Len(work) /\ DOMAIN work' = 1..Len(work) - 1
      /\ \A n \in 1..Len(work) - 1 : work'[n] = work[n + 1]
      /\ Head(work) = work[1]
  BY <1>1, <1>3, QueueShrinks
<1>5. /\ DOMAIN hand' = 1..workers
      /\ hand'[w] = [lease |-> work[1], at |-> Start(Head(work))]
      /\ \A v \in 1..workers : v # w => hand'[v] = hand[v]
  BY <1>1, <1>3, <1>4 DEF Types
<1>6. Holding(hand'[w]) /\ hand'[w].lease = work[1] /\ hand'[w].at \notin {"count", "wake"}
  BY <1>2, <1>5, SMTT(30) DEF Holding
<1>7. hand'[w] # Idle
  BY <1>6, HoldingIsNotIdle
<1>8. InHand' = InHand \cup {w} /\ w \notin InHand
  BY <1>1, <1>5, <1>7 DEF InHand
<1>9. /\ Handled' = Handled \cup {w} /\ w \notin Handled
      /\ \A v \in Handled : hand'[v] = hand[v]
  BY <1>5, <1>6, <1>8 DEF Handled, InHand
<1>10. Counted' = Counted \cup {w} /\ w \notin Counted
  BY <1>5, <1>6, <1>8 DEF Counted, InHand
<1>11. Cardinality(Counted') = Cardinality(Counted) + 1 /\ Cardinality(Counted) \in Nat
  BY <1>3, <1>10, CountedFinite, FS_AddElement
<1>12. Types'
  BY <1>1, <1>3, <1>4, <1>5, <1>6 DEF Types
<1>13. OneHandlerPerRecord'
  <2>1. \A v, u \in Handled' : hand'[v].lease.id = hand'[u].lease.id => v = u
    BY <1>4, <1>6, <1>9, SMTT(30) DEF OneHandlerPerRecord, Inv
  <2>2. \A n \in DOMAIN work' : n + 1 \in DOMAIN work /\ work'[n] = work[n + 1] /\ n + 1 # 1
    BY <1>4, SMTT(30)
  <2>3. 1 \in DOMAIN work
    BY <1>4, SMTT(30)
  <2>4. \A n \in DOMAIN work' : \A v \in Handled' : hand'[v].lease.id # work'[n].id
    BY <1>6, <1>9, <2>2, <2>3, SMTT(30) DEF OneHandlerPerRecord, Inv
  <2>5. \A n, m \in DOMAIN work' : work'[m].id = work'[n].id => m + 1 = n + 1
    BY <2>2, SMTT(30) DEF OneHandlerPerRecord, Inv
  <2>6. \A n, m \in DOMAIN work' : m + 1 = n + 1 => m = n
    BY <1>4, SMTT(30)
  <2> QED
    BY <2>1, <2>4, <2>5, <2>6 DEF OneHandlerPerRecord
<1>14. {l.id : l \in Range(work)} = {l.id : l \in Range(work')} \cup {work[1].id}
  <2>1. \A n \in 1..Len(work) : n = 1 \/ (n - 1 \in 1..Len(work) - 1 /\ work[n] = work'[n - 1])
    BY <1>4, SMTT(30)
  <2>2. \A n \in 1..Len(work) - 1 : n + 1 \in 1..Len(work) /\ work'[n] = work[n + 1]
    BY <1>4, SMTT(30)
  <2>3. Range(work) \subseteq Range(work') \cup {work[1]}
    <3>1. SUFFICES ASSUME NEW n \in DOMAIN work PROVE work[n] \in Range(work') \cup {work[1]}
      BY DEF Range
    <3>2. n = 1 \/ (n - 1 \in DOMAIN work' /\ work[n] = work'[n - 1])
      BY <1>4, <2>1
    <3>3. ASSUME NEW m \in DOMAIN work' PROVE work'[m] \in Range(work')
      BY DEF Range
    <3> QED
      BY <3>2, <3>3
  <2>4. Range(work') \subseteq Range(work) /\ work[1] \in Range(work)
    <3>1. ASSUME NEW m \in DOMAIN work PROVE work[m] \in Range(work)
      BY DEF Range
    <3>2. ASSUME NEW n \in DOMAIN work' PROVE work'[n] \in Range(work)
      BY <1>4, <2>2, <3>1
    <3>3. Range(work') \subseteq Range(work)
      BY <3>2 DEF Range
    <3> QED
      BY <1>4, <3>1, <3>3, SMTT(30)
  <2> QED
    BY <2>3, <2>4
<1>15. {hand'[v].lease.id : v \in Handled'}
       = {hand[v].lease.id : v \in Handled} \cup {work[1].id}
  BY <1>6, <1>9, SMTT(30)
<1>16. active' = {l.id : l \in Range(work')} \cup {hand'[v].lease.id : v \in Handled'}
  BY <1>1, <1>14, <1>15 DEF Inv, Exact
<1>17. Exact'
  <2>1. inflight = Len(work) + Cardinality(Counted) /\ inflight <= capacity
    BY DEF Inv, Exact
  <2>2. inflight' = Len(work') + Cardinality(Counted')
    BY ONLY <1>1, <1>4, <1>11, <2>1, SMTT(30)
  <2>3. inflight' <= capacity'
    BY <1>1, <2>1 DEF capacity
  <2> QED
    BY <1>16, <2>2, <2>3 DEF Exact
<1>18. Woken'
  BY <1>1, <1>5, <1>8 DEF Woken, Inv, capacity, InHand
<1> QED
  BY <1>12, <1>13, <1>17, <1>18

(* fill queues a lease whose record nobody has.                              *)
LEMMA QueueKeeps ==
  ASSUME Inv, NEW l, l.id \notin active, active' = active \cup {l.id},
         inflight' = inflight + 1, inflight + 1 <= capacity, work' = Append(work, l),
         UNCHANGED <<workers, hand>>
  PROVE  IsSeq(work') /\ OneHandlerPerRecord' /\ Exact' /\ InHand' = InHand
<1>1. IsSeq(work) /\ Types
  BY DEF Inv, Types
<1>2. /\ IsSeq(work') /\ Len(work) \in Nat /\ Len(work') = Len(work) + 1
      /\ DOMAIN work = 1..Len(work) /\ DOMAIN work' = 1..Len(work) + 1
      /\ \A n \in 1..Len(work) : work'[n] = work[n]
      /\ work'[Len(work) + 1] = l
  BY <1>1, QueueGrows, SMTT(30)
<1>3. InHand' = InHand /\ Handled' = Handled /\ Counted' = Counted
  BY DEF InHand, Handled, Counted
<1>4. Cardinality(Counted) \in Nat
  BY <1>1, CountedFinite
<1>5. \A n \in DOMAIN work' : n \in DOMAIN work \/ n = Len(work) + 1
  BY <1>2, SMTT(30)
<1>6. /\ \A n \in DOMAIN work : work[n].id # l.id
      /\ \A w \in Handled : hand[w].lease.id # l.id
  BY DEF Inv, Exact, Range
<1>7. OneHandlerPerRecord'
  <2>1. \A n \in DOMAIN work : work'[n] = work[n]
    BY <1>2
  <2> QED
    BY <1>2, <1>3, <1>5, <1>6, <2>1, SMTT(30) DEF OneHandlerPerRecord, Inv
<1>8. Range(work') = Range(work) \cup {l}
  <2>1. DOMAIN work' = DOMAIN work \cup {Len(work) + 1}
    BY <1>2, SMTT(30)
  <2>2. \A n \in DOMAIN work : work'[n] = work[n]
    BY <1>2
  <2> QED
    BY <1>2, <2>1, <2>2, SMTT(30) DEF Range
<1>9. active' = {k.id : k \in Range(work')} \cup {hand'[w].lease.id : w \in Handled'}
  BY <1>3, <1>8 DEF Inv, Exact
<1>10. Exact'
  <2>1. inflight = Len(work) + Cardinality(Counted)
    BY DEF Inv, Exact
  <2>2. inflight' = Len(work') + Cardinality(Counted')
    BY <1>2, <1>3, <1>4, <2>1, SMTT(30)
  <2>3. inflight' <= capacity'
    BY DEF capacity
  <2> QED
    BY <1>9, <2>2, <2>3 DEF Exact
<1> QED
  BY <1>2, <1>3, <1>7, <1>10

(* fill leases no more records than it asked for.                            *)
LEMMA LeaseKeeps ==
  ASSUME Inv, Lease
  PROVE  /\ IsSeq(offered') /\ pc' \in {"idle", "offer"}
         /\ Len(offered') + inflight <= capacity
<1>. DEFINE due == {i \in Ids : Eligible(i, grant.skip)}
            lease(i) == [id |-> i, token |-> rec'[i].token, attempts |-> rec'[i].attempts]
<1>1. pc = "lease" /\ grant.n \in Nat /\ grant.n + inflight <= capacity
      /\ inflight \in Int /\ workers \in Nat
  BY DEF Lease, Inv, Reserved, Types
<1>2. PICK S \in SUBSET due :
         /\ Cardinality(S) = Min({grant.n, Cardinality(due)})
         /\ offered' = listed({lease(i) : i \in S})
         /\ pc' = IF S = {} THEN "idle" ELSE "offer"
  BY DEF Lease
<1>3. IsFiniteSet(due) /\ Cardinality(due) \in Nat
  BY FS_Subset, FS_CardinalityType, RedriverAssumption
<1>4. IsFiniteSet(S) /\ Cardinality(S) \in Nat
  BY <1>2, <1>3, FS_Subset, FS_CardinalityType
<1>5. Cardinality(S) <= grant.n
  <2>. DEFINE c == Cardinality(due)
              g == grant.n
  <2>1. c \in Int /\ g \in Int
    BY <1>1, <1>3, SMTT(30)
  <2>2. Cardinality(S) = Min({g, c})
    BY <1>2
  <2>. HIDE DEF c, g
  <2>3. Cardinality(S) <= g
    BY <2>1, <2>2, MinOfTwo
  <2> QED
    BY <2>3 DEF g
<1>6. IsFiniteSet({lease(i) : i \in S}) /\ Cardinality({lease(i) : i \in S}) <= Cardinality(S)
  <2>1. [i \in S |-> lease(i)] \in Surjection(S, {lease(i) : i \in S})
    BY DEF Surjection
  <2> QED
    BY <1>4, <2>1, FS_Surjection
<1>. HIDE DEF lease, due
<1>7. /\ offered' \in Seq({lease(i) : i \in S})
      /\ Len(offered') = Cardinality({lease(i) : i \in S})
  BY <1>2, <1>6, SeqOfSet
<1>8. Cardinality({lease(i) : i \in S}) \in Nat
  BY <1>6, FS_CardinalityType
<1>9. Len(offered') + inflight <= capacity
  BY <1>1, <1>4, <1>5, <1>6, <1>7, <1>8, SMTT(30) DEF capacity
<1> QED
  BY <1>2, <1>7, <1>9 DEF IsSeq

(* fill's room: what it asks for fits the channel.                           *)
LEMMA FillKeeps ==
  ASSUME Inv, Fill
  PROVE  Reserved' /\ Woken'
<1>1. inflight \in Int /\ workers \in Nat /\ UNCHANGED <<workers, inflight, wake, hand>>
  BY DEF Inv, Types, Fill, shared
<1>2. CASE pc' = "closing"
  BY <1>2 DEF Reserved, Woken
<1>3. CASE inflight >= capacity /\ pc' = "full"
  BY <1>1, <1>3, SMTT(30) DEF Reserved, Woken, capacity
<1>4. ASSUME NEW n \in reserve(capacity - inflight), inflight < capacity,
             grant' = [n |-> n, skip |-> unavailable],
             pc' = IF n = 0 THEN "limited" ELSE "lease"
      PROVE  Reserved' /\ Woken'
  <2>1. Cardinality(Ids) \in Nat /\ capacity - inflight \in Int
    BY <1>1, FS_CardinalityType, RedriverAssumption, SMTT(30) DEF capacity
  <2>2. /\ Min({capacity - inflight, Cardinality(Ids)}) <= capacity - inflight
        /\ Min({capacity - inflight, Cardinality(Ids)}) \in Int
    BY <2>1, MinOfTwo, SMTT(30)
  <2>3. n \in Nat /\ n <= capacity - inflight
    BY <1>4, <2>1, <2>2, SMTT(30) DEF reserve
  <2>4. grant'.n = n /\ capacity' = capacity
    BY <1>1, <1>4 DEF capacity
  <2>5. n + inflight <= capacity
    BY <1>1, <2>3, SMTT(30) DEF capacity
  <2> QED
    BY <1>1, <1>4, <2>3, <2>4, <2>5 DEF Reserved, Woken
<1> QED
  BY <1>2, <1>3, <1>4 DEF Fill

(* fill hands a busy record's lease back and queues any other.               *)
LEMMA OfferKeeps ==
  ASSUME Inv, Offer
  PROVE  Inv'
<1>1. /\ pc = "offer" /\ offered # <<>> /\ offered' = Tail(offered)
      /\ UNCHANGED <<workers, pc, hand, wake>>
  BY DEF Offer
<1>2. Types /\ IsSeq(offered) /\ inflight \in Int /\ workers \in Nat
  BY DEF Inv, Types
<1>3. IsSeq(offered') /\ Len(offered) \in Nat \ {0} /\ Len(offered') = Len(offered) - 1
  BY <1>1, <1>2, QueueShrinks
<1>4. Len(offered) + inflight <= capacity
  BY <1>1 DEF Inv, Reserved
<1>5. CASE UNCHANGED <<work, active, inflight>>
  <2>1. OneHandlerPerRecord' /\ Exact'
    BY <1>1, <1>5, PoolStands DEF Inv
  <2>2. Types'
    BY <1>1, <1>2, <1>3, <1>5 DEF Types
  <2>3. Reserved' /\ Woken'
    BY <1>1, <1>2, <1>3, <1>4, <1>5, SMTT(30) DEF Reserved, Woken, capacity
  <2> QED
    BY <2>1, <2>2, <2>3 DEF Inv
<1>6. CASE /\ ~Busy(Head(offered).id) /\ active' = active \cup {Head(offered).id}
           /\ inflight' = inflight + 1 /\ work' = Append(work, Head(offered))
  <2>1. Head(offered).id \notin active /\ inflight + 1 <= capacity
    BY <1>2, <1>3, <1>4, <1>6, SMTT(30) DEF Busy, capacity
  <2>2. IsSeq(work') /\ OneHandlerPerRecord' /\ Exact'
    BY <1>1, <1>6, <2>1, QueueKeeps
  <2>3. Types'
    BY <1>1, <1>2, <1>3, <1>6, <2>2, SMTT(30) DEF Types
  <2>4. Reserved' /\ Woken'
    BY <1>1, <1>2, <1>3, <1>4, <1>6, SMTT(30) DEF Reserved, Woken, capacity
  <2> QED
    BY <2>2, <2>3, <2>4 DEF Inv
<1> QED
  BY <1>5, <1>6 DEF Offer

-----------------------------------------------------------------------------
(* The induction.                                                            *)

(* The inductive invariant holds initially.                                  *)
LEMMA InitInv == Init => Inv
<1> SUFFICES ASSUME Init PROVE Inv
  OBVIOUS
<1>1. workers \in Nat \ {0} /\ inflight = 0 /\ work = <<>> /\ offered = <<>> /\ active = {}
      /\ pc = "fill" /\ hand = [w \in 1..workers |-> Idle]
  BY RedriverAssumption DEF Init
<1>2. IsSeq(<<>>)
  BY <<>> \in Seq({}), SMTT(30) DEF IsSeq
<1>3. Types
  BY <1>1, <1>2, SMTT(30) DEF Types
<1>4. InHand = {} /\ Handled = {} /\ Counted = {}
  BY <1>1 DEF InHand, Handled, Counted
<1>5. Cardinality(Counted) = 0 /\ Len(work) = 0 /\ DOMAIN work = {}
  BY <1>1, <1>4, FS_EmptySet, SMTT(30)
<1>6. {l.id : l \in Range(work)} = {} /\ {hand[w].lease.id : w \in Handled} = {}
  BY <1>4, <1>5 DEF Range
<1>7. Exact
  <2>1. inflight = Len(work) + Cardinality(Counted) /\ inflight <= capacity
    BY ONLY <1>1, <1>5, SMTT(30) DEF capacity
  <2>2. active = {l.id : l \in Range(work)} \cup {hand[w].lease.id : w \in Handled}
    <3>1. {} \cup {} = {}
      OBVIOUS
    <3> QED
      BY ONLY <1>1, <1>6, <3>1, Zenon
  <2> QED
    BY ONLY <2>1, <2>2, Zenon DEF Exact
<1>8. OneHandlerPerRecord
  BY <1>4, <1>5 DEF OneHandlerPerRecord
<1> QED
  BY <1>1, <1>3, <1>7, <1>8 DEF Inv, Reserved, Woken

(* A pool that fits still fits when it shrinks.                              *)
LEMMA RoomStays ==
  ASSUME NEW n \in Nat, NEW a \in Int, NEW b \in Int, NEW c \in Int, b <= a, n + a <= c
  PROVE  n + b <= c
BY SMTT(30)

(* A worker that moves leaves the types and the room that fill reserved.     *)
LEMMA WorkerRoom ==
  ASSUME Inv, UNCHANGED <<workers, pc, grant, offered>>, inflight' \in Int, inflight' <= inflight
  PROVE  Reserved'
<1>1. inflight \in Int /\ workers \in Nat /\ IsSeq(offered)
  BY DEF Inv, Types
<1>2. Len(offered) \in Nat
  BY <1>1, QueueGrows
<1>3. capacity \in Int /\ capacity' = capacity
  BY <1>1, SMTT(30) DEF capacity
<1>4. \A n \in Nat : n + inflight <= capacity => n + inflight' <= capacity
  <2>1. inflight' \in Int /\ inflight' <= inflight /\ inflight \in Int /\ workers \in Nat
    BY <1>1
  <2>2. ASSUME NEW n \in Nat, n + inflight <= capacity
        PROVE  n + inflight' <= capacity
    BY ONLY <1>3, <2>1, <2>2, RoomStays, Zenon
  <2> QED
    BY <2>2
<1>5. pc' = "lease" => grant'.n \in Nat /\ grant'.n + inflight' <= capacity'
  BY <1>3, <1>4 DEF Inv, Reserved
<1>6. pc' = "offer" => Len(offered') + inflight' <= capacity'
  BY <1>2, <1>3, <1>4 DEF Inv, Reserved
<1> QED
  BY <1>5, <1>6 DEF Reserved

(* A worker that moves on keeps the types.                                   *)
LEMMA WorkerTypes ==
  ASSUME Inv, NEW w \in 1..workers, Holding(hand[w]), Moved(w), UNCHANGED <<work, offered>>,
         inflight' \in Int
  PROVE  Types'
<1>1. \A v \in 1..workers : hand'[v] = Idle \/ Holding(hand'[v])
  BY MovedSets DEF Inv
<1> QED
  BY <1>1 DEF Inv, Types, Moved

(* The handler returns, or a settlement does, or a dependency is held back.  *)
LEMMA SettleMoves ==
  ASSUME Inv, NEW w \in 1..workers, Handle(w) \/ settle(w) \/ holdDependency(w)
  PROVE  /\ Holding(hand[w]) /\ Moved(w)
         /\ hand[w].at \notin {"count", "wake"} /\ hand'[w].at \notin {"count", "wake"}
         /\ UNCHANGED <<workers, work, active, inflight, wake, dispatcher>>
<1>1. hand[w].at \in {"handle", "hold"} \cup Settlements
  BY DEF Handle, settle, holdDependency
<1>2. Types /\ Holding(hand[w])
  BY <1>1, SMTT(30) DEF Inv, Types, Idle, Settlements
<1>3. UNCHANGED <<workers, work, active, inflight, wake, dispatcher>>
  BY DEF Handle, settle, holdDependency, shared
<1>4. CASE \E x \in Settlements \cup {"hold", "delete"} : At(w, x)
  <2>1. PICK x \in Settlements \cup {"hold", "delete"} : At(w, x)
    BY <1>4
  <2>2. x \in Places /\ x \notin {"count", "wake"}
    BY <2>1 DEF Places, Settlements
  <2>3. Moved(w) /\ hand'[w].at = x
    BY <1>2, <1>3, <2>1, <2>2, AtMoves
  <2> QED
    BY <1>1, <1>2, <1>3, <2>2, <2>3 DEF Settlements
<1>5. CASE \E d \in Deps : \E x \in {"refund", "block"} :
              hand' = [hand EXCEPT ![w] = [lease |-> @.lease, at |-> x, dep |-> d]]
  <2>1. PICK d \in Deps, x \in {"refund", "block"} :
              hand' = [hand EXCEPT ![w] = [lease |-> hand[w].lease, at |-> x, dep |-> d]]
    BY <1>5
  <2>2. /\ DOMAIN hand' = 1..workers
        /\ hand'[w] = [lease |-> hand[w].lease, at |-> x, dep |-> d]
        /\ \A v \in 1..workers : v # w => hand'[v] = hand[v]
    BY <1>2, <2>1 DEF Types
  <2>3. Holding(hand'[w]) /\ hand'[w].lease = hand[w].lease /\ hand'[w].at = x
    BY <2>2, SMTT(30) DEF Holding, Places, Settlements
  <2> QED
    BY <1>1, <1>2, <1>3, <2>2, <2>3 DEF Moved, Settlements
<1>6. CASE Handle(w)
  <2>1. \/ At(w, "ack") \/ At(w, "park") \/ At(w, "release") \/ At(w, "nack")
        \/ \E d \in Deps : hand' = [hand EXCEPT ![w] = [lease |-> @.lease, at |-> "refund", dep |-> d]]
        \/ \E d \in Deps : hand' = [hand EXCEPT ![w] = [lease |-> @.lease, at |-> "block", dep |-> d]]
    BY <1>6 DEF Handle
  <2> QED
    BY <1>4, <1>5, <2>1 DEF Settlements
<1>7. CASE settle(w) \/ holdDependency(w)
  <2>1. At(w, "hold") \/ At(w, "delete")
    BY <1>7 DEF settle, holdDependency
  <2> QED
    BY <1>4, <2>1
<1> QED
  BY <1>6, <1>7

(* Every step of a worker keeps the inductive invariant.                     *)
LEMMA WorkerInv ==
  ASSUME Inv, NEW w \in 1..workers, Worker(w)
  PROVE  Inv'
<1>0. inflight \in Int /\ Types
  BY DEF Inv, Types
<1>1. CASE Take(w)
  <2>1. Types' /\ OneHandlerPerRecord' /\ Exact' /\ Woken'
    BY <1>1, TakeKeeps
  <2>2. UNCHANGED <<workers, pc, grant, offered, inflight>>
    BY <1>1 DEF Take, dispatcher, shared
  <2>3. Reserved'
    BY <1>0, <2>2, WorkerRoom, SMTT(30)
  <2> QED
    BY <2>1, <2>3 DEF Inv
<1>2. CASE Handle(w) \/ settle(w) \/ holdDependency(w)
  <2>1. /\ Holding(hand[w]) /\ Moved(w)
        /\ hand[w].at \notin {"count", "wake"} /\ hand'[w].at \notin {"count", "wake"}
        /\ UNCHANGED <<workers, work, active, inflight, wake, dispatcher>>
    BY <1>2, SettleMoves
  <2>2. UNCHANGED <<pc, grant, offered>>
    BY <2>1 DEF dispatcher
  <2>3. OneHandlerPerRecord' /\ Exact' /\ Woken'
    BY <2>1, <2>2, StillHandled
  <2>4. Types' /\ Reserved'
    BY <1>0, <2>1, <2>2, WorkerTypes, WorkerRoom, SMTT(30)
  <2> QED
    BY <2>3, <2>4 DEF Inv
<1>3. CASE Delete(w) \/ Count(w)
  <2>1. Moved(w) /\ OneHandlerPerRecord' /\ Exact' /\ Woken'
    BY <1>3, DeleteKeeps, CountKeeps
  <2>2. /\ hand[w].at \in {"delete", "count"} /\ inflight' \in {inflight, inflight - 1}
        /\ UNCHANGED <<workers, work, pc, grant, offered>>
    BY <1>3 DEF Delete, Count, dispatcher
  <2>3. Holding(hand[w])
    BY <1>0, <2>2, SMTT(30) DEF Types, Idle
  <2>4. inflight' \in Int /\ inflight' <= inflight
    BY <1>0, <2>2, SMTT(30)
  <2>5. Types' /\ Reserved'
    BY <2>1, <2>2, <2>3, <2>4, WorkerTypes, WorkerRoom
  <2> QED
    BY <2>1, <2>5 DEF Inv
<1>4. CASE Wake(w)
  <2>1. /\ DOMAIN hand' = 1..workers /\ hand'[w] = Idle
        /\ \A v \in 1..workers : v # w => hand'[v] = hand[v]
        /\ OneHandlerPerRecord' /\ Exact' /\ Woken'
    BY <1>4, WakeKeeps
  <2>2. UNCHANGED <<workers, work, inflight, pc, grant, offered>>
    BY <1>4 DEF Wake, dispatcher
  <2>3. Types'
    BY <1>0, <2>1, <2>2 DEF Types
  <2>4. Reserved'
    BY <1>0, <2>2, WorkerRoom, SMTT(30)
  <2> QED
    BY <2>1, <2>3, <2>4 DEF Inv
<1> QED
  BY <1>1, <1>2, <1>3, <1>4 DEF Worker

(* The steps that leave the pool alone: of dispatch, the store, the clock and *)
(* the breakers.                                                             *)
LEMMA OtherInv ==
  ASSUME Inv, UNCHANGED <<workers, work, hand, active, inflight>>, IsSeq(offered'), Reserved', Woken'
  PROVE  Inv'
<1>1. OneHandlerPerRecord' /\ Exact'
  BY PoolStands DEF Inv
<1>2. Types'
  BY DEF Inv, Types
<1> QED
  BY <1>1, <1>2 DEF Inv

(* Leasing a batch, or failing to, keeps it.                                 *)
LEMMA DispatchInv ==
  ASSUME Inv, Dispatch \/ LeaseFails
  PROVE  Inv'
<1>0. IsSeq(offered)
  BY DEF Inv, Types
<1>1. CASE Fill
  <2>1. UNCHANGED <<workers, work, hand, active, inflight, offered>>
    BY <1>1 DEF Fill, shared
  <2> QED
    BY <1>0, <1>1, <2>1, FillKeeps, OtherInv
<1>2. CASE Lease
  <2>1. UNCHANGED <<workers, work, hand, active, inflight>>
    BY <1>2 DEF Lease, shared
  <2>2. /\ IsSeq(offered') /\ pc' \in {"idle", "offer"}
        /\ Len(offered') + inflight <= capacity
    BY <1>2, LeaseKeeps
  <2>3. Reserved' /\ Woken'
    BY <2>1, <2>2 DEF Reserved, Woken, capacity
  <2> QED
    BY <2>1, <2>2, <2>3, OtherInv
<1>3. CASE Offer
  BY <1>3, OfferKeeps
<1>4. CASE Offered \/ WaitEnds \/ Stop \/ LeaseFails
  <2>1. /\ UNCHANGED <<workers, work, hand, active, inflight, offered>>
        /\ pc' \in {"fill", "idle", "closing", "stopped", "retry"}
    BY <1>4 DEF Offered, WaitEnds, Stop, LeaseFails, shared
  <2>2. Reserved' /\ Woken'
    BY <2>1 DEF Reserved, Woken
  <2> QED
    BY <1>0, <2>1, <2>2, OtherInv
<1> QED
  BY <1>1, <1>2, <1>3, <1>4 DEF Dispatch

(* Every step keeps it.                                                      *)
LEMMA InvStep == Inv /\ [Next]_vars => Inv'
<1> SUFFICES ASSUME Inv, [Next]_vars PROVE Inv'
  OBVIOUS
<1>1. CASE Dispatch \/ LeaseFails
  BY <1>1, DispatchInv
<1>2. CASE \E w \in 1..workers : Worker(w)
  BY <1>2, WorkerInv
<1>3. CASE \/ Cancel \/ Resting \/ UNCHANGED vars
           \/ \E i \in Ids : Lapse(i) \/ DelayPasses(i)
           \/ \E d \in Deps : HoldPasses(d) \/ Outage(d) \/ Recovery(d)
  <2>1. /\ UNCHANGED <<workers, work, hand, active, inflight, pc, grant, offered>>
        /\ wake => wake'
    <3>. USE DEF shared, dispatcher
    <3>1. CASE Cancel BY <3>1 DEF Cancel
    <3>2. CASE Resting \/ UNCHANGED vars BY <3>2, SMTT(30) DEF Resting, vars
    <3>3. ASSUME NEW i \in Ids, Lapse(i) \/ DelayPasses(i)
          PROVE  /\ UNCHANGED <<workers, work, hand, active, inflight, pc, grant, offered>>
                 /\ wake => wake'
      BY <3>3, SMTT(30) DEF Lapse, DelayPasses
    <3>4. ASSUME NEW d \in Deps, HoldPasses(d) \/ Outage(d) \/ Recovery(d)
          PROVE  /\ UNCHANGED <<workers, work, hand, active, inflight, pc, grant, offered>>
                 /\ wake => wake'
      BY <3>4, SMTT(30) DEF HoldPasses, Outage, Recovery
    <3>. HIDE DEF shared, dispatcher
    <3> QED
      BY <1>3, <3>1, <3>2, <3>3, <3>4
  <2>2. Reserved' /\ IsSeq(offered')
    BY <2>1 DEF Inv, Reserved, Types, capacity
  <2>3. InHand' = InHand
    BY <2>1 DEF InHand
  <2>4. Woken'
    BY <2>1, <2>3 DEF Inv, Woken, capacity
  <2> QED
    BY <2>1, <2>2, <2>4, OtherInv
<1> QED
  BY <1>1, <1>2, <1>3 DEF Next

(* The inductive invariant holds in every reachable state.                   *)
LEMMA Inductive == Spec => []Inv
BY InitInv, InvStep, PTL DEF Spec

(* For any number of records and workers, and whatever fails: no two workers, *)
(* and no worker and the queue, have the same record (Redriver.active).      *)
THEOREM HandledOnce == Spec => []OneHandlerPerRecord
<1>1. Inv => OneHandlerPerRecord
  BY DEF Inv
<1> QED
  BY <1>1, Inductive, PTL

(* For any number of records and workers, and whatever fails: the counter    *)
(* covers what is queued and in hand, fits the channel, and dispatch, waiting *)
(* for a free worker, is woken when there is one (Redriver.inflight, wake).  *)
THEOREM PoolCorrect == Spec => []PoolSeenRight
<1>1. Inv => PoolSeenRight
  BY DEF Inv, PoolSeenRight, Exact, Woken, Counted
<1> QED
  BY <1>1, Inductive, PTL

-----------------------------------------------------------------------------
(* Leases and what the store knows of them.                                  *)

IsRecord(r) ==
  /\ DOMAIN r = {"st", "token", "lapsed", "due", "attempts", "dep"}
  /\ r.attempts \in Int /\ r.lapsed \in BOOLEAN

(* The leases somebody is to settle, and those that are to be handed back    *)
(* after a failure that counts.                                              *)
Unsettled == {w \in InHand : hand[w].at \in {"handle"} \cup Settlements}
OpenLeases == Range(offered) \cup Range(work) \cup {hand[w].lease : w \in Unsettled}
SpentLeases == {hand[w].lease : w \in {v \in InHand : hand[v].at \in {"block", "nack"}}}

Records ==
  /\ DOMAIN rec = Ids /\ \A i \in Ids : IsRecord(rec[i])
  /\ DOMAIN charged = Ids /\ \A i \in Ids : charged[i] \in Int
  /\ \A l \in OpenLeases : l.id \in Ids
  /\ pc # "offer" => offered = <<>>

(* AttemptsCharged, and where the charge has been made already: a lease that *)
(* ran out, a failure that is still to be settled.                           *)
Charges ==
  /\ AttemptsCharged
  /\ \A i \in Ids : rec[i].st = "leased" /\ rec[i].lapsed => rec[i].attempts <= charged[i]
  /\ \A l \in SpentLeases : Holds(l) => rec[l.id].attempts <= charged[l.id]

(* A record that is leased and not given up has somebody who will settle it. *)
Carried(i) == \E l \in OpenLeases : l.id = i /\ l.token = rec[i].token
Covered == \A i \in Ids \ lost : rec[i].st = "leased" => rec[i].lapsed \/ Carried(i)

LeaseInv == Records /\ Charges /\ Covered /\ CleanStop

-----------------------------------------------------------------------------
(* The token of a new lease is no one else's.                                *)
LEMMA FreshToken ==
  ASSUME Inv, NEW i,
         NEW l \in Range(work) \cup {hand[w].lease : w \in InHand}, l.id = i
  PROVE  l.token # NewToken(i)
<1>. DEFINE O == Outstanding(i)
            T == {k.token : k \in O}
            n == Cardinality(O)
            C == Range(work) \cup {hand[w].lease : w \in InHand}
<1>1. l \in O
  BY DEF Outstanding, InHand
<1>2. IsFiniteSet(Range(work))
  <2>1. DOMAIN work = 1..Len(work) /\ Len(work) \in Nat
    BY QueueGrows DEF Inv, Types
  <2>2. [m \in DOMAIN work |-> work[m]] \in Surjection(DOMAIN work, Range(work))
    BY DEF Surjection, Range
  <2> QED
    BY <2>1, <2>2, FS_Interval, FS_Surjection, SMTT(30)
<1>3. IsFiniteSet({hand[w].lease : w \in InHand})
  <2>1. IsFiniteSet(InHand)
    BY FS_Interval, FS_Subset, SMTT(30) DEF Inv, Types, InHand
  <2>2. [w \in InHand |-> hand[w].lease] \in Surjection(InHand, {hand[w].lease : w \in InHand})
    BY DEF Surjection
  <2> QED
    BY <2>1, <2>2, FS_Surjection
<1>4. IsFiniteSet(O) /\ n \in Nat
  <2>1. IsFiniteSet(C)
    BY <1>2, <1>3, FS_Union
  <2>2. O \subseteq C
    BY DEF Outstanding, InHand
  <2> QED
    BY <2>1, <2>2, FS_Subset, FS_CardinalityType
<1>5. IsFiniteSet(T) /\ Cardinality(T) <= n
  <2>1. [k \in O |-> k.token] \in Surjection(O, T)
    BY DEF Surjection
  <2>. HIDE DEF O, T
  <2> QED
    BY <1>4, <2>1, FS_Surjection DEF n
<1>. HIDE DEF O, T, n
<1>6. Cardinality(T) \in Nat
  BY <1>5, FS_CardinalityType
<1>7. Cardinality(1..n + 1) = n + 1
  BY <1>4, FS_Interval, SMTT(30)
<1>8. (1..n + 1) \ T # {}
  <2>1. SUFFICES ASSUME 1..n + 1 \subseteq T PROVE FALSE
    OBVIOUS
  <2>2. Cardinality(1..n + 1) <= Cardinality(T)
    BY <1>5, <2>1, FS_Subset
  <2> QED
    BY <1>4, <1>5, <1>6, <1>7, <2>2, SMTT(30)
<1>9. Min((1..n + 1) \ T) \in (1..n + 1) \ T
  <2>. DEFINE S == (1..n + 1) \ T
  <2>1. S # {} /\ S \subseteq Nat
    BY <1>4, <1>8, SMTT(30)
  <2>. HIDE DEF S
  <2>2. PICK m \in S : \A k \in S : m <= k
    BY <2>1, Least
  <2>3. Min(S) = CHOOSE j \in S : \A k \in S : j <= k
    BY DEF Min
  <2>4. Min(S) \in S
    BY <2>2, <2>3
  <2> QED  BY <2>4 DEF S
<1>10. NewToken(i) = Min((1..n + 1) \ T)
  BY DEF NewToken, n, T, O
<1>11. l.token \in T
  BY <1>1 DEF T
<1> QED
  BY <1>9, <1>10, <1>11

(* What the store makes of a record.                                         *)
LEMMA UnleasedIs ==
  ASSUME NEW i, IsRecord(rec[i]), NEW st
  PROVE  /\ IsRecord(Unleased(i, st)) /\ Unleased(i, st).st = st
         /\ Unleased(i, st).attempts = rec[i].attempts
BY DEF Unleased, IsRecord

(* A released record is pending, with its attempt given back.                *)
LEMMA ReleasedIs ==
  ASSUME NEW i, IsRecord(rec[i])
  PROVE  /\ IsRecord(Released(i)) /\ Released(i).st = "pending"
         /\ Released(i).attempts = rec[i].attempts - 1
BY UnleasedIs, SMTT(30) DEF Released, IsRecord

(* A nacked record is pending, with its attempt given back if refunded.      *)
LEMMA NackedIs ==
  ASSUME NEW i, IsRecord(rec[i]), NEW d, NEW refund \in BOOLEAN
  PROVE  /\ IsRecord(Nacked(i, d, refund)) /\ Nacked(i, d, refund).st = "pending"
         /\ Nacked(i, d, refund).attempts = IF refund THEN rec[i].attempts - 1 ELSE rec[i].attempts
BY UnleasedIs, SMTT(30) DEF Nacked, IsRecord

(* A leased record has a new token and one more attempt.                     *)
LEMMA LeasedIs ==
  ASSUME NEW i, IsRecord(rec[i])
  PROVE  /\ IsRecord(Leased(i)) /\ Leased(i).st = "leased" /\ Leased(i).token = NewToken(i)
         /\ ~Leased(i).lapsed /\ Leased(i).attempts = rec[i].attempts + 1
BY SMTT(30) DEF Leased, IsRecord

-----------------------------------------------------------------------------
(* The steps.                                                                *)

(* A lease whose attempt is spent is still open.                             *)
LEMMA SpentIsOpen == SpentLeases \subseteq OpenLeases
BY DEF SpentLeases, OpenLeases, Unsettled, Settlements

(* The store and the history stand.                                          *)
LEMMA StoreStands ==
  ASSUME LeaseInv, UNCHANGED <<rec, charged, lost>>, OpenLeases' = OpenLeases,
         SpentLeases' \subseteq SpentLeases, pc' # "offer" => offered' = <<>>,
         pc' = "stopped" => pc = "stopped"
  PROVE  LeaseInv'
<1>1. Records'
  BY DEF LeaseInv, Records
<1>2. Charges'
  BY DEF LeaseInv, Charges, AttemptsCharged, Holds
<1>3. Covered' /\ CleanStop'
  BY DEF LeaseInv, Covered, Carried, CleanStop
<1> QED
  BY <1>1, <1>2, <1>3 DEF LeaseInv

(* A worker goes on with its lease.                                          *)
LEMMA LeasesStand ==
  ASSUME Inv, NEW w \in 1..workers, Holding(hand[w]), Moved(w), UNCHANGED <<work, offered>>,
         hand[w].at \in {"handle"} \cup Settlements
           <=> hand'[w].at \in {"handle"} \cup Settlements
  PROVE  OpenLeases' = OpenLeases
<1>1. /\ InHand' = InHand /\ w \in InHand
      /\ \A v \in InHand : hand'[v].lease = hand[v].lease
      /\ \A v \in InHand : v # w => hand'[v] = hand[v]
  BY MovedSets DEF Inv
<1>2. Unsettled' = Unsettled /\ Unsettled \subseteq InHand
  BY <1>1 DEF Unsettled
<1>3. {hand'[v].lease : v \in Unsettled'} = {hand[v].lease : v \in Unsettled}
  BY <1>1, <1>2
<1> QED
  BY <1>3 DEF OpenLeases

(* A worker settles its lease, or tries to.                                  *)
LEMMA LeaseCloses ==
  ASSUME Inv, NEW w \in 1..workers, Holding(hand[w]), Moved(w), UNCHANGED <<work, offered>>,
         hand'[w].at \notin {"handle"} \cup Settlements
  PROVE  /\ OpenLeases' \subseteq OpenLeases
         /\ OpenLeases \subseteq OpenLeases' \cup {hand[w].lease}
         /\ SpentLeases' \subseteq SpentLeases
<1>1. /\ InHand' = InHand /\ w \in InHand
      /\ \A v \in InHand : hand'[v].lease = hand[v].lease
      /\ \A v \in InHand : v # w => hand'[v] = hand[v]
  BY MovedSets DEF Inv
<1>2. /\ Unsettled' \subseteq Unsettled /\ Unsettled \subseteq Unsettled' \cup {w}
      /\ Unsettled \subseteq InHand
  BY <1>1 DEF Unsettled
<1>3. SpentLeases' \subseteq SpentLeases
  BY <1>1 DEF SpentLeases, Settlements
<1> QED
  BY <1>1, <1>2, <1>3, SMTT(30) DEF OpenLeases

(* Taking a lease from the queue opens none, and spends none.                *)
LEMMA TakeLeases ==
  ASSUME Inv, NEW w \in 1..workers, Take(w)
  PROVE  OpenLeases' = OpenLeases /\ SpentLeases' \subseteq SpentLeases
<1>1. /\ work # <<>> /\ hand[w] = Idle /\ work' = Tail(work)
      /\ hand' = [hand EXCEPT ![w] = [lease |-> Head(work), at |-> Start(Head(work))]]
      /\ UNCHANGED <<workers, offered>>
  BY DEF Take, dispatcher
<1>2. Start(Head(work)) \in {"release", "park", "handle"}
  BY DEF Start
<1>3. Types /\ IsSeq(work)
  BY DEF Inv, Types
<1>4. /\ Len(work) \in Nat \ {0}
      /\ DOMAIN work = 1..Len(work) /\ DOMAIN work' = 1..Len(work) - 1
      /\ \A n \in 1..Len(work) - 1 : work'[n] = work[n + 1]
      /\ Head(work) = work[1]
  BY <1>1, <1>3, QueueShrinks
<1>5. /\ hand'[w] = [lease |-> work[1], at |-> Start(Head(work))]
      /\ \A v \in 1..workers : v # w => hand'[v] = hand[v]
  BY <1>1, <1>3, <1>4 DEF Types
<1>6. hand'[w].lease = work[1] /\ hand'[w].at \in {"release", "park", "handle"} /\ hand'[w] # Idle
  BY <1>2, <1>5, SMTT(30) DEF Idle
<1>7. /\ InHand' = InHand \cup {w} /\ w \notin InHand
      /\ \A v \in InHand : v # w /\ hand'[v] = hand[v]
  BY <1>1, <1>5, <1>6 DEF InHand
<1>8. Unsettled' = Unsettled \cup {w} /\ Unsettled \subseteq InHand
  BY <1>6, <1>7 DEF Unsettled, Settlements
<1>9. {hand'[v].lease : v \in Unsettled'} = {hand[v].lease : v \in Unsettled} \cup {work[1]}
  BY <1>6, <1>7, <1>8, SMTT(30)
<1>10. SpentLeases' \subseteq SpentLeases
  BY <1>6, <1>7, SMTT(30) DEF SpentLeases
<1>11. Range(work) = Range(work') \cup {work[1]}
  <2>1. \A n \in DOMAIN work : n = 1 \/ (n - 1 \in DOMAIN work' /\ work[n] = work'[n - 1])
    BY <1>4, SMTT(30)
  <2>2. \A n \in DOMAIN work' : n + 1 \in DOMAIN work /\ work'[n] = work[n + 1]
    BY <1>4, SMTT(30)
  <2>3. 1 \in DOMAIN work
    BY <1>4, SMTT(30)
  <2> QED
    BY <2>1, <2>2, <2>3, SMTT(30) DEF Range
<1> QED
  BY <1>1, <1>9, <1>10, <1>11 DEF OpenLeases

(* The handler returns: what counts against the record is charged at once.   *)
LEMMA HandleLeases ==
  ASSUME Inv, LeaseInv, NEW w \in 1..workers, Handle(w)
  PROVE  LeaseInv'
<1>. DEFINE l == hand[w].lease
<1>1. /\ hand[w].at = "handle" /\ UNCHANGED <<rec, work, lost, pc, offered>>
  BY DEF Handle, dispatcher
<1>2. Holding(hand[w]) /\ Moved(w) /\ hand'[w].at \in Settlements
  <2>1. Holding(hand[w]) /\ Moved(w)
    BY SettleMoves
  <2>2. DOMAIN hand = 1..workers
    BY DEF Inv, Types
  <2>3. hand'[w].at \in Settlements
    <3>1. ASSUME NEW x \in Settlements, At(w, x) PROVE hand'[w].at \in Settlements
      <4>1. hand'[w] = [hand[w] EXCEPT !.at = x]
        BY <2>2, <3>1 DEF At
      <4> QED
        BY <2>1, <3>1, <4>1 DEF Holding
    <3>2. ASSUME NEW d \in Deps, NEW x \in {"refund", "block"},
                 hand' = [hand EXCEPT ![w] = [lease |-> @.lease, at |-> x, dep |-> d]]
          PROVE  hand'[w].at \in Settlements
      BY <2>2, <3>2 DEF Settlements
    <3>3. \/ At(w, "ack") \/ At(w, "park") \/ At(w, "release") \/ At(w, "nack")
          \/ \E d \in Deps : hand' = [hand EXCEPT ![w] = [lease |-> @.lease, at |-> "refund", dep |-> d]]
          \/ \E d \in Deps : hand' = [hand EXCEPT ![w] = [lease |-> @.lease, at |-> "block", dep |-> d]]
      BY DEF Handle
    <3> QED
      BY <3>1, <3>2, <3>3 DEF Settlements
  <2> QED
    BY <2>1, <2>3
<1>3. /\ InHand' = InHand /\ w \in InHand
      /\ \A v \in InHand : hand'[v].lease = hand[v].lease
      /\ \A v \in InHand : v # w => hand'[v] = hand[v]
  BY <1>2, MovedSets DEF Inv
<1>4. OpenLeases' = OpenLeases
  BY <1>1, <1>2, LeasesStand
<1>5. l \in OpenLeases /\ l.id \in Ids
  <2>1. w \in Unsettled
    BY <1>1, <1>3 DEF Unsettled
  <2> QED
    BY <2>1 DEF OpenLeases, LeaseInv, Records
<1>6. \/ charged' = charged /\ hand'[w].at \notin {"block", "nack"}
      \/ charged' = [charged EXCEPT ![l.id] = @ + 1]
  <2>1. DOMAIN hand = 1..workers /\ Holding(hand[w])
    BY <1>2 DEF Inv, Types
  <2>2. ASSUME NEW x \in Settlements, At(w, x) PROVE hand'[w].at = x
    <3>1. hand'[w] = [hand[w] EXCEPT !.at = x]
      BY <2>1, <2>2 DEF At
    <3> QED
      BY <2>1, <3>1 DEF Holding
  <2>3. ASSUME NEW d \in Deps,
               hand' = [hand EXCEPT ![w] = [lease |-> @.lease, at |-> "refund", dep |-> d]]
        PROVE  hand'[w].at = "refund"
    BY <2>1, <2>3
  <2>4. CASE charged' = charged
    <3>1. \/ At(w, "ack") \/ At(w, "park") \/ At(w, "release")
          \/ \E d \in Deps : hand' = [hand EXCEPT ![w] = [lease |-> @.lease, at |-> "refund", dep |-> d]]
          \/ charged' = [charged EXCEPT ![l.id] = @ + 1]
      BY DEF Handle
    <3> QED
      BY <2>2, <2>3, <2>4, <3>1 DEF Settlements
  <2>5. charged' = charged \/ charged' = [charged EXCEPT ![l.id] = @ + 1]
    BY DEF Handle
  <2> QED
    BY <2>4, <2>5
<1>7. SpentLeases' \subseteq SpentLeases \cup {l}
  BY <1>3 DEF SpentLeases
<1>8. CASE charged' = charged /\ hand'[w].at \notin {"block", "nack"}
  <2>1. SpentLeases' \subseteq SpentLeases
    BY <1>3, <1>8 DEF SpentLeases
  <2> QED
    BY <1>1, <1>4, <1>8, <2>1, StoreStands DEF LeaseInv, Records
<1>9. CASE charged' = [charged EXCEPT ![l.id] = @ + 1]
  <2>. HIDE DEF l
  <2>1. /\ DOMAIN charged' = Ids /\ charged'[l.id] = charged[l.id] + 1
        /\ \A i \in Ids : charged'[i] \in Int /\ charged[i] \in Int /\ charged[i] <= charged'[i]
    BY <1>5, <1>9, SMTT(30) DEF LeaseInv, Records
  <2>2. Records'
    BY <1>1, <1>4, <2>1 DEF LeaseInv, Records
  <2>3. \A i \in Ids : rec[i].attempts \in Int
    BY DEF LeaseInv, Records, IsRecord
  <2>4. AttemptsCharged'
    <3>1. SUFFICES ASSUME NEW i \in Ids
                   PROVE  rec[i].attempts <= charged'[i] + (IF rec[i].st = "pending" THEN 0 ELSE 1)
      BY <1>1 DEF AttemptsCharged
    <3>2. rec[i].attempts <= charged[i] + (IF rec[i].st = "pending" THEN 0 ELSE 1)
      BY DEF LeaseInv, Charges, AttemptsCharged
    <3> QED
      BY <2>1, <2>3, <3>2, SMTT(30)
  <2>5. rec[l.id].attempts <= charged'[l.id]
    <3>1. rec[l.id].attempts <= charged[l.id] + (IF rec[l.id].st = "pending" THEN 0 ELSE 1)
      BY <1>5 DEF LeaseInv, Charges, AttemptsCharged
    <3> QED
      BY <1>5, <2>1, <2>3, <3>1, SMTT(30)
  <2>6. \A i \in Ids : rec'[i].st = "leased" /\ rec'[i].lapsed => rec'[i].attempts <= charged'[i]
    <3>1. SUFFICES ASSUME NEW i \in Ids, rec[i].st = "leased" /\ rec[i].lapsed
                   PROVE  rec[i].attempts <= charged'[i]
      BY <1>1
    <3>2. rec[i].attempts <= charged[i]
      BY <3>1 DEF LeaseInv, Charges
    <3> QED
      BY <2>1, <2>3, <3>2, SMTT(30)
  <2>7. \A k \in SpentLeases' : Holds(k)' => rec'[k.id].attempts <= charged'[k.id]
    <3>1. SUFFICES ASSUME NEW k \in SpentLeases', Holds(k), k # l
                   PROVE  rec[k.id].attempts <= charged'[k.id]
      BY <1>1, <2>5 DEF Holds
    <3>2. k \in SpentLeases /\ k.id \in Ids
      BY <1>7, <3>1, SpentIsOpen DEF LeaseInv, Records
    <3>3. rec[k.id].attempts <= charged[k.id]
      BY <3>1, <3>2 DEF LeaseInv, Charges
    <3> QED
      BY <2>1, <2>3, <3>2, <3>3, SMTT(30)
  <2>8. Charges'
    BY <2>4, <2>6, <2>7 DEF Charges
  <2>9. Covered' /\ CleanStop'
    BY <1>1, <1>4 DEF LeaseInv, Covered, Carried, CleanStop
  <2> QED
    BY <2>2, <2>8, <2>9 DEF LeaseInv
<1> QED
  BY <1>6, <1>8, <1>9

(* One record is no longer leased, under the lease that it had.              *)
LEMMA RecordSettles ==
  ASSUME Inv, LeaseInv, NEW l, l.id \in Ids, Holds(l), NEW r, IsRecord(r), r.st # "leased",
         r.st = "pending" => r.attempts <= charged[l.id],
         r.attempts <= rec[l.id].attempts,
         rec' = [rec EXCEPT ![l.id] = r],
         OpenLeases' \subseteq OpenLeases, OpenLeases \subseteq OpenLeases' \cup {l},
         SpentLeases' \subseteq SpentLeases, UNCHANGED <<charged, lost, pc>>,
         pc # "offer" => offered' = <<>>
  PROVE  LeaseInv'
<1>1. /\ DOMAIN rec' = Ids /\ rec'[l.id] = r /\ DOMAIN rec = Ids
      /\ \A i \in Ids : i # l.id => rec'[i] = rec[i]
  BY DEF LeaseInv, Records
<1>2. Records'
  BY <1>1 DEF LeaseInv, Records
<1>3. \A i \in Ids : /\ rec[i].attempts \in Int /\ rec'[i].attempts \in Int /\ charged[i] \in Int
                     /\ charged'[i] = charged[i]
  BY <1>2 DEF LeaseInv, Records, IsRecord
<1>4. AttemptsCharged'
  <2>1. SUFFICES ASSUME NEW i \in Ids
                 PROVE  rec'[i].attempts <= charged[i] + (IF rec'[i].st = "pending" THEN 0 ELSE 1)
    BY DEF AttemptsCharged
  <2>2. rec[i].attempts <= charged[i] + (IF rec[i].st = "pending" THEN 0 ELSE 1)
    BY DEF LeaseInv, Charges, AttemptsCharged
  <2>3. CASE i # l.id
    BY <1>1, <2>2, <2>3
  <2>4. CASE i = l.id
    BY <1>1, <1>3, <2>2, <2>4, SMTT(30) DEF Holds
  <2> QED
    BY <2>3, <2>4
<1>5. \A i \in Ids : rec'[i].st = "leased" => i # l.id /\ rec'[i] = rec[i]
  BY <1>1
<1>6. Charges'
  <2>1. \A k \in SpentLeases' : k.id \in Ids /\ k \in SpentLeases
    BY SpentIsOpen DEF LeaseInv, Records
  <2> QED
    BY <1>4, <1>5, <2>1 DEF LeaseInv, Charges, Holds
<1>7. Covered'
  <2>1. SUFFICES ASSUME NEW i \in Ids \ lost, rec'[i].st = "leased", ~rec'[i].lapsed
                 PROVE  Carried(i)'
    BY DEF Covered
  <2>2. i # l.id /\ rec'[i] = rec[i]
    BY <1>5, <2>1
  <2>3. PICK k \in OpenLeases : k.id = i /\ k.token = rec[i].token
    BY <2>1, <2>2 DEF LeaseInv, Covered, Carried
  <2>4. k \in OpenLeases'
    BY <2>2, <2>3
  <2> QED
    BY <2>2, <2>3, <2>4 DEF Carried
<1>8. CleanStop'
  BY <1>5 DEF LeaseInv, CleanStop
<1> QED
  BY <1>2, <1>6, <1>7, <1>8 DEF LeaseInv

(* A lease that is not the record's, or one that is given up as lost.        *)
LEMMA LeaseDrops ==
  ASSUME Inv, LeaseInv, NEW l, (~Holds(l) /\ lost' = lost) \/ lost' = lost \cup {l.id},
         OpenLeases' \subseteq OpenLeases, OpenLeases \subseteq OpenLeases' \cup {l},
         SpentLeases' \subseteq SpentLeases, UNCHANGED <<rec, charged, pc>>,
         pc # "offer" => offered' = <<>>
  PROVE  LeaseInv'
<1>1. Records' /\ Charges'
  BY DEF LeaseInv, Records, Charges, AttemptsCharged, Holds
<1>2. Covered'
  <2>1. SUFFICES ASSUME NEW i \in Ids \ lost', rec[i].st = "leased", ~rec[i].lapsed
                 PROVE  Carried(i)'
    BY DEF Covered
  <2>2. i \in Ids \ lost
    OBVIOUS
  <2>3. PICK k \in OpenLeases : k.id = i /\ k.token = rec[i].token
    BY <2>1, <2>2 DEF LeaseInv, Covered, Carried
  <2>4. k # l
    BY <2>1, <2>3 DEF Holds
  <2> QED
    BY <2>3, <2>4 DEF Carried
<1>3. CleanStop'
  BY DEF LeaseInv, CleanStop
<1> QED
  BY <1>1, <1>2, <1>3 DEF LeaseInv

(* Settling a lease charges its record as the outcome says.                  *)
LEMMA SettleLeases ==
  ASSUME Inv, LeaseInv, NEW w \in 1..workers, settle(w)
  PROVE  LeaseInv'
<1>. DEFINE l == hand[w].lease
<1>1. /\ hand[w].at \in Settlements /\ UNCHANGED <<work, pc, offered, charged>>
      /\ pc # "offer" => offered' = <<>>
  BY DEF settle, dispatcher, LeaseInv, Records
<1>2. Types /\ Holding(hand[w]) /\ Moved(w)
  BY SettleMoves DEF Inv
<1>3. w \in InHand /\ w \in Unsettled /\ l \in OpenLeases
  <2>1. w \in InHand
    BY <1>2, MovedSets
  <2> QED
    BY <1>1, <2>1 DEF Unsettled, OpenLeases
<1>4. l.id \in Ids /\ IsRecord(rec[l.id])
  BY <1>3 DEF LeaseInv, Records
<1>5. hand'[w].at \in {"hold", "delete"}
  <2>1. ASSUME NEW x, At(w, x) PROVE hand'[w].at = x
    <3>1. hand'[w] = [hand[w] EXCEPT !.at = x]
      BY <1>2, <2>1 DEF At, Types
    <3> QED
      BY <1>2, <3>1 DEF Holding
  <2>2. At(w, "hold") \/ At(w, "delete")
    BY DEF settle
  <2> QED
    BY <2>1, <2>2
<1>6. /\ OpenLeases' \subseteq OpenLeases
      /\ OpenLeases \subseteq OpenLeases' \cup {l}
      /\ SpentLeases' \subseteq SpentLeases
  BY <1>1, <1>2, <1>5, LeaseCloses DEF Settlements
<1>7. CASE Holds(l) /\ rec' = [rec EXCEPT ![l.id] = Settled(w)] /\ lost' = lost
  <2>. DEFINE r == Settled(w)
              a == rec[l.id].attempts
              c == charged[l.id]
  <2>1. a \in Int /\ c \in Int /\ a <= c + 1
    <3>1. rec[l.id].attempts <= charged[l.id] + (IF rec[l.id].st = "pending" THEN 0 ELSE 1)
      BY <1>4 DEF LeaseInv, Charges, AttemptsCharged
    <3> QED
      BY <1>4, <1>7, <3>1 DEF Holds, LeaseInv, Records, IsRecord
  <2>2. hand[w].at \in {"block", "nack"} => a <= c
    <3>1. hand[w].at \in {"block", "nack"} => l \in SpentLeases
      BY <1>3 DEF SpentLeases
    <3> QED
      BY <1>7, <3>1 DEF LeaseInv, Charges
  <2>3. /\ IsRecord(r) /\ r.st \in {"gone", "parked", "pending"}
        /\ r.attempts \in {a, a - 1}
        /\ r.st = "pending" /\ r.attempts = a => hand[w].at \in {"block", "nack"}
    <3>. DEFINE i == l.id
    <3>0. IsRecord(rec[i]) /\ a = rec[i].attempts /\ a \in Int
      BY <1>4, <2>1
    <3>1. CASE hand[w].at \in {"ack", "park"}
      <4>1. r = Unleased(i, "gone") \/ r = Unleased(i, "parked")
        BY <3>1 DEF Settled
      <4>. HIDE DEF i, r, a
      <4>2. IsRecord(r) /\ r.attempts = a /\ r.st \in {"gone", "parked"}
        BY <3>0, <4>1, UnleasedIs, SMTT(30)
      <4> QED
        BY <4>2
    <3>2. CASE hand[w].at = "refund"
      <4>1. r = Nacked(i, hand[w].dep, TRUE)
        BY <3>2 DEF Settled
      <4>. HIDE DEF i, r, a
      <4>2. IsRecord(r) /\ r.attempts = a - 1 /\ r.st = "pending"
        BY <3>0, <4>1, NackedIs
      <4> QED
        BY <3>0, <4>2, SMTT(30)
    <3>3. CASE hand[w].at \in {"block", "nack"}
      <4>1. r = Nacked(i, hand[w].dep, FALSE) \/ r = Nacked(i, rec[i].dep, FALSE)
        BY <3>3 DEF Settled
      <4>. HIDE DEF i, r, a
      <4>2. IsRecord(r) /\ r.attempts = a /\ r.st = "pending"
        BY <3>0, <4>1, NackedIs
      <4> QED
        BY <3>3, <4>2
    <3>4. CASE hand[w].at = "release"
      <4>1. r = Released(i)
        BY <3>4 DEF Settled
      <4>. HIDE DEF i, r, a
      <4>2. IsRecord(r) /\ r.attempts = a - 1 /\ r.st = "pending"
        BY <3>0, <4>1, ReleasedIs
      <4> QED
        BY <3>0, <4>2, SMTT(30)
    <3> QED
      BY <1>1, <3>1, <3>2, <3>3, <3>4 DEF Settlements
  <2>. HIDE DEF r
  <2>4. r.st # "leased" /\ (r.st = "pending" => r.attempts <= c) /\ r.attempts <= a
    BY <2>1, <2>2, <2>3, SMTT(30)
  <2>5. rec' = [rec EXCEPT ![l.id] = r]
    BY <1>7 DEF r
  <2>. HIDE DEF l
  <2> QED
    BY <1>1, <1>4, <1>6, <1>7, <2>3, <2>4, <2>5, RecordSettles
<1>8. CASE rec' = rec /\ ((~Holds(l) /\ lost' = lost) \/ lost' = lost \cup {l.id})
  <2>. HIDE DEF l
  <2> QED
    BY <1>1, <1>6, <1>8, LeaseDrops
<1> QED
  BY <1>7, <1>8 DEF settle

(* fill queues a lease, or hands it back.                                    *)
LEMMA OfferLeases ==
  ASSUME Inv, LeaseInv, Offer
  PROVE  LeaseInv'
<1>. DEFINE l == Head(offered)
<1>1. /\ pc = "offer" /\ offered # <<>> /\ offered' = Tail(offered)
      /\ UNCHANGED <<workers, pc, hand, charged>>
  BY DEF Offer
<1>2. /\ IsSeq(offered') /\ Len(offered) \in Nat \ {0}
      /\ DOMAIN offered = 1..Len(offered) /\ DOMAIN offered' = 1..Len(offered) - 1
      /\ \A n \in 1..Len(offered) - 1 : offered'[n] = offered[n + 1]
      /\ l = offered[1]
  BY <1>1, QueueShrinks DEF Inv, Types
<1>3. Range(offered) = Range(offered') \cup {l}
  <2>1. \A n \in DOMAIN offered : n = 1 \/ (n - 1 \in DOMAIN offered' /\ offered[n] = offered'[n - 1])
    BY <1>2, SMTT(30)
  <2>2. \A n \in DOMAIN offered' : n + 1 \in DOMAIN offered /\ offered'[n] = offered[n + 1]
    BY <1>2, SMTT(30)
  <2>3. 1 \in DOMAIN offered /\ l = offered[1]
    BY <1>2, SMTT(30)
  <2>. HIDE DEF l
  <2> QED
    BY <2>1, <2>2, <2>3, SMTT(30) DEF Range
<1>4. SpentLeases' = SpentLeases /\ InHand' = InHand /\ Unsettled' = Unsettled
  BY <1>1 DEF SpentLeases, InHand, Unsettled
<1>5. l \in OpenLeases /\ l.id \in Ids /\ IsRecord(rec[l.id])
  BY <1>3 DEF OpenLeases, LeaseInv, Records
<1>. HIDE DEF l
<1>6. CASE work' = work
  <2>1. OpenLeases' \subseteq OpenLeases /\ OpenLeases \subseteq OpenLeases' \cup {l}
    BY <1>1, <1>3, <1>4, <1>6 DEF OpenLeases
  <2>2. CASE Holds(l) /\ rec' = [rec EXCEPT ![l.id] = Released(l.id)] /\ lost' = lost
    <3>1. /\ rec[l.id].attempts \in Int /\ charged[l.id] \in Int
          /\ rec[l.id].attempts <= charged[l.id] + 1
      <4>1. rec[l.id].attempts <= charged[l.id] + (IF rec[l.id].st = "pending" THEN 0 ELSE 1)
        BY <1>5 DEF LeaseInv, Charges, AttemptsCharged
      <4> QED
        BY <1>5, <2>2, <4>1 DEF Holds, LeaseInv, Records, IsRecord
    <3>2. /\ IsRecord(Released(l.id)) /\ Released(l.id).st = "pending"
          /\ Released(l.id).attempts = rec[l.id].attempts - 1
      BY <1>5, ReleasedIs
    <3>3. Released(l.id).attempts <= charged[l.id] /\ Released(l.id).attempts <= rec[l.id].attempts
      BY <3>1, <3>2, SMTT(30)
    <3> QED
      BY <1>1, <1>4, <1>5, <2>1, <2>2, <3>2, <3>3, RecordSettles
  <2>3. CASE rec' = rec /\ ((~Holds(l) /\ lost' = lost) \/ lost' = lost \cup {l.id})
    BY <1>1, <1>4, <2>1, <2>3, LeaseDrops
  <2>4. CASE work' = Append(work, l)
    <3>1. Len(work) \in Nat /\ Len(work') = Len(work) + 1
      BY <2>4, QueueGrows DEF Inv, Types
    <3>2. Len(work') = Len(work)
      BY <1>6
    <3> QED  BY <3>1, <3>2, SMTT(30)
  <2>5. \/ work' = Append(work, l)
        \/ Holds(l) /\ rec' = [rec EXCEPT ![l.id] = Released(l.id)] /\ lost' = lost
        \/ rec' = rec /\ ((~Holds(l) /\ lost' = lost) \/ lost' = lost \cup {l.id})
    BY DEF Offer, l
  <2> QED
    BY <2>2, <2>3, <2>4, <2>5
<1>7. CASE work' = Append(work, l) /\ UNCHANGED <<rec, lost>>
  <2>1. /\ Len(work) \in Nat /\ DOMAIN work = 1..Len(work) /\ DOMAIN work' = 1..Len(work) + 1
        /\ \A n \in 1..Len(work) : work'[n] = work[n]
        /\ work'[Len(work) + 1] = l
    BY <1>7, QueueGrows, SMTT(30) DEF Inv, Types
  <2>2. DOMAIN work' = DOMAIN work \cup {Len(work) + 1} /\ \A n \in DOMAIN work : work'[n] = work[n]
    BY <2>1, SMTT(30)
  <2>3. Range(work') = Range(work) \cup {l}
    BY <2>1, <2>2, SMTT(30) DEF Range
  <2>4. OpenLeases' = OpenLeases
    BY <1>1, <1>3, <1>4, <2>3 DEF OpenLeases
  <2> QED
    BY <1>1, <1>4, <1>7, <2>4, StoreStands
<1> QED
  BY <1>6, <1>7 DEF Offer, l

(* fill leases records: each new lease is offered, under a token no one has. *)
LEMMA NewLeases ==
  ASSUME Inv, LeaseInv, Lease
  PROVE  LeaseInv'
<1>. DEFINE lease(i) == [id |-> i, token |-> rec'[i].token, attempts |-> rec'[i].attempts]
<1>1. pc = "lease" /\ UNCHANGED <<workers, work, hand, charged, lost>> /\ offered = <<>>
  BY DEF Lease, LeaseInv, Records
<1>2. PICK S \in SUBSET Ids :
         /\ \A i \in S : Eligible(i, grant.skip)
         /\ rec' = [i \in Ids |-> IF i \in S THEN Leased(i) ELSE rec[i]]
         /\ offered' = listed({lease(i) : i \in S})
         /\ pc' = IF S = {} THEN "idle" ELSE "offer"
  BY DEF Lease
<1>3. \A i \in S :
         /\ IsRecord(Leased(i)) /\ Leased(i).st = "leased" /\ Leased(i).token = NewToken(i)
         /\ ~Leased(i).lapsed /\ Leased(i).attempts = rec[i].attempts + 1
  BY LeasedIs DEF LeaseInv, Records
<1>4. DOMAIN rec' = Ids /\ \A i \in Ids : rec'[i] = IF i \in S THEN Leased(i) ELSE rec[i]
  BY <1>2
<1>5. Range(offered') = {lease(i) : i \in S} /\ (S = {} => offered' = <<>>)
  <2>. DEFINE L == {lease(i) : i \in S}
  <2>1. IsFiniteSet(L)
    <3>1. [i \in S |-> lease(i)] \in Surjection(S, L)
      BY DEF Surjection
    <3>2. IsFiniteSet(S)
      BY FS_Subset, RedriverAssumption
    <3> QED
      BY <3>1, <3>2, FS_Surjection
  <2>2. PICK f : f \in Bijection(1..Cardinality(L), L)
    BY <2>1, FS_CardinalityType DEF ExistsBijection
  <2>3. f \in [1..Cardinality(L) -> L] /\ IsInjective(f)
    BY <2>2 DEF Bijection, Injection
  <2>4. offered' \in [1..Cardinality(L) -> L] /\ IsInjective(offered')
    BY <1>2, <2>3 DEF listed
  <2>. HIDE DEF L
  <2>5. offered' \in Injection(1..Cardinality(L), L) /\ Cardinality(L) \in Nat
    BY <2>1, <2>4, FS_CardinalityType DEF IsInjective, Injection
  <2>6. offered' \in Surjection(1..Cardinality(L), L)
    BY <2>1, <2>5, FS_Interval, FS_Injection, FS_SurjCardinalityBound, SMTT(30)
  <2>7. Range(offered') = L
    BY <2>4, <2>6 DEF Surjection, Range
  <2>8. ASSUME S = {} PROVE offered' = <<>>
    <3>1. L = {} /\ Cardinality(L) = 0
      BY <2>8, FS_EmptySet DEF L
    <3> QED
      BY <2>4, <3>1, SMTT(30)
  <2> QED
    BY <2>7, <2>8 DEF L
<1>6. UNCHANGED <<InHand, Unsettled, SpentLeases>>
  BY <1>1 DEF InHand, Unsettled, SpentLeases
<1>7. OpenLeases' = OpenLeases \cup {lease(i) : i \in S}
  <2>1. Range(offered) = {}
    BY <1>1, SMTT(30) DEF Range
  <2> QED
    BY <1>1, <1>5, <1>6, <2>1 DEF OpenLeases
<1>8. \A i \in S : lease(i).id = i /\ lease(i).token = rec'[i].token
  OBVIOUS
<1>. HIDE DEF lease
<1>9. \A l \in SpentLeases : l.id \in S => l.token # rec'[l.id].token
  <2>1. SUFFICES ASSUME NEW l \in SpentLeases, l.id \in S PROVE l.token # NewToken(l.id)
    BY <1>3, <1>4, SMTT(30)
  <2>2. l \in Range(work) \cup {hand[w].lease : w \in InHand}
    BY DEF SpentLeases
  <2> QED
    BY <2>2, FreshToken
<1>10. Records'
  <2>1. DOMAIN rec' = Ids /\ \A i \in Ids : IsRecord(rec'[i])
    BY <1>3, <1>4 DEF LeaseInv, Records
  <2>2. \A l \in OpenLeases' : l.id \in Ids
    BY <1>7, <1>8, SMTT(30) DEF LeaseInv, Records
  <2>3. pc' # "offer" => offered' = <<>>
    BY <1>2, <1>5
  <2> QED
    BY <1>1, <2>1, <2>2, <2>3 DEF LeaseInv, Records
<1>11. Charges'
  <2>1. \A i \in S : rec[i].attempts <= charged[i] /\ rec[i].attempts \in Int /\ charged[i] \in Int
    <3>1. SUFFICES ASSUME NEW i \in S PROVE rec[i].attempts <= charged[i]
      BY DEF LeaseInv, Records, IsRecord
    <3>2. rec[i].st = "pending" \/ (rec[i].st = "leased" /\ rec[i].lapsed)
      BY <1>2 DEF Eligible
    <3>3. rec[i].attempts <= charged[i] + (IF rec[i].st = "pending" THEN 0 ELSE 1)
      BY DEF LeaseInv, Charges, AttemptsCharged
    <3>4. charged[i] \in Int
      BY DEF LeaseInv, Records
    <3>5. CASE rec[i].st = "pending"
      BY <3>3, <3>4, <3>5, SMTT(30)
    <3>6. CASE rec[i].st = "leased" /\ rec[i].lapsed
      BY <3>6 DEF LeaseInv, Charges
    <3> QED
      BY <3>2, <3>5, <3>6
  <2>2. AttemptsCharged'
    <3>1. SUFFICES ASSUME NEW i \in Ids
                   PROVE  rec'[i].attempts <= charged[i] + (IF rec'[i].st = "pending" THEN 0 ELSE 1)
      BY <1>1 DEF AttemptsCharged
    <3>2. CASE i \in S
      BY <1>3, <1>4, <2>1, <3>2, SMTT(30)
    <3>3. CASE i \notin S
      BY <1>4, <3>3 DEF LeaseInv, Charges, AttemptsCharged
    <3> QED
      BY <3>2, <3>3
  <2>3. \A i \in Ids : rec'[i].st = "leased" /\ rec'[i].lapsed => rec'[i].attempts <= charged'[i]
    BY <1>1, <1>3, <1>4 DEF LeaseInv, Charges
  <2>4. \A l \in SpentLeases' : Holds(l)' => rec'[l.id].attempts <= charged'[l.id]
    <3>1. SUFFICES ASSUME NEW l \in SpentLeases, Holds(l)'
                   PROVE  rec'[l.id].attempts <= charged[l.id]
      BY <1>1, <1>6
    <3>2. l.id \notin S /\ l.id \in Ids
      BY <1>9, <3>1, SpentIsOpen DEF Holds, LeaseInv, Records
    <3> QED
      BY <1>4, <3>1, <3>2 DEF Holds, LeaseInv, Charges
  <2> QED
    BY <2>2, <2>3, <2>4 DEF Charges
<1>12. Covered'
  <2>1. SUFFICES ASSUME NEW i \in Ids \ lost, rec'[i].st = "leased", ~rec'[i].lapsed
                 PROVE  Carried(i)'
    BY <1>1 DEF Covered
  <2>2. CASE i \in S
    BY <1>7, <1>8, <2>2 DEF Carried
  <2>3. CASE i \notin S
    <3>1. PICK k \in OpenLeases : k.id = i /\ k.token = rec[i].token
      BY <1>4, <2>1, <2>3 DEF LeaseInv, Covered, Carried
    <3> QED
      BY <1>4, <1>7, <2>3, <3>1 DEF Carried
  <2> QED
    BY <2>2, <2>3
<1>13. CleanStop'
  BY <1>2 DEF CleanStop
<1> QED
  BY <1>10, <1>11, <1>12, <1>13 DEF LeaseInv

(* A lease runs out, or a delay does.                                        *)
LEMMA LapseLeases ==
  ASSUME Inv, LeaseInv, NEW i \in Ids, Lapse(i)
  PROVE  LeaseInv'
<1>1. /\ rec[i].st = "leased" /\ ~rec[i].lapsed
      /\ rec' = [rec EXCEPT ![i] = [rec[i] EXCEPT !.lapsed = TRUE]]
      /\ charged' = [charged EXCEPT ![i] = charged[i] + 1]
      /\ lost' = lost \ {i} /\ UNCHANGED <<workers, work, hand, pc, offered>>
  BY DEF Lapse, dispatcher
<1>2. /\ DOMAIN rec' = Ids /\ \A j \in Ids : j # i => rec'[j] = rec[j]
      /\ IsRecord(rec'[i]) /\ rec'[i].st = "leased" /\ rec'[i].lapsed
      /\ rec'[i].token = rec[i].token /\ rec'[i].attempts = rec[i].attempts
  BY <1>1 DEF LeaseInv, Records, IsRecord
<1>3. /\ DOMAIN charged' = Ids /\ charged'[i] = charged[i] + 1
      /\ \A j \in Ids : charged'[j] \in Int /\ charged[j] \in Int /\ charged[j] <= charged'[j]
  BY <1>1, SMTT(30) DEF LeaseInv, Records
<1>4. UNCHANGED <<InHand, Unsettled, OpenLeases, SpentLeases>>
  BY <1>1 DEF InHand, Unsettled, OpenLeases, SpentLeases
<1>5. Records'
  BY <1>1, <1>2, <1>3, <1>4 DEF LeaseInv, Records
<1>6. \A j \in Ids : /\ rec'[j].attempts = rec[j].attempts /\ rec'[j].st = rec[j].st
                     /\ rec'[j].token = rec[j].token /\ rec[j].attempts \in Int
                     /\ rec[j].attempts <= charged[j] + (IF rec[j].st = "pending" THEN 0 ELSE 1)
  BY <1>1, <1>2 DEF LeaseInv, Records, IsRecord, Charges, AttemptsCharged
<1>7. AttemptsCharged'
  <2>1. SUFFICES ASSUME NEW j \in Ids
                 PROVE  rec[j].attempts <= charged'[j] + (IF rec[j].st = "pending" THEN 0 ELSE 1)
    BY <1>6 DEF AttemptsCharged
  <2> QED
    BY <1>3, <1>6, SMTT(30)
<1>8. \A j \in Ids : rec'[j].st = "leased" /\ rec'[j].lapsed => rec'[j].attempts <= charged'[j]
  <2>1. SUFFICES ASSUME NEW j \in Ids, rec'[j].st = "leased" /\ rec'[j].lapsed
                 PROVE  rec[j].attempts <= charged'[j]
    BY <1>6
  <2>2. CASE j = i
    BY <1>1, <1>3, <1>6, <2>2
  <2>3. CASE j # i
    <3>1. rec[j].attempts <= charged[j]
      BY <1>2, <2>1, <2>3 DEF LeaseInv, Charges
    <3> QED
      BY <1>3, <1>6, <3>1, SMTT(30)
  <2> QED
    BY <2>2, <2>3
<1>9. \A l \in SpentLeases' : Holds(l)' => rec'[l.id].attempts <= charged'[l.id]
  <2>1. SUFFICES ASSUME NEW l \in SpentLeases, Holds(l)'
                 PROVE  rec'[l.id].attempts <= charged'[l.id]
    BY <1>4
  <2>2. l.id \in Ids
    BY SpentIsOpen DEF LeaseInv, Records
  <2>3. Holds(l)
    BY <1>6, <2>1, <2>2 DEF Holds
  <2>4. rec[l.id].attempts <= charged[l.id]
    BY <2>3 DEF LeaseInv, Charges
  <2> QED
    BY <1>3, <1>6, <2>2, <2>4, SMTT(30)
<1>10. Charges'
  BY <1>7, <1>8, <1>9 DEF Charges
<1>11. Covered' /\ CleanStop'
  BY <1>1, <1>2, <1>4, SMTT(30) DEF LeaseInv, Covered, Carried, CleanStop
<1> QED
  BY <1>5, <1>10, <1>11 DEF LeaseInv

(* A delay that passes charges nothing.                                      *)
LEMMA DelayLeases ==
  ASSUME Inv, LeaseInv, NEW i \in Ids, DelayPasses(i)
  PROVE  LeaseInv'
<1>1. /\ rec' = [rec EXCEPT ![i] = [rec[i] EXCEPT !.due = TRUE]]
      /\ UNCHANGED <<workers, work, hand, pc, offered, charged, lost>>
  BY DEF DelayPasses, dispatcher
<1>2. /\ DOMAIN rec' = Ids
      /\ \A j \in Ids : /\ IsRecord(rec'[j]) /\ rec'[j].st = rec[j].st
                        /\ rec'[j].lapsed = rec[j].lapsed
                        /\ rec'[j].token = rec[j].token /\ rec'[j].attempts = rec[j].attempts
  BY <1>1 DEF LeaseInv, Records, IsRecord
<1>3. UNCHANGED <<InHand, Unsettled, OpenLeases, SpentLeases>>
  BY <1>1 DEF InHand, Unsettled, OpenLeases, SpentLeases
<1>4. Records'
  BY <1>1, <1>2, <1>3 DEF LeaseInv, Records
<1>5. \A l \in SpentLeases : l.id \in Ids
  BY SpentIsOpen DEF LeaseInv, Records
<1>6. Charges'
  BY <1>1, <1>2, <1>3, <1>5, SMTT(30) DEF LeaseInv, Charges, AttemptsCharged, Holds
<1>7. Covered' /\ CleanStop'
  BY <1>1, <1>2, <1>3, SMTT(30) DEF LeaseInv, Covered, Carried, CleanStop
<1> QED
  BY <1>4, <1>6, <1>7 DEF LeaseInv

(* Run ends: everybody is done, or what is still active counts as lost.      *)
LEMMA StopLeases ==
  ASSUME Inv, LeaseInv, Stop
  PROVE  LeaseInv'
<1>1. /\ pc = "closing" /\ pc' = "stopped"
      /\ UNCHANGED <<workers, rec, offered, work, hand, charged>>
      /\ offered = <<>>
  BY DEF Stop, LeaseInv, Records
<1>2. UNCHANGED <<InHand, Unsettled, OpenLeases, SpentLeases>>
  BY <1>1 DEF InHand, Unsettled, OpenLeases, SpentLeases
<1>3. lost \subseteq lost'
  BY DEF Stop
<1>4. Records' /\ Charges' /\ Covered'
  BY <1>1, <1>2, <1>3 DEF LeaseInv, Records, Charges, AttemptsCharged, Holds, Covered, Carried
<1>5. \A l \in OpenLeases : l.id \in lost'
  <2>1. Range(offered) = {}
    BY <1>1, SMTT(30) DEF Range
  <2>2. CASE work = <<>> /\ \A w \in 1..workers : hand[w] = Idle
    <3>1. Range(work) = {} /\ Unsettled = {}
      BY <2>2, SMTT(30) DEF Range, Unsettled, InHand
    <3> QED
      BY <2>1, <3>1 DEF OpenLeases
  <2>3. CASE lost' = lost \cup active
    <3>1. Unsettled \subseteq Handled
      BY DEF Unsettled, Handled, Settlements
    <3> QED
      BY <2>1, <2>3, <3>1 DEF OpenLeases, Inv, Exact
  <2> QED
    BY <2>2, <2>3 DEF Stop
<1>6. CleanStop'
  BY <1>1, <1>3, <1>5 DEF CleanStop, LeaseInv, Covered, Carried
<1> QED
  BY <1>4, <1>6 DEF LeaseInv

(* Every step of a worker keeps the account of the attempts.                 *)
LEMMA WorkerLeases ==
  ASSUME Inv, LeaseInv, NEW w \in 1..workers, Worker(w)
  PROVE  LeaseInv'
<1>0. pc # "offer" => offered = <<>>
  BY DEF LeaseInv, Records
<1>1. CASE Take(w)
  <2>1. UNCHANGED <<rec, charged, lost, pc, offered>>
    BY <1>1 DEF Take, dispatcher
  <2> QED
    BY <1>0, <1>1, <2>1, TakeLeases, StoreStands
<1>2. CASE Handle(w)
  BY <1>2, HandleLeases
<1>3. CASE settle(w)
  BY <1>3, SettleLeases
<1>4. CASE holdDependency(w) \/ Delete(w) \/ Count(w)
  <2>1. /\ hand[w].at \in {"hold", "delete", "count"} /\ Moved(w)
        /\ hand'[w].at \in {"delete", "count", "wake"}
        /\ UNCHANGED <<work, rec, charged, lost, pc, offered>>
    <3>1. /\ hand[w].at \in {"hold", "delete", "count"}
          /\ UNCHANGED <<workers, work, rec, charged, lost, pc, offered>>
      BY <1>4 DEF holdDependency, Delete, Count, dispatcher
    <3>2. Types /\ Holding(hand[w])
      BY <3>1, SMTT(30) DEF Inv, Types, Idle
    <3>3. PICK x \in {"delete", "count", "wake"} : At(w, x)
      BY <1>4 DEF holdDependency, Delete, Count
    <3>4. x \in Places
      BY DEF Places
    <3> QED
      BY <3>1, <3>2, <3>3, <3>4, AtMoves
  <2>2. Holding(hand[w])
    BY <2>1, SMTT(30) DEF Inv, Types, Idle
  <2>3. OpenLeases' = OpenLeases
    BY <2>1, <2>2, LeasesStand DEF Settlements
  <2>4. SpentLeases' \subseteq SpentLeases
    BY <2>1, <2>2, LeaseCloses DEF Settlements
  <2> QED
    BY <1>0, <2>1, <2>3, <2>4, StoreStands
<1>5. CASE Wake(w)
  <2>1. /\ hand[w].at = "wake" /\ hand' = [hand EXCEPT ![w] = Idle]
        /\ UNCHANGED <<workers, work, rec, charged, lost, pc, offered>>
    BY <1>5 DEF Wake, dispatcher
  <2>2. hand'[w] = Idle /\ \A v \in 1..workers : v # w => hand'[v] = hand[v]
    BY <2>1 DEF Inv, Types
  <2>3. InHand' = InHand \ {w} /\ \A v \in InHand' : v \in InHand /\ hand'[v] = hand[v]
    BY <2>1, <2>2 DEF InHand
  <2>4. Unsettled' = Unsettled /\ \A v \in Unsettled : hand'[v] = hand[v]
    BY <2>1, <2>3 DEF Unsettled, Settlements
  <2>5. OpenLeases' = OpenLeases /\ SpentLeases' \subseteq SpentLeases
    BY <2>1, <2>3, <2>4 DEF OpenLeases, SpentLeases
  <2> QED
    BY <1>0, <2>1, <2>5, StoreStands
<1> QED
  BY <1>1, <1>2, <1>3, <1>4, <1>5 DEF Worker

(* The account holds initially.                                              *)
LEMMA LeaseInvInit == Init => LeaseInv
<1> SUFFICES ASSUME Init PROVE LeaseInv
  OBVIOUS
<1>1. /\ offered = <<>> /\ work = <<>> /\ InHand = {} /\ pc = "fill"
  BY DEF Init, InHand
<1>2. OpenLeases = {} /\ SpentLeases = {}
  BY <1>1, SMTT(30) DEF OpenLeases, SpentLeases, Unsettled, Range
<1>3. /\ DOMAIN rec = Ids /\ DOMAIN charged = Ids
      /\ \A i \in Ids : /\ IsRecord(rec[i]) /\ rec[i].st = "pending" /\ rec[i].attempts = 0
                        /\ charged[i] = 0
  <2>1. /\ rec = [i \in Ids |-> [st |-> "pending", token |-> 0, lapsed |-> FALSE, due |-> TRUE,
                                attempts |-> 0, dep |-> BlockedOn[i]]]
        /\ charged = [i \in Ids |-> 0]
    BY DEF Init
  <2>2. ASSUME NEW i \in Ids
        PROVE  IsRecord(rec[i]) /\ rec[i].st = "pending" /\ rec[i].attempts = 0 /\ charged[i] = 0
    <3>1. rec[i] = [st |-> "pending", token |-> 0, lapsed |-> FALSE, due |-> TRUE,
                    attempts |-> 0, dep |-> BlockedOn[i]]
      BY <2>1, <2>2
    <3>2. /\ rec[i].st = "pending" /\ rec[i].attempts = 0 /\ rec[i].attempts \in Int
          /\ rec[i].lapsed \in BOOLEAN
      BY ONLY <3>1, SMTT(30)
    <3>3. DOMAIN rec[i] = {"st", "token", "lapsed", "due", "attempts", "dep"}
      BY ONLY <3>1, Zenon
    <3>4. charged[i] = 0
      BY <2>1, <2>2
    <3> QED
      BY <3>2, <3>3, <3>4 DEF IsRecord
  <2> QED
    BY <2>1, <2>2
<1>4. Records
  BY <1>1, <1>2, <1>3, SMTT(30) DEF Records
<1>5. Charges /\ Covered /\ CleanStop
  BY <1>1, <1>2, <1>3, SMTT(30) DEF Charges, AttemptsCharged, Covered, CleanStop
<1> QED
  BY <1>4, <1>5 DEF LeaseInv

(* Every step keeps the account.                                             *)
LEMMA LeaseInvStep == Inv /\ LeaseInv /\ [Next]_vars => LeaseInv'
<1> SUFFICES ASSUME Inv, LeaseInv, [Next]_vars PROVE LeaseInv'
  OBVIOUS
<1>1. CASE \E w \in 1..workers : Worker(w)
  BY <1>1, WorkerLeases
<1>2. CASE Lease
  BY <1>2, NewLeases
<1>3. CASE Offer
  BY <1>3, OfferLeases
<1>4. CASE Stop
  BY <1>4, StopLeases
<1>5. CASE \E i \in Ids : Lapse(i) \/ DelayPasses(i)
  BY <1>5, LapseLeases, DelayLeases
<1>6. CASE \/ Fill \/ Offered \/ WaitEnds \/ LeaseFails \/ Cancel \/ Resting \/ UNCHANGED vars
           \/ \E d \in Deps : HoldPasses(d) \/ Outage(d) \/ Recovery(d)
  <2>1. /\ UNCHANGED <<workers, rec, offered, work, hand, charged, lost>>
        /\ pc' # pc => pc' # "stopped" /\ offered = <<>>
    <3>. USE DEF dispatcher, LeaseInv, Records
    <3>1. CASE Fill BY <3>1 DEF Fill
    <3>2. CASE Offered BY <3>2 DEF Offered
    <3>3. CASE WaitEnds BY <3>3 DEF WaitEnds
    <3>4. CASE LeaseFails BY <3>4 DEF LeaseFails
    <3>5. CASE Cancel BY <3>5 DEF Cancel
    <3>6. CASE Resting \/ UNCHANGED vars BY <3>6 DEF Resting, vars
    <3>7. CASE \E d \in Deps : HoldPasses(d) \/ Outage(d) \/ Recovery(d)
      BY <3>7 DEF HoldPasses, Outage, Recovery
    <3>. HIDE DEF dispatcher, LeaseInv, Records
    <3> QED
      BY <1>6, <3>1, <3>2, <3>3, <3>4, <3>5, <3>6, <3>7
  <2>2. OpenLeases' = OpenLeases /\ SpentLeases' = SpentLeases
    BY <2>1 DEF OpenLeases, SpentLeases, Unsettled, InHand
  <2>3. pc' # "offer" => offered' = <<>>
    BY <2>1 DEF LeaseInv, Records
  <2> QED
    BY <2>1, <2>2, <2>3, StoreStands
<1> QED
  BY <1>1, <1>2, <1>3, <1>4, <1>5, <1>6 DEF Next, Dispatch

(* The account of the attempts is right in every reachable state.            *)
LEMMA LeasesInductive == Spec => []LeaseInv
<1>1. Inv /\ LeaseInv /\ [Next]_vars => LeaseInv'
  BY LeaseInvStep
<1> QED
  BY <1>1, LeaseInvInit, Inductive, PTL DEF Spec

(* For any number of records, workers and faults: a record's attempts are    *)
(* failures of its handler and leases that ran out; an outage, a shutdown and *)
(* a record handed back cost none (settle, releaseNoPenalty, Nack's refund). *)
THEOREM AttemptsRight == Spec => []AttemptsCharged
<1>1. LeaseInv => AttemptsCharged
  BY DEF LeaseInv, Charges
<1> QED
  BY <1>1, LeasesInductive, PTL

(* For any number of records, workers and faults: when Run has returned, no  *)
(* record is left leased, unless the store failed to take it back or a       *)
(* handler was abandoned (Run's shutdown).                                   *)
THEOREM StopsClean == Spec => []CleanStop
<1>1. LeaseInv => CleanStop
  BY DEF LeaseInv
<1> QED
  BY <1>1, LeasesInductive, PTL

=============================================================================
