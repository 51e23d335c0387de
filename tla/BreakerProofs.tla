---------------------------- MODULE BreakerProofs ----------------------------
(***************************************************************************)
(* What holds of the lock-free breaker for any number of callers and       *)
(* probers, any limits and any configuration.                              *)
(***************************************************************************)
EXTENDS Breaker, FiniteSetTheorems, TLAPS

\* A leaf goes to Zenon, or to Z3 where it says so.
USE ZenonT(20), SMTT(30)

Threads == Callers \cup Probers

(* The calls that went through the bulkhead and have not left.               *)
Limited == {t \in Holders \ VIPs : pc[t] # "forced"}

(* The types that the proofs use.                                            *)
Types ==
  /\ DOMAIN pc = Threads /\ setup \in Setups
  /\ inflight \in Int
  /\ running \in BOOLEAN /\ closed \in BOOLEAN

(* OneProber with uniqueness in place of a cardinality.                      *)
Exclusive ==
  /\ \A p, q \in Probers : Running(p) /\ Running(q) => p = q
  /\ running <=> \E p \in Probers : Running(p)

-----------------------------------------------------------------------------
(* The bulkhead.                                                             *)

(* Holders and Limited are finite, and Limited is the smaller one.           *)
LEMMA HoldersFinite ==
  /\ IsFiniteSet(Holders) /\ Cardinality(Holders) \in Nat
  /\ IsFiniteSet(Limited) /\ Cardinality(Limited) \in Nat
  /\ Cardinality(Limited) <= Cardinality(Holders)
<1>1. Holders \in SUBSET Callers /\ Limited \in SUBSET Holders
  BY DEF Holders, Limited
<1>2. IsFiniteSet(Holders)
  BY <1>1, FS_Subset, CallersAssumption
<1>3. IsFiniteSet(Limited) /\ Cardinality(Limited) <= Cardinality(Holders)
  BY <1>1, <1>2, FS_Subset
<1> QED
  BY <1>2, <1>3, FS_CardinalityType

(* The limit is a number.                                                    *)
LEMMA LimitIs ==
  ASSUME Types
  PROVE  setup.maxInflight \in Nat
BY SetupsAssumption DEF Types

(* A step after which every caller holds what it held, keeps the bulkhead.   *)
LEMMA KeepsSlots ==
  ASSUME BulkheadHolds, UNCHANGED <<setup, inflight>>,
         \A t \in Callers : /\ pc'[t] \in HoldsSlot <=> pc[t] \in HoldsSlot
                            /\ pc[t] \in HoldsSlot => (pc'[t] = "forced" <=> pc[t] = "forced")
  PROVE  BulkheadHolds'
<1>1. Holders' = Holders
  BY DEF Holders, HoldsSlot
<1>2. {t \in Holders \ VIPs : pc[t] # "forced"}' = {t \in Holders \ VIPs : pc[t] # "forced"}
  BY <1>1 DEF Holders
<1> QED
  BY <1>1, <1>2 DEF BulkheadHolds

(* A caller takes a slot: by force, past the limit, or because there is room. *)
LEMMA TakesSlot ==
  ASSUME BulkheadHolds, Types, NEW t \in Callers, NEW l \in HoldsSlot,
         pc[t] \notin HoldsSlot, pc' = [pc EXCEPT ![t] = l], inflight' = inflight + 1, UNCHANGED setup,
         l = "forced" \/ HasRoom(t)
  PROVE  BulkheadHolds'
<1>1. Holders' = Holders \cup {t} /\ t \notin Holders
  BY DEF Holders, HoldsSlot, Types, Threads
<1>2. inflight' = Cardinality(Holders')
  BY <1>1, HoldersFinite, FS_AddElement DEF BulkheadHolds
<1>3. CASE l = "forced" \/ t \in VIPs
  <2>1. Limited' = Limited
    BY <1>1, <1>3 DEF Limited, Holders, HoldsSlot, Types, Threads
  <2> QED
    BY <1>2, <2>1 DEF BulkheadHolds, Limited
<1>4. CASE l # "forced" /\ t \notin VIPs
  <2>1. Limited' = Limited \cup {t} /\ t \notin Limited
    BY <1>1, <1>4 DEF Limited, Holders, HoldsSlot, Types, Threads
  <2>2. Cardinality(Limited') = Cardinality(Limited) + 1
    BY <2>1, HoldersFinite, FS_AddElement
  <2>3. setup.maxInflight > 0 => inflight < setup.maxInflight
    BY <1>4, LimitIs, SMTT(30) DEF HasRoom
  <2>4. setup.maxInflight > 0 => Cardinality(Limited') <= setup.maxInflight
    BY <2>2, <2>3, HoldersFinite, LimitIs, SMTT(30) DEF BulkheadHolds
  <2> QED
    BY <1>2, <2>4 DEF BulkheadHolds, Limited
<1> QED
  BY <1>3, <1>4

(* A caller gives its slot back.                                             *)
LEMMA GivesSlot ==
  ASSUME BulkheadHolds, Types, NEW t \in Callers, NEW l, l \notin HoldsSlot,
         pc[t] \in HoldsSlot, pc' = [pc EXCEPT ![t] = l], inflight' = inflight - 1,
         UNCHANGED setup
  PROVE  BulkheadHolds'
<1>1. Holders' = Holders \ {t} /\ t \in Holders
  BY DEF Holders, HoldsSlot, Types, Threads
<1>2. inflight' = Cardinality(Holders')
  BY <1>1, HoldersFinite, FS_RemoveElement DEF BulkheadHolds
<1>3. Limited' = Limited \ {t}
  BY <1>1 DEF Limited, Holders, HoldsSlot, Types, Threads
<1>4. Cardinality(Limited') <= Cardinality(Limited)
  BY <1>3, HoldersFinite, FS_Subset
<1>5. Cardinality(Limited') \in Nat
  BY <1>3, HoldersFinite, FS_RemoveElement, FS_CardinalityType
<1> QED
  BY <1>2, <1>4, <1>5, HoldersFinite, LimitIs, SMTT(30) DEF BulkheadHolds, Limited

(* The code after the slot has been given back, which probers share.         *)
LEMMA SharedKeeps ==
  ASSUME Types, NEW t \in Threads, Record(t) \/ Shared(t)
  PROVE  /\ UNCHANGED <<setup, inflight>>
         /\ \A x \in Callers : pc'[x] \in HoldsSlot <=> pc[x] \in HoldsSlot
         /\ \A x \in Callers : pc[x] \in HoldsSlot => pc'[x] = pc[x]
<1> USE DEF Types, Threads, HoldsSlot, Goto, env
<1>1. CASE AbandonLook(t) BY <1>1 DEF AbandonLook
<1>2. CASE FreeProbe(t) BY <1>2 DEF FreeProbe
<1>3. CASE RecordOk(t) BY <1>3 DEF RecordOk
<1>4. CASE OkClose(t) BY <1>4 DEF OkClose
<1>5. CASE RecordBad(t) BY <1>5 DEF RecordBad
<1>6. CASE BadStamp(t) BY <1>6 DEF BadStamp
<1>7. CASE BadLook(t) BY <1>7 DEF BadLook
<1>8. CASE BadCount(t) BY <1>8 DEF BadCount
<1>9. CASE Reset(t) BY <1>9 DEF Reset
<1>10. CASE ToOpen(t) BY <1>10 DEF ToOpen
<1>11. CASE NotToOpen(t) BY <1>11 DEF NotToOpen
<1>12. CASE Opened(t) BY <1>12 DEF Opened
<1>13. CASE StartProber(t)
  <2>1. CASE MayLaunch /\ \E p \in Probers : Launch(t, p)
    BY <1>13, <2>1, CallersAssumption DEF StartProber, Launch, After
  <2>2. CASE ~MayLaunch /\ Goto(t, After(pc[t]))
    BY <1>13, <2>2 DEF StartProber, After
  <2> QED
    BY <1>13, <2>1, <2>2 DEF StartProber
<1> QED
  BY <1>1, <1>2, <1>3, <1>4, <1>5, <1>6, <1>7, <1>8, <1>9, <1>10, <1>11, <1>12, <1>13
  DEF Record, Shared

(* A prober holds no slot.                                                   *)
LEMMA WatchKeeps ==
  ASSUME Types, NEW p \in Probers, Watch(p)
  PROVE  UNCHANGED <<setup, inflight>> /\ \A t \in Callers : pc'[t] = pc[t]
<1> USE CallersAssumption DEF Types, Threads, Goto, env
<1>1. CASE Wake(p) BY <1>1 DEF Wake
<1>2. CASE Probe(p) BY <1>2 DEF Probe
<1>3. CASE Restamp(p) BY <1>3 DEF Restamp
<1>4. CASE FreeFirst(p) BY <1>4 DEF FreeFirst
<1>5. CASE BeginHalf(p) BY <1>5 DEF BeginHalf
<1>6. CASE ResetClosed(p) BY <1>6 DEF ResetClosed
<1>7. CASE Release(p) BY <1>7 DEF Release
<1>8. CASE Recheck(p) BY <1>8 DEF Recheck
<1>9. CASE Again(p) BY <1>9 DEF Again
<1> QED
  BY <1>1, <1>2, <1>3, <1>4, <1>5, <1>6, <1>7, <1>8, <1>9 DEF Watch

(* Admission and the end of a call.                                          *)
LEMMA CallKeeps ==
  ASSUME Types, BulkheadHolds, NEW t \in Callers, Admit(t) \/ Finish(t), UNCHANGED setup
  PROVE  BulkheadHolds'
<1> USE DEF Goto
<1>1. CASE Begin(t)
  <2>1. CASE override = 1 /\ UNCHANGED <<inflight, pc>>
    BY <2>1, KeepsSlots
  <2>2. CASE override = 2 /\ inflight' = inflight + 1 /\ Goto(t, "forced")
    BY <1>1, <2>2, TakesSlot DEF Begin, HoldsSlot
  <2>3. CASE override = 0 /\ Goto(t, "acquire") /\ UNCHANGED inflight
    BY <1>1, <2>3, KeepsSlots DEF Begin, HoldsSlot, Types, Threads
  <2> QED
    BY <1>1, <2>1, <2>2, <2>3 DEF Begin
<1>2. CASE Acquire(t)
  <2>1. CASE /\ pc[t] \in {"acquire", "wait"} /\ HasRoom(t)
             /\ inflight' = inflight + 1 /\ Goto(t, "look")
    BY <2>1, TakesSlot DEF HoldsSlot
  <2>2. CASE /\ pc[t] \in {"acquire", "wait"} /\ UNCHANGED inflight
             /\ Goto(t, "wait") \/ Goto(t, "idle")
    BY <2>2, KeepsSlots DEF HoldsSlot, Types, Threads
  <2> QED
    BY <1>2, <2>1, <2>2 DEF Acquire
<1>3. CASE Look(t) \/ LookOpen(t) \/ ToHalf(t) \/ Claim(t) \/ Stamp(t)
  <2>1. /\ pc[t] \in HoldsSlot \ {"forced"} /\ UNCHANGED inflight
        /\ \E l \in HoldsSlot \ {"forced"} : Goto(t, l)
    BY <1>3 DEF Look, LookOpen, ToHalf, Claim, Stamp, Deny, HoldsSlot
  <2> QED
    BY <2>1, KeepsSlots DEF HoldsSlot, Types, Threads
<1>4. CASE Refuse(t) \/ Finish(t)
  <2>1. /\ pc[t] \in HoldsSlot /\ inflight' = inflight - 1
        /\ \E l \in {"idle", "ok", "bad", "abandonLook"} : pc' = [pc EXCEPT ![t] = l]
    BY <1>4 DEF Refuse, Finish, Succeed, Fail, Abandon, Leave, HoldsSlot
  <2>2. \A l \in {"idle", "ok", "bad", "abandonLook"} : l \notin HoldsSlot
    BY DEF HoldsSlot
  <2>3. PICK l \in {"idle", "ok", "bad", "abandonLook"} : pc' = [pc EXCEPT ![t] = l]
    BY <2>1
  <2> HIDE DEF HoldsSlot
  <2> QED
    BY <2>1, <2>2, <2>3, GivesSlot
<1> QED
  BY <1>1, <1>2, <1>3, <1>4 DEF Admit

-----------------------------------------------------------------------------
(* The probers.                                                              *)

(* Who leaves which state behind: what the steps of callers and of the code  *)
(* that probers share do to the probers, to the flag and to the circuit.     *)
Unmoved ==
  /\ running' = running
  /\ \A p \in Probers : Running(p)' <=> Running(p)
  /\ \A p \in Probers : pc'[p] = "off" <=> pc[p] = "off"

Opening == {"openedHalf", "openedTrip", "watchHalf", "watchTrip"}

(* Admitting and finishing a call moves neither the prober nor who opens
   the breaker.                                                              *)
LEMMA CallUnmoved ==
  ASSUME Types, NEW t \in Callers, Admit(t) \/ Finish(t)
  PROVE  /\ Unmoved /\ UNCHANGED <<setup, closed>>
         /\ state' = "closed" <=> state = "closed"
         /\ \A x \in Callers : pc'[x] \in Opening <=> pc[x] \in Opening
<1> USE CallersAssumption DEF Types, Threads, Goto, Unmoved, Running, Opening, health, env, circuit
<1>1. CASE Begin(t) BY <1>1 DEF Begin
<1>2. CASE Acquire(t) BY <1>2 DEF Acquire
<1>3. CASE Look(t) BY <1>3 DEF Look
<1>4. CASE LookOpen(t) BY <1>4 DEF LookOpen, Deny
<1>5. CASE ToHalf(t) BY <1>5 DEF ToHalf, Deny
<1>6. CASE Claim(t) BY <1>6 DEF Claim, Deny
<1>7. CASE Stamp(t) BY <1>7 DEF Stamp
<1>8. CASE Refuse(t) BY <1>8 DEF Refuse
<1>9. CASE Finish(t) BY <1>9 DEF Finish, Succeed, Fail, Abandon, Leave
<1> QED
  BY <1>1, <1>2, <1>3, <1>4, <1>5, <1>6, <1>7, <1>8, <1>9 DEF Admit

(* A circuit that opens leaves its opener on the way to start a prober.      *)
LEMMA SharedUnmoved ==
  ASSUME Types, NEW t \in Threads,
         Record(t) \/ Reset(t) \/ ToOpen(t) \/ NotToOpen(t) \/ Opened(t)
  PROVE  /\ Unmoved /\ UNCHANGED <<setup, closed>>
         /\ \A x \in Callers : pc[x] \in Opening => pc'[x] \in Opening
         /\ state' # "closed" => state # "closed" \/ pc'[t] \in Opening
<1> USE DEF Types, Threads, Goto, Unmoved, Running, Opening, health, env, circuit
<1>1. CASE AbandonLook(t) BY <1>1 DEF AbandonLook
<1>2. CASE FreeProbe(t) BY <1>2 DEF FreeProbe
<1>3. CASE RecordOk(t) BY <1>3 DEF RecordOk
<1>4. CASE OkClose(t) BY <1>4 DEF OkClose
<1>5. CASE RecordBad(t) BY <1>5 DEF RecordBad
<1>6. CASE BadStamp(t) BY <1>6 DEF BadStamp
<1>7. CASE BadLook(t) BY <1>7 DEF BadLook
<1>8. CASE BadCount(t) BY <1>8 DEF BadCount
<1>9. CASE Reset(t) BY <1>9 DEF Reset
<1>10. CASE ToOpen(t) BY <1>10 DEF ToOpen
<1>11. CASE NotToOpen(t) BY <1>11 DEF NotToOpen
<1>12. CASE Opened(t) BY <1>12 DEF Opened
<1> QED
  BY <1>1, <1>2, <1>3, <1>4, <1>5, <1>6, <1>7, <1>8, <1>9, <1>10, <1>11, <1>12 DEF Record

(* Steps that leave the probers alone keep both facts about them.            *)
LEMMA KeepsWatch ==
  ASSUME Exclusive, NeverUnwatched, Unmoved, UNCHANGED setup, closed => closed',
         \/ /\ state' # "closed" => state # "closed"
            /\ \A x \in Callers : pc[x] \in Opening => pc'[x] \in Opening
         \/ \E t \in Callers : pc'[t] \in Opening
         \/ \E p \in Probers : pc'[p] # "off"
  PROVE  Exclusive' /\ NeverUnwatched'
<1>1. Exclusive'
  BY DEF Exclusive, Unmoved
<1>2. NeverUnwatched'
  BY DEF NeverUnwatched, Unmoved, Opening
<1> QED
  BY <1>1, <1>2

(* startProber: the flag is taken by whoever launches, and if it was taken   *)
(* somebody watches already.                                                 *)
LEMMA StartKeeps ==
  ASSUME Types, Exclusive, NeverUnwatched, NEW t \in Threads, StartProber(t)
  PROVE  Exclusive' /\ NeverUnwatched'
<1> USE DEF Types, Threads, Goto, Running, After, health, env, circuit
<1>1. CASE MayLaunch /\ \E p \in Probers : Launch(t, p)
  <2>1. PICK p \in Probers : Launch(t, p)
    BY <1>1
  <2>2. ~running /\ \A q \in Probers : ~Running(q)
    BY <1>1 DEF MayLaunch, Exclusive
  <2>3. t \notin Probers
    BY <1>1, <2>2 DEF StartProber
  <2>4. pc'[p] = "pause" /\ running' = TRUE /\ \A q \in Probers \ {p} : pc'[q] = pc[q]
    BY <2>1, <2>3 DEF Launch
  <2>5. Exclusive'
    BY <2>2, <2>4 DEF Exclusive
  <2> QED
    BY <2>4, <2>5 DEF NeverUnwatched
<1>2. CASE ~MayLaunch /\ Goto(t, After(pc[t])) /\ UNCHANGED health
  <2>1. Unmoved /\ UNCHANGED <<setup, closed, state>>
    BY <1>2 DEF StartProber, Unmoved
  <2>2. setup.gated /\ ~closed => \E p \in Probers : pc'[p] # "off"
    BY <1>2, <2>1 DEF MayLaunch, Exclusive, Unmoved
  <2>3. Exclusive'
    BY <2>1 DEF Exclusive, Unmoved
  <2> QED
    BY <2>1, <2>2, <2>3 DEF NeverUnwatched
<1> QED
  BY <1>1, <1>2 DEF StartProber

(* The prober itself: it gives up the flag before it looks again, and ends   *)
(* only when the circuit needs nobody or somebody else has the flag.         *)
LEMMA ProberKeeps ==
  ASSUME Types, Exclusive, NeverUnwatched, NEW p \in Probers, Watch(p)
  PROVE  Exclusive' /\ NeverUnwatched'
<1> USE CallersAssumption DEF Types, Threads, Goto, Running, health, env, circuit
<1>1. CASE Wake(p) \/ Probe(p) \/ Restamp(p) \/ FreeFirst(p) \/ BeginHalf(p) \/ ResetClosed(p)
  <2>1. Unmoved /\ UNCHANGED <<setup, closed>> /\ pc'[p] # "off"
    BY <1>1 DEF Wake, Probe, WhenHealthy, Restamp, FreeFirst, BeginHalf, ResetClosed, Unmoved
  <2> QED
    BY <2>1, KeepsWatch
<1>2. CASE Release(p)
  <2>1. running' = FALSE /\ pc'[p] = "recheck" /\ \A q \in Probers \ {p} : pc'[q] = pc[q]
    BY <1>2 DEF Release
  <2>2. \A q \in Probers : Running(q) => q = p
    BY <1>2 DEF Release, Exclusive
  <2> QED
    BY <2>1, <2>2 DEF Exclusive, NeverUnwatched
<1>3. CASE Recheck(p)
  <2>1. /\ UNCHANGED <<setup, closed, state, running>>
        /\ \A q \in Probers : Running(q)' <=> Running(q)
        /\ pc'[p] # "off" \/ closed \/ state = "closed"
    BY <1>3 DEF Recheck
  <2>2. Exclusive'
    BY <2>1 DEF Exclusive
  <2>3. NeverUnwatched'
    BY <2>1 DEF NeverUnwatched
  <2> QED
    BY <2>2, <2>3
<1>4. CASE Again(p)
  <2>1. CASE running /\ Goto(p, "off") /\ UNCHANGED health
    <3>1. PICK q \in Probers : Running(q)
      BY <2>1 DEF Exclusive
    <3>2. \A r \in Probers : Running(r)' <=> Running(r)
      BY <1>4, <2>1 DEF Again
    <3> QED
      BY <2>1, <3>1, <3>2 DEF Exclusive, NeverUnwatched
  <2>2. CASE ~running /\ running' = TRUE /\ Goto(p, "pause")
    BY <1>4, <2>2 DEF Again, Exclusive, NeverUnwatched
  <2> QED
    BY <1>4, <2>1, <2>2 DEF Again
<1> QED
  BY <1>1, <1>2, <1>3, <1>4 DEF Watch

-----------------------------------------------------------------------------
(* The invariant, its induction, and what follows.                           *)

Inv == Types /\ BulkheadHolds /\ Exclusive /\ NeverUnwatched

(* The inductive invariant holds initially.                                  *)
LEMMA InitInv == Init => Inv
<1> SUFFICES ASSUME Init PROVE Inv
  OBVIOUS
<1>1. Types
  <2>1. DOMAIN pc = Threads
    BY DEF Init, Threads
  <2>2. inflight \in Int /\ setup \in Setups
    BY SMTT(30) DEF Init
  <2>3. running \in BOOLEAN /\ closed \in BOOLEAN
    BY DEF Init
  <2> QED
    BY <2>1, <2>2, <2>3 DEF Types
<1>2. BulkheadHolds
  <2>1. Holders = {} /\ {t \in Holders \ VIPs : pc[t] # "forced"} = {}
    BY DEF Init, Holders, HoldsSlot
  <2> QED
    BY <1>1, <2>1, FS_EmptySet, LimitIs, SMTT(30) DEF Init, BulkheadHolds
<1>3. \A p \in Probers : ~Running(p)
  BY CallersAssumption DEF Init, Running
<1> QED
  BY <1>1, <1>2, <1>3 DEF Inv, Exclusive, NeverUnwatched, Init

(* Every step keeps the types.                                               *)
LEMMA TypesStep == Types /\ [Next]_vars => Types'
<1> SUFFICES ASSUME Types, [Next]_vars PROVE Types'
  OBVIOUS
<1> USE DEF Types, Threads, Goto, health, env
<1>1. CASE Tick \/ Forget \/ Outage \/ Repair \/ SetOverride \/ Close
  BY <1>1 DEF Tick, Forget, Outage, Repair, SetOverride, Close
<1>2. CASE \E t \in Callers : Admit(t) \/ Finish(t)
  <2>1. PICK t \in Callers : Admit(t) \/ Finish(t)
    BY <1>2
  <2>2. CASE Begin(t) \/ Acquire(t) \/ Refuse(t) \/ Finish(t)
    <3>1. CASE Begin(t) BY <3>1, SMTT(30) DEF Begin
    <3>2. CASE Acquire(t) BY <3>2, SMTT(30) DEF Acquire
    <3>3. CASE Refuse(t) BY <3>3, SMTT(30) DEF Refuse
    <3>4. CASE Finish(t) BY <3>4, SMTT(30) DEF Finish, Succeed, Fail, Abandon, Leave
    <3> QED
      BY <2>2, <3>1, <3>2, <3>3, <3>4
  <2>3. CASE Look(t) \/ LookOpen(t) \/ ToHalf(t) \/ Claim(t) \/ Stamp(t)
    BY <2>3 DEF Look, LookOpen, ToHalf, Claim, Stamp, Deny
  <2> QED
    BY <2>1, <2>2, <2>3 DEF Admit
<1>3. CASE \E t \in Threads : Record(t) \/ Shared(t)
  <2>1. PICK t \in Threads : Record(t) \/ Shared(t)
    BY <1>3
  <2>2. CASE Record(t)
    BY <2>2 DEF Record, AbandonLook, FreeProbe, RecordOk, OkClose, RecordBad, BadStamp, BadLook,
                BadCount
  <2>3. CASE Reset(t) \/ ToOpen(t) \/ NotToOpen(t) \/ Opened(t)
    BY <2>3 DEF Reset, ToOpen, NotToOpen, Opened
  <2>4. CASE StartProber(t)
    BY <2>4 DEF StartProber, Launch, After
  <2> QED
    BY <2>1, <2>2, <2>3, <2>4 DEF Shared
<1>4. CASE \E p \in Probers : Watch(p)
  <2>1. PICK p \in Probers : Watch(p)
    BY <1>4
  <2>2. CASE Wake(p) \/ Probe(p) \/ Restamp(p) \/ FreeFirst(p)
    BY <2>2 DEF Wake, Probe, WhenHealthy, Restamp, FreeFirst
  <2>3. CASE BeginHalf(p) \/ ResetClosed(p) \/ Release(p) \/ Recheck(p) \/ Again(p)
    BY <2>3 DEF BeginHalf, ResetClosed, Release, Recheck, Again
  <2> QED
    BY <2>1, <2>2, <2>3 DEF Watch
<1>5. CASE UNCHANGED vars
  BY <1>5 DEF vars
<1> QED
  BY <1>1, <1>2, <1>3, <1>4, <1>5 DEF Next

(* Every step keeps the inductive invariant.                                 *)
LEMMA InvStep == Inv /\ [Next]_vars => Inv'
<1> SUFFICES ASSUME Inv, [Next]_vars PROVE BulkheadHolds' /\ Exclusive' /\ NeverUnwatched'
  BY TypesStep DEF Inv
<1> USE DEF Inv
<1>1. CASE Tick \/ Forget \/ Outage \/ Repair \/ SetOverride \/ Close \/ UNCHANGED vars
  <2>1. /\ UNCHANGED <<pc, inflight, state, running, setup>>
        /\ closed => closed'
    <3>1. CASE Tick BY <3>1 DEF Tick, health, env, circuit
    <3>2. CASE Forget BY <3>2 DEF Forget, health, env, circuit
    <3>3. CASE Outage \/ Repair BY <3>3, SMTT(30) DEF Outage, Repair, health, env, circuit
    <3>4. CASE SetOverride BY <3>4 DEF SetOverride, health, env, circuit
    <3>5. CASE Close BY <3>5 DEF Close, health, env, circuit
    <3>6. CASE UNCHANGED vars BY <3>6 DEF vars, health, env, circuit
    <3> QED
      BY <1>1, <3>1, <3>2, <3>3, <3>4, <3>5, <3>6
  <2>2. BulkheadHolds'
    BY <2>1, KeepsSlots
  <2>3. Unmoved
    BY <2>1 DEF Unmoved, Running
  <2> QED
    BY <2>1, <2>2, <2>3, KeepsWatch
<1>2. CASE \E t \in Callers : Admit(t) \/ Finish(t)
  <2>1. PICK t \in Callers : Admit(t) \/ Finish(t)
    BY <1>2
  <2> QED
    BY <2>1, CallKeeps, CallUnmoved, KeepsWatch
<1>3. CASE \E t \in Threads : Record(t) \/ Shared(t)
  <2>1. PICK t \in Threads : Record(t) \/ Shared(t)
    BY <1>3
  <2>2. BulkheadHolds'
    BY <2>1, SharedKeeps, KeepsSlots
  <2>3. CASE StartProber(t)
    BY <2>2, <2>3, StartKeeps
  <2>4. CASE ~StartProber(t)
    <3>1. Record(t) \/ Reset(t) \/ ToOpen(t) \/ NotToOpen(t) \/ Opened(t)
      BY <2>1, <2>4 DEF Shared
    <3>2. pc'[t] \in Opening => pc'[t] # "off"
      BY DEF Opening
    <3> QED
      BY <2>2, <3>1, <3>2, SharedUnmoved, KeepsWatch DEF Threads
  <2> QED
    BY <2>3, <2>4
<1>4. CASE \E p \in Probers : Watch(p)
  <2>1. PICK p \in Probers : Watch(p)
    BY <1>4
  <2>2. BulkheadHolds'
    BY <2>1, WatchKeeps, KeepsSlots
  <2> QED
    BY <2>1, <2>2, ProberKeeps
<1> QED
  BY <1>1, <1>2, <1>3, <1>4 DEF Next, Threads

(* The inductive invariant holds in every reachable state.                   *)
LEMMA Inductive == Spec => []Inv
  BY InitInv, InvStep, PTL DEF Spec

(* For any number of callers, priority callers and limits: the in-flight     *)
(* counter, which acquire and MarkSuccess, MarkFailure and Abandon change    *)
(* without a lock, is exact, and the bulkhead is never exceeded.             *)
THEOREM BulkheadCorrect == Spec => []BulkheadHolds
  BY Inductive, PTL DEF Inv

(* For any number of prober goroutines: startProber's flag admits one of     *)
(* them to health.Run at a time, and is set exactly while one is there.      *)
THEOREM ProberExclusive == Spec => []OneProber
<1>1. Exclusive => OneProber
  <2> SUFFICES ASSUME Exclusive PROVE OneProber
    OBVIOUS
  <2> DEFINE S == {p \in Probers : Running(p)}
  <2>1. CASE S = {}
    BY <2>1, FS_EmptySet, SMTT(30) DEF Exclusive, OneProber
  <2>2. CASE \E p \in Probers : S = {p}
    BY <2>2, FS_Singleton, SMTT(30) DEF Exclusive, OneProber
  <2> QED
    BY <2>1, <2>2, SMTT(30) DEF Exclusive
<1> QED
  BY <1>1, Inductive, PTL DEF Inv

(* For any number of callers and probers: however openings race with a       *)
(* prober that leaves, an open health-gated circuit has somebody who watches *)
(* it or is about to.                                                        *)
THEOREM AlwaysWatched == Spec => []NeverUnwatched
  BY Inductive, PTL DEF Inv
=============================================================================
