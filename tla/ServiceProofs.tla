--------------------------- MODULE ServiceProofs ---------------------------
(***************************************************************************)
(* The service releases what it opened last, and messages of a key are     *)
(* handled in order, for any partitions, configurations and restarts.      *)
(***************************************************************************)
EXTENDS Service, FiniteSetTheorems, TLAPS

\* A leaf goes to Zenon, or to Z3 where it says so.
USE ZenonT(20), SMTT(30)

-----------------------------------------------------------------------------
(* What is open.                                                             *)

Parts == {"breakers", "store", "client"}

\* What is opened before step n of NewService, and closed before step n of Close.
OpenedBy(n) == {Opening[i] : i \in 1..(n - 1)}
ClosedBy(n) == {Closing[i] : i \in 1..(n - 1)}

LifeTypes ==
  /\ owns \subseteq Parts /\ opened \subseteq owns /\ parts \subseteq Both
  /\ life \in {"down", "building", "built", "closing"} /\ step \in 1..4
  /\ run \in {"no", "running", "stopping", "done"}

\* Run is under way only in a service that is built and whose Close still waits.
InUse ==
  /\ parts # {} => run \in {"running", "stopping"}
  /\ run \in {"running", "stopping"} =>
       opened = owns /\ (life # "built" => life = "closing" /\ step = 1)

\* How far NewService and Close have come.
Progressed ==
  /\ life = "down" => opened = {}
  /\ life = "building" => run = "no" /\ opened = OpenedBy(step) \cap owns
  /\ life = "built" => opened = owns
  /\ life = "closing" => opened \cap ClosedBy(step) = {}

LifeInv == LifeTypes /\ InUse /\ Progressed

(* Step n of NewService opens one part more.                                 *)
LEMMA OpenedSteps ==
  /\ OpenedBy(1) = {} /\ OpenedBy(4) = Parts
  /\ \A n \in 1..3 : OpenedBy(n + 1) = OpenedBy(n) \cup {Opening[n]}
<1>1. OpenedBy(1) = {}
  BY SMTT(30) DEF OpenedBy
<1>2. OpenedBy(4) = {Opening[1], Opening[2], Opening[3]}
  BY SMTT(30) DEF OpenedBy
<1>3. {Opening[1], Opening[2], Opening[3]} = Parts
  BY SMTT(30) DEF Opening, Parts
<1>4. ASSUME NEW n \in 1..3
      PROVE  OpenedBy(n + 1) = OpenedBy(n) \cup {Opening[n]}
  BY SMTT(30) DEF OpenedBy
<1> QED  BY <1>1, <1>2, <1>3, <1>4

(* Step n of Close closes one part more.                                     *)
LEMMA ClosedSteps ==
  /\ ClosedBy(1) = {} /\ ClosedBy(4) = Parts
  /\ \A n \in 1..3 : ClosedBy(n + 1) = ClosedBy(n) \cup {Closing[n]}
<1>1. ClosedBy(1) = {}
  BY SMTT(30) DEF ClosedBy
<1>2. ClosedBy(4) = {Closing[1], Closing[2], Closing[3]}
  BY SMTT(30) DEF ClosedBy
<1>3. {Closing[1], Closing[2], Closing[3]} = Parts
  BY SMTT(30) DEF Closing, Parts
<1>4. ASSUME NEW n \in 1..3
      PROVE  ClosedBy(n + 1) = ClosedBy(n) \cup {Closing[n]}
  BY SMTT(30) DEF ClosedBy
<1> QED  BY <1>1, <1>2, <1>3, <1>4

(* LifeInv holds at the start.                                               *)
LEMMA LifeStarts ==
  ASSUME Init
  PROVE  LifeInv
<1>1. LifeTypes
  BY OwnedAssumption, SMTT(30) DEF Init, LifeTypes, Parts
<1>2. InUse /\ Progressed
  BY DEF Init, InUse, Progressed
<1> QED  BY <1>1, <1>2 DEF LifeInv

(* NewService begins with nothing open.                                      *)
LEMMA NewServiceLife ==
  ASSUME LifeInv, NEW c, NEW p, NewService(c, p)
  PROVE  LifeInv'
<1>1. LifeTypes'
  BY SMTT(30) DEF LifeInv, LifeTypes, NewService
<1>2. parts = {}
  BY DEF LifeInv, InUse, NewService
<1>3. InUse'
  BY <1>2 DEF InUse, NewService
<1>4. Progressed'
  BY OpenedSteps DEF LifeInv, Progressed, NewService
<1> QED  BY <1>1, <1>3, <1>4 DEF LifeInv

(* A step of NewService, done or failed, keeps LifeInv.                      *)
LEMMA BuildLife ==
  ASSUME LifeInv, Build
  PROVE  LifeInv'
<1>1. /\ LifeTypes /\ InUse /\ run = "no" /\ opened = OpenedBy(step) \cap owns /\ life = "building"
      /\ UNCHANGED <<owns, run, parts>>
  BY DEF LifeInv, Progressed, Build
<1>2. CASE step <= 3 /\ opened' = opened \cup ({Opening[step]} \cap owns) /\ step' = step + 1
           /\ UNCHANGED life
  <2>1. step \in 1..3
    BY <1>1, <1>2, SMTT(30) DEF LifeTypes
  <2>2. opened' = OpenedBy(step') \cap owns
    BY <1>1, <1>2, <2>1, OpenedSteps, SMTT(30)
  <2>3. step' \in 1..4
    BY <1>2, <2>1, SMTT(30)
  <2>4. LifeTypes'
    BY <1>1, <1>2, <2>2, <2>3 DEF LifeTypes
  <2> QED  BY <1>1, <1>2, <2>2, <2>4 DEF LifeInv, InUse, Progressed
<1>3. CASE step = 4 /\ life' = "built" /\ step' = 1 /\ UNCHANGED opened
  <2>1. opened = owns
    BY <1>1, <1>3, OpenedSteps DEF LifeTypes
  <2>2. LifeTypes'
    BY <1>1, <1>3, SMTT(30) DEF LifeTypes
  <2> QED  BY <1>1, <1>3, <2>1, <2>2 DEF LifeInv, InUse, Progressed
<1>4. CASE life' = "closing" /\ step' = 1 /\ UNCHANGED opened
  <2>1. LifeTypes'
    BY <1>1, <1>4, SMTT(30) DEF LifeTypes
  <2> QED  BY <1>1, <1>4, <2>1, ClosedSteps DEF LifeInv, InUse, Progressed
<1> QED  BY <1>2, <1>3, <1>4 DEF Build

(* Run, its cancellation and its return keep LifeInv.                        *)
LEMMA RunLife ==
  ASSUME LifeInv, Run \/ CancelRun \/ RunReturns \/ \E x \in Both : PartStops(x)
  PROVE  LifeInv'
<1>1. UNCHANGED <<owns, opened, life, step>>
  BY DEF Run, CancelRun, RunReturns, PartStops
<1>2. CASE Run
  BY <1>1, <1>2 DEF Run, LifeInv, LifeTypes, InUse, Progressed
<1>3. CASE CancelRun
  BY <1>1, <1>3 DEF CancelRun, LifeInv, LifeTypes, InUse, Progressed
<1>4. CASE RunReturns
  BY <1>1, <1>4 DEF RunReturns, LifeInv, LifeTypes, InUse, Progressed
<1>5. ASSUME NEW x \in Both, PartStops(x)
      PROVE  LifeInv'
  <2>1. x \in parts /\ parts' = parts \ {x} /\ (run' = run \/ run' = "stopping")
    BY <1>5 DEF PartStops, StopOther
  <2>2. run \in {"running", "stopping"} /\ run' \in {"running", "stopping"}
    BY <2>1 DEF LifeInv, InUse
  <2> QED  BY <1>1, <2>1, <2>2 DEF LifeInv, LifeTypes, InUse, Progressed
<1> QED  BY <1>2, <1>3, <1>4, <1>5

(* A call of Close keeps LifeInv.                                            *)
LEMMA CloseBeginsLife ==
  ASSUME LifeInv, CloseBegins
  PROVE  LifeInv'
<1>1. LifeTypes'
  BY SMTT(30) DEF CloseBegins, LifeInv, LifeTypes
<1> QED  BY <1>1, ClosedSteps DEF CloseBegins, LifeInv, InUse, Progressed

(* A step of Close keeps LifeInv.                                            *)
LEMMA CloseStepLife ==
  ASSUME LifeInv, CloseStep
  PROVE  LifeInv'
<1>1. /\ LifeTypes /\ life = "closing" /\ run \in {"no", "done"} /\ parts = {}
      /\ opened \cap ClosedBy(step) = {} /\ UNCHANGED <<owns, run, parts>>
  BY DEF CloseStep, RunAwaited, LifeInv, InUse, Progressed
<1>2. InUse'
  BY <1>1 DEF InUse
<1>3. CASE step <= 3
  <2>1. opened' = opened \ {Closing[step]} /\ step' = step + 1 /\ UNCHANGED life
    BY <1>3 DEF CloseStep
  <2>2. step \in 1..3 /\ step' \in 1..4
    BY <1>1, <1>3, <2>1, SMTT(30) DEF LifeTypes
  <2>3. opened' \cap ClosedBy(step') = {}
    BY <1>1, <2>1, <2>2, ClosedSteps, SMTT(30)
  <2>4. LifeTypes'
    BY <1>1, <2>1, <2>2 DEF LifeTypes
  <2> QED  BY <1>1, <1>2, <2>1, <2>3, <2>4 DEF LifeInv, Progressed
<1>4. CASE ~(step <= 3)
  <2>1. life' = "down" /\ step' = 1 /\ UNCHANGED opened
    BY <1>4 DEF CloseStep
  <2>2. step = 4
    BY <1>1, <1>4, SMTT(30) DEF LifeTypes
  <2>3. opened = {}
    BY <1>1, <2>2, ClosedSteps DEF LifeTypes
  <2>4. LifeTypes'
    BY <1>1, <2>1, SMTT(30) DEF LifeTypes
  <2> QED  BY <1>2, <2>1, <2>3, <2>4 DEF LifeInv, Progressed
<1> QED  BY <1>3, <1>4

(* A crash keeps LifeInv.                                                    *)
LEMMA CrashLife ==
  ASSUME LifeInv, Crash
  PROVE  LifeInv'
<1>1. LifeTypes'
  BY SMTT(30) DEF Crash, LifeInv, LifeTypes
<1> QED  BY <1>1 DEF Crash, LifeInv, InUse, Progressed

(* The service releases what it opened when nothing uses it any more: while  *)
(* the consumer or the redriver runs all of it is open, and a service that   *)
(* is closed, or whose NewService failed, has nothing open (NewService, Run  *)
(* and Close of kafka/service.go).                                           *)
THEOREM ReleasesLast == Spec => []ReleasedLast
<1>1. Init => LifeInv
  BY LifeStarts
<1>2. LifeInv /\ [Next]_vars => LifeInv'
  <2>. SUFFICES ASSUME LifeInv, [Next]_vars PROVE LifeInv'
    OBVIOUS
  <2>1. CASE Next
    <3>1. CASE Work \/ Offline
      BY <3>1 DEF Work, Offline, svcVars, LifeInv, LifeTypes, InUse, Progressed, OpenedBy, ClosedBy
    <3> QED  BY <2>1, <3>1, NewServiceLife, BuildLife, RunLife, CloseBeginsLife, CloseStepLife,
                CrashLife DEF Next
  <2>2. CASE UNCHANGED vars
    BY <2>2 DEF vars, svcVars, LifeInv, LifeTypes, InUse, Progressed, OpenedBy, ClosedBy
  <2> QED  BY <2>1, <2>2
<1>3. LifeInv => ReleasedLast
  BY DEF LifeInv, LifeTypes, InUse, Progressed, ReleasedLast
<1> QED  BY <1>1, <1>2, <1>3, PTL DEF Spec

-----------------------------------------------------------------------------
(* What the store holds.                                                     *)

Done == finished \cup discarded

\* The records of a partition.
Waiting(p) == Stored \cap Range(Partitions[p])

Rec == [state : {"absent", "pending", "leased", "parked"}, pos : Nat, key : Keys \cup {NoKey},
        token : Nat, until : Nat, next : Nat]
Source == [pc : {"idle", "ask", "handle", "seal", "append", "hung"}, next : Nat \ {0}, try : Nat \ {0},
           form : Keys \cup {NoKey}]
Job == [pc : {"open", "handle"}, id : Ids, token : Nat]

Types ==
  /\ now \in Nat /\ last \in Nat /\ rec \in [Ids -> Rec] /\ issued \in [Ids -> Nat]
  /\ config \in DOMAIN Configs
  /\ source \in [Sources -> Source]
  /\ job \in Job \cup {NoJob}

\* Only messages are stored, those of a partition under one key, which one of the
\* peppers in use makes, and none behind the newest.
Keyed ==
  /\ \A id \in Stored : rec[id].pos <= last /\ \E p \in Sources : id \in Range(Partitions[p])
  /\ \A p \in Sources : \A id \in Waiting(p) : rec[id].key \in Range(Candidates(p))
  /\ \A p \in Sources : \A a, b \in Waiting(p) : rec[a].key = rec[b].key

\* A stored message has every earlier one done, or stored before it.
Queued ==
  \A p \in Sources : \A i, j \in DOMAIN Partitions[p] :
    LET m == Partitions[p][i]
        e == Partitions[p][j]
    IN j < i /\ m \in Stored => e \in Done \/ (e \in Stored /\ rec[e].pos < rec[m].pos)

\* Everything the consumer is past is done or stored.
Reached ==
  \A p \in Sources : \A i \in DOMAIN Partitions[p] :
    i < source[p].next => Partitions[p][i] \in Done \cup Stored

\* What the consumer found out about a key, where s says it is, is still true.
Asked(p, s) ==
  /\ s.pc # "idle" => s.next \in DOMAIN Partitions[p]
  /\ s.pc \in {"ask", "seal"} =>
       /\ s.try \in DOMAIN Candidates(p)
       /\ \A k \in 1..(s.try - 1) : \A id \in Waiting(p) : rec[id].key # Candidates(p)[k]
  /\ s.pc = "handle" => Waiting(p) = {}
  /\ s.pc = "append" => s.form \in Range(Candidates(p)) /\ \A id \in Waiting(p) : rec[id].key = s.form

\* All messages of p before the i-th are done.
Earlier(p, i) == \A j \in DOMAIN Partitions[p] : j < i => Partitions[p][j] \in Done

Handed ==
  \A p \in Sources : \A i \in DOMAIN Partitions[p] :
    Partitions[p][i] \in finished \/ (job # NoJob /\ job.id = Partitions[p][i]) => Earlier(p, i)

OrderInv == Types /\ Keyed /\ Queued /\ Reached /\ (\A p \in Sources : Asked(p, source[p])) /\ Handed

(* The messages of a partition.                                              *)
LEMMA PartitionsAre ==
  ASSUME NEW p \in Sources
  PROVE  /\ DOMAIN Partitions[p] = 1..Len(Partitions[p]) /\ Len(Partitions[p]) \in Nat
         /\ \A i \in DOMAIN Partitions[p] :
              Partitions[p][i] \in Ids /\ Partitions[p][i] \in Range(Partitions[p])
<1>1. Partitions[p] \in Seq(Ids)
  BY PartitionsAssumption
<1>2. /\ DOMAIN Partitions[p] = 1..Len(Partitions[p]) /\ Len(Partitions[p]) \in Nat
      /\ \A i \in DOMAIN Partitions[p] : Partitions[p][i] \in Ids
  BY <1>1, SMTT(30)
<1> QED  BY <1>2 DEF Range

(* A message is of one partition, and has one place there.                   *)
LEMMA OnePlace ==
  ASSUME NEW p \in Sources, NEW q \in Sources, NEW i \in DOMAIN Partitions[p],
         NEW j \in DOMAIN Partitions[q], Partitions[p][i] = Partitions[q][j]
  PROVE  p = q /\ i = j
BY PartitionsAssumption

(* A message is in one partition.                                            *)
LEMMA OneSource ==
  ASSUME NEW p \in Sources, NEW q \in Sources, NEW m \in Range(Partitions[p]), m \in Range(Partitions[q])
  PROVE  p = q
BY OnePlace DEF Range

(* The stored forms of a key.                                                *)
LEMMA CandidatesAre ==
  ASSUME NEW p \in Sources, config \in DOMAIN Configs
  PROVE  /\ Len(Candidates(p)) \in Nat \ {0} /\ DOMAIN Candidates(p) = 1..Len(Candidates(p))
         /\ \A i \in DOMAIN Candidates(p) :
              /\ Candidates(p)[i] \in Keys /\ Candidates(p)[i] # NoKey /\ Candidates(p)[i][2] = p
              /\ Candidates(p)[i] = <<Candidates(p)[i][1], p>>
              /\ Candidates(p)[i][1] = Configs[config].peppers[i]
<1>. DEFINE P == {k[1] : k \in Keys}
            peppers == Configs[config].peppers
<1>1. peppers \in Seq(P) /\ peppers # <<>> /\ NoKey \notin Keys /\ P \X Sources \subseteq Keys
  BY ConfigsAssumption, KeysAssumption
<1>2. Candidates(p) = [i \in DOMAIN peppers |-> <<peppers[i], p>>]
  BY DEF Candidates
<1>. HIDE DEF P, peppers
<1>3. DOMAIN peppers = 1..Len(peppers) /\ Len(peppers) \in Nat \ {0}
  BY <1>1, SMTT(30)
<1>4. Candidates(p) \in Seq(Keys) /\ DOMAIN Candidates(p) = DOMAIN peppers /\ Len(Candidates(p)) = Len(peppers)
  BY <1>1, <1>2, <1>3, SMTT(30)
<1>5. ASSUME NEW i \in DOMAIN Candidates(p)
      PROVE  /\ Candidates(p)[i] \in Keys /\ Candidates(p)[i] # NoKey /\ Candidates(p)[i][2] = p
             /\ Candidates(p)[i] = <<Candidates(p)[i][1], p>> /\ Candidates(p)[i][1] = peppers[i]
  BY <1>1, <1>2, <1>3, <1>4, SMTT(30)
<1> QED  BY <1>3, <1>4, <1>5 DEF peppers

(* HasOrderKey of a stored form finds the partition's own records.           *)
LEMMA Found ==
  ASSUME Types, Keyed, NEW p \in Sources, NEW k \in DOMAIN Candidates(p)
  PROVE  HasOrderKey(Candidates(p)[k]) <=> \E id \in Waiting(p) : rec[id].key = Candidates(p)[k]
<1>0. config \in DOMAIN Configs
  BY DEF Types
<1>1. Candidates(p)[k] # NoKey /\ Candidates(p)[k][2] = p
  BY <1>0, CandidatesAre
<1>2. ASSUME NEW id \in Stored, rec[id].key = Candidates(p)[k]
      PROVE  id \in Waiting(p)
  <2>1. PICK q \in Sources : id \in Range(Partitions[q])
    BY DEF Keyed
  <2>2. rec[id].key \in Range(Candidates(q))
    BY <2>1 DEF Keyed, Waiting
  <2>3. PICK i \in DOMAIN Candidates(q) : rec[id].key = Candidates(q)[i]
    BY <2>2 DEF Range
  <2>4. Candidates(q)[i][2] = q
    BY <1>0, CandidatesAre
  <2>5. p = q
    BY <1>1, <1>2, <2>3, <2>4
  <2> QED  BY <2>1, <2>5 DEF Waiting
<1>3. \A id \in Waiting(p) : id \in Stored
  BY DEF Waiting
<1> QED  BY <1>1, <1>2, <1>3 DEF HasOrderKey

-----------------------------------------------------------------------------
(* What a step of the store may do.                                          *)

\* The records G leave the store; the others keep their key and their place.
Keeps(G) ==
  \A id \in Ids :
    /\ id \in G => rec'[id].state = "absent"
    /\ id \notin G => /\ rec'[id].pos = rec[id].pos /\ rec'[id].key = rec[id].key
                      /\ rec'[id].state = "absent" <=> rec[id].state = "absent"

(* A step that drops G keeps the other records as they are.                  *)
LEMMA KeepsStored ==
  ASSUME NEW G, Keeps(G)
  PROVE  /\ Stored' = Stored \ G
         /\ \A id \in Stored' : rec'[id].key = rec[id].key /\ rec'[id].pos = rec[id].pos
         /\ \A p \in Sources : Waiting(p)' = Waiting(p) \ G
<1>1. Stored' = {id \in Ids : rec'[id].state # "absent"} /\ Stored = {id \in Ids : rec[id].state # "absent"}
  BY DEF Stored
<1>2. Stored' = Stored \ G
  BY <1>1 DEF Keeps
<1>3. \A id \in Stored' : rec'[id].key = rec[id].key /\ rec'[id].pos = rec[id].pos
  BY <1>1, <1>2 DEF Keeps
<1>4. \A p \in Sources : Waiting(p)' = Waiting(p) \ G
  BY <1>2 DEF Waiting
<1> QED  BY <1>2, <1>3, <1>4

(* Records that go leave the others in the order of arrival.                 *)
LEMMA KeepsQueued ==
  ASSUME Queued, NEW G, Keeps(G), G \subseteq Done', Done \subseteq Done'
  PROVE  Queued'
<1>. SUFFICES ASSUME NEW p \in Sources, NEW i \in DOMAIN Partitions[p], NEW j \in DOMAIN Partitions[p],
                     j < i, Partitions[p][i] \in Stored'
              PROVE  \/ Partitions[p][j] \in Done'
                     \/ Partitions[p][j] \in Stored' /\ rec'[Partitions[p][j]].pos < rec'[Partitions[p][i]].pos
  BY DEF Queued
<1>. DEFINE m == Partitions[p][i]
            e == Partitions[p][j]
<1>1. m \in Stored /\ rec'[m].pos = rec[m].pos
  BY KeepsStored
<1>2. e \in Done \/ (e \in Stored /\ rec[e].pos < rec[m].pos)
  BY <1>1 DEF Queued
<1>3. CASE e \in Stored /\ rec[e].pos < rec[m].pos /\ e \notin G
  <2>1. e \in Stored' /\ rec'[e].pos = rec[e].pos
    BY <1>3, KeepsStored
  <2> QED  BY <1>1, <1>3, <2>1
<1> QED  BY <1>2, <1>3

(* Records that go leave the hash of the others alone.                       *)
LEMMA KeepsKeyed ==
  ASSUME Keyed, NEW G, Keeps(G), last' = last, config' = config
  PROVE  Keyed'
<1>1. \A id \in Stored' : rec'[id].pos <= last' /\ \E p \in Sources : id \in Range(Partitions[p])
  BY KeepsStored DEF Keyed
<1>2. \A p \in Sources : Candidates(p)' = Candidates(p)
  BY DEF Candidates
<1>3. ASSUME NEW p \in Sources
      PROVE  /\ \A id \in Waiting(p)' : rec'[id].key \in Range(Candidates(p))
             /\ \A a, b \in Waiting(p)' : rec'[a].key = rec'[b].key
  <2>1. \A id \in Waiting(p)' : id \in Waiting(p) /\ rec'[id].key = rec[id].key
    BY KeepsStored DEF Waiting
  <2> QED  BY <2>1 DEF Keyed
<1> QED  BY <1>1, <1>2, <1>3 DEF Keyed

(* A record that goes is done, so what the consumer has passed stays         *)
(* accounted for.                                                            *)
LEMMA KeepsReached ==
  ASSUME Types, Types', Reached, NEW G, Keeps(G), G \subseteq Done', Done \subseteq Done',
         \A p \in Sources : source'[p].next <= source[p].next
  PROVE  Reached'
<1>. SUFFICES ASSUME NEW p \in Sources, NEW i \in DOMAIN Partitions[p], i < source'[p].next
              PROVE  Partitions[p][i] \in Done' \cup Stored'
  BY DEF Reached
<1>1. i \in Int /\ source[p].next \in Int /\ source'[p].next \in Int
  BY PartitionsAre, SMTT(30) DEF Types, Source
<1>2. i < source[p].next
  BY <1>1, SMTT(30)
<1>3. Partitions[p][i] \in Done \cup Stored
  BY <1>2 DEF Reached
<1> QED  BY <1>3, KeepsStored

(* What was not found stays away as long as nothing is added.                *)
LEMMA AskedStays ==
  ASSUME config' = config, NEW p \in Sources, source'[p] = source[p], Asked(p, source[p]),
         \A id \in Waiting(p)' : id \in Waiting(p) /\ rec'[id].key = rec[id].key
  PROVE  Asked(p, source[p])'
<1>1. Candidates(p)' = Candidates(p)
  BY DEF Candidates
<1>2. Waiting(p) = {} => Waiting(p)' = {}
  OBVIOUS
<1> QED  BY <1>1, <1>2 DEF Asked

(* What was not found is not there after records have gone.                  *)
LEMMA KeepsAsked ==
  ASSUME NEW G, Keeps(G), config' = config, NEW p \in Sources, source'[p] = source[p],
         Asked(p, source[p])
  PROVE  Asked(p, source[p])'
<1>1. \A id \in Waiting(p)' : id \in Waiting(p) /\ rec'[id].key = rec[id].key
  BY KeepsStored DEF Waiting
<1> QED  BY <1>1, AskedStays

(* What is handed out goes on being handled in order.                        *)
LEMMA HandedStays ==
  ASSUME Handed, Done \subseteq Done', finished' = finished,
         job' = NoJob \/ (job # NoJob /\ job'.id = job.id)
  PROVE  Handed'
BY DEF Handed, Earlier

(* A step that leaves the consumer alone.                                    *)
LEMMA StoreStep ==
  ASSUME OrderInv, NEW G, Keeps(G), G \subseteq Done', Done \subseteq Done', Types', Handed',
         UNCHANGED <<last, config, source>>
  PROVE  OrderInv'
<1>1. Queued' /\ Keyed'
  BY KeepsQueued, KeepsKeyed DEF OrderInv
<1>2. Reached'
  <2>1. \A p \in Sources : source'[p].next <= source[p].next
    BY SMTT(30) DEF OrderInv, Types, Source
  <2> QED  BY <2>1, KeepsReached DEF OrderInv
<1>3. \A p \in Sources : Asked(p, source[p])'
  BY KeepsAsked DEF OrderInv
<1> QED  BY <1>1, <1>2, <1>3 DEF OrderInv

(* The store as it is keeps everything.                                      *)
LEMMA KeepsAll ==
  ASSUME UNCHANGED rec
  PROVE  Keeps({})
BY DEF Keeps

-----------------------------------------------------------------------------
(* The redriver and the operator.                                            *)

(* A settled record.                                                         *)
LEMMA SettleKeeps ==
  ASSUME Types, NEW id \in Ids, NEW n, NEW r \in Rec, Settle(id, n, r),
         r.state # "absent" => r.pos = rec[id].pos /\ r.key = rec[id].key
  PROVE  /\ rec' \in [Ids -> Rec] /\ UNCHANGED <<now, last, issued>>
         /\ r.state # "absent" => Keeps({})
         /\ r.state = "absent" => Keeps({id})
<1>1. /\ rec \in [Ids -> Rec] /\ rec[id].state = "leased" /\ rec' = [rec EXCEPT ![id] = r]
      /\ UNCHANGED <<now, last, issued>>
  BY DEF Settle, Types
<1>2. /\ rec' \in [Ids -> Rec] /\ rec'[id] = r
      /\ \A j \in Ids \ {id} : rec'[j] = rec[j]
  BY <1>1, SMTT(30)
<1> QED  BY <1>1, <1>2 DEF Keeps

(* The records the operations leave behind.                                  *)
LEMMA RecordsAre ==
  ASSUME Types, NEW id \in Ids
  PROVE  /\ Absent \in Rec
         /\ \A t \in Nat : Pending(rec[id], t) \in Rec
         /\ SetAside(rec[id]) \in Rec
         /\ \A t \in Nat, u \in Nat : Leased(rec[id], t, u) \in Rec
         /\ rec[id].next \in Nat
<1>1. rec[id] \in Rec
  BY DEF Types
<1> QED  BY <1>1, SMTT(30) DEF Rec, Absent, Pending, SetAside, Leased, In

(* Each holder's call: what it leaves, by Store.                             *)
LEMMA HolderKeeps ==
  ASSUME Types, NEW id \in Ids, NEW n
  PROVE  /\ Ack(id, n) => Keeps({id})
         /\ Release(id, n) \/ Park(id, n) \/ (\E delay \in Delays : Nack(id, n, delay)) => Keeps({})
         /\ \/ Ack(id, n) \/ Release(id, n) \/ Park(id, n)
            \/ \E delay \in Delays : Nack(id, n, delay)
            => rec' \in [Ids -> Rec] /\ UNCHANGED <<now, last, issued>>
<1>1. Ack(id, n) => Keeps({id}) /\ rec' \in [Ids -> Rec] /\ UNCHANGED <<now, last, issued>>
  <2>1. Absent \in Rec /\ Absent.state = "absent"
    BY RecordsAre DEF Absent
  <2> QED  BY <2>1, SettleKeeps DEF Ack
<1>2. ASSUME NEW t \in Nat, Settle(id, n, Pending(rec[id], t))
      PROVE  Keeps({}) /\ rec' \in [Ids -> Rec] /\ UNCHANGED <<now, last, issued>>
  <2>. DEFINE r == Pending(rec[id], t)
  <2>1. r \in Rec /\ r.state # "absent" /\ r.pos = rec[id].pos /\ r.key = rec[id].key
    BY RecordsAre DEF Pending, In
  <2> QED  BY <1>2, <2>1, SettleKeeps
<1>3. Release(id, n) => Keeps({}) /\ rec' \in [Ids -> Rec] /\ UNCHANGED <<now, last, issued>>
  BY <1>2, RecordsAre DEF Release
<1>4. ASSUME NEW delay \in Delays, Nack(id, n, delay)
      PROVE  Keeps({}) /\ rec' \in [Ids -> Rec] /\ UNCHANGED <<now, last, issued>>
  <2>1. now + delay \in Nat
    BY StoreAssumption, SMTT(30) DEF Types
  <2> QED  BY <1>2, <1>4, <2>1 DEF Nack
<1>5. Park(id, n) => Keeps({}) /\ rec' \in [Ids -> Rec] /\ UNCHANGED <<now, last, issued>>
  <2>1. /\ SetAside(rec[id]) \in Rec /\ SetAside(rec[id]).state # "absent"
        /\ SetAside(rec[id]).pos = rec[id].pos /\ SetAside(rec[id]).key = rec[id].key
    BY RecordsAre DEF SetAside, In
  <2> QED  BY <2>1, SettleKeeps DEF Park
<1> QED  BY <1>1, <1>3, <1>4, <1>5

(* A record that is leased has nothing before it.                            *)
LEMMA LeaseSealedOrder ==
  ASSUME OrderInv, NEW id \in Ids, LeaseSealed(id)
  PROVE  OrderInv'
<1>. DEFINE t == issued[id] + 1
<1>1. /\ Types /\ Keyed /\ Queued /\ Handed /\ issued \in [Ids -> Nat] /\ rec \in [Ids -> Rec]
      /\ now \in Nat
  BY DEF OrderInv, Types
<1>2. PICK ttl \in TTLs : Lease({id}, {}, ttl)
  BY DEF LeaseSealed
<1>3. /\ job' = [pc |-> "open", id |-> id, token |-> t]
      /\ UNCHANGED <<now, last, config, source, finished, discarded>>
  BY <1>2 DEF LeaseSealed, Lease
<1>4. ttl \in Nat /\ t \in Nat /\ now + ttl \in Nat
  BY <1>1, StoreAssumption, SMTT(30)
<1>5. /\ rec'[id] = Leased(rec[id], t, now + ttl) /\ DOMAIN rec' = Ids
      /\ \A j \in Ids \ {id} : rec'[j] = rec[j]
      /\ rec' = [j \in Ids |-> rec'[j]]
  BY <1>2 DEF Lease
<1>6. issued' \in [Ids -> Nat]
  <2>1. issued' = [j \in Ids |-> IF j \in {id} THEN issued[j] + 1 ELSE issued[j]]
    BY <1>2 DEF Lease
  <2> QED  BY <1>1, <2>1, SMTT(30)
<1>7. rec[id].state # "absent" /\ IsHead(id)
  BY <1>2 DEF Lease, MayLease
<1>8. Leased(rec[id], t, now + ttl) \in Rec
  BY <1>1, <1>4, RecordsAre
<1>9. Types'
  <2>1. rec' \in [Ids -> Rec]
    BY <1>1, <1>5, <1>8
  <2>2. job' \in Job
    BY <1>3, <1>4, SMTT(30) DEF Job
  <2> QED  BY <1>1, <1>3, <1>6, <2>1, <2>2 DEF Types
<1>10. Keeps({})
  BY <1>5, <1>7, SMTT(30) DEF Keeps, Leased, In
<1>11. Done' = Done
  BY <1>3 DEF Done
<1>12. Handed'
  <2>1. ASSUME NEW p \in Sources, NEW i \in DOMAIN Partitions[p], Partitions[p][i] = id,
               NEW j \in DOMAIN Partitions[p], j < i
        PROVE  Partitions[p][j] \in Done
    <3>. DEFINE e == Partitions[p][j]
    <3>1. id \in Stored
      BY <1>7 DEF Stored
    <3>2. e \in Done \/ (e \in Stored /\ rec[e].pos < rec[id].pos)
      BY <1>1, <2>1, <3>1 DEF Queued
    <3>3. ASSUME e \in Stored PROVE rec[id].pos <= rec[e].pos
      <4>1. e \in Waiting(p) /\ id \in Waiting(p)
        BY <2>1, <3>1, <3>3, PartitionsAre DEF Waiting
      <4>2. rec[e].key = rec[id].key /\ rec[id].key \in Range(Candidates(p))
        BY <1>1, <4>1 DEF Keyed
      <4>3. rec[id].key \in Keys
        BY <1>1, <4>2, CandidatesAre DEF Range, Types
      <4> QED  BY <1>7, <3>3, <4>2, <4>3 DEF IsHead
    <3>4. e \in Stored => rec[e].pos \in Int /\ rec[id].pos \in Int
      BY <1>1, SMTT(30) DEF Stored, Rec
    <3> QED  BY <3>2, <3>3, <3>4, SMTT(30)
  <2>2. job'.id = id /\ finished' = finished
    BY <1>3
  <2>3. ASSUME NEW p \in Sources, NEW i \in DOMAIN Partitions[p], Partitions[p][i] = id
        PROVE  Earlier(p, i)
    BY <2>1, <2>3 DEF Earlier
  <2>4. \A p \in Sources : \A i \in DOMAIN Partitions[p] : Earlier(p, i)' <=> Earlier(p, i)
    BY <1>11 DEF Earlier
  <2> QED  BY <1>1, <2>2, <2>3, <2>4 DEF Handed
<1> QED  BY <1>3, <1>9, <1>10, <1>11, <1>12, StoreStep

(* A worker that is at work has a record.                                    *)
LEMMA AtWork ==
  ASSUME Types, job.pc # "idle"
  PROVE  job \in Job /\ job # NoJob /\ job.id \in Ids /\ job.token \in Nat
<1>1. job # NoJob
  BY SMTT(30) DEF NoJob
<1>2. job \in Job
  BY <1>1 DEF Types
<1> QED  BY <1>1, <1>2, SMTT(30) DEF Job

(* Opening a leased record keeps OrderInv.                                   *)
LEMMA OpenRecordOrder ==
  ASSUME OrderInv, OpenRecord
  PROVE  OrderInv'
<1>1. /\ Types /\ Handed /\ job.pc # "idle"
      /\ UNCHANGED <<config, source, finished, discarded>> /\ Done' = Done
  BY DEF OrderInv, OpenRecord, Done
<1>2. job \in Job /\ job # NoJob /\ job.id \in Ids
  BY <1>1, AtWork
<1>3. CASE job' = [job EXCEPT !.pc = "handle"] /\ UNCHANGED storeVars
  <2>1. job' \in Job /\ job'.id = job.id
    BY <1>2, <1>3, SMTT(30) DEF Job
  <2>2. Types' /\ Keeps({}) /\ last' = last
    BY <1>1, <1>3, <2>1, KeepsAll DEF storeVars, Types
  <2>3. Handed'
    BY <1>1, <1>2, <2>1, HandedStays
  <2> QED  BY <1>1, <2>2, <2>3, StoreStep
<1>4. CASE job' = NoJob /\ Park(job.id, job.token)
  <2>1. Keeps({}) /\ rec' \in [Ids -> Rec] /\ UNCHANGED <<now, last, issued>>
    BY <1>1, <1>2, <1>4, HolderKeeps
  <2>2. Types'
    BY <1>1, <1>4, <2>1 DEF Types
  <2>3. Handed'
    BY <1>1, <1>4, HandedStays
  <2> QED  BY <1>1, <2>1, <2>2, <2>3, StoreStep
<1> QED  BY <1>3, <1>4 DEF OpenRecord

(* The end of the redriver's handler keeps OrderInv.                         *)
LEMMA FinishOrder ==
  ASSUME OrderInv, Finish
  PROVE  OrderInv'
<1>1. /\ Types /\ Handed /\ job.pc # "idle" /\ job' = NoJob
      /\ UNCHANGED <<config, source, discarded>>
  BY DEF OrderInv, Finish
<1>2. job \in Job /\ job # NoJob /\ job.id \in Ids
  BY <1>1, AtWork
<1>3. rec' \in [Ids -> Rec] /\ UNCHANGED <<now, last, issued>>
  BY <1>1, <1>2, HolderKeeps DEF Finish
<1>4. Types'
  BY <1>1, <1>3 DEF Types
<1>5. CASE Ack(job.id, job.token) /\ finished' = finished \cup {job.id}
  <2>1. Keeps({job.id})
    BY <1>1, <1>2, <1>5, HolderKeeps
  <2>2. Done' = Done \cup {job.id}
    BY <1>1, <1>5 DEF Done
  <2>3. \A p \in Sources : \A i \in DOMAIN Partitions[p] : Earlier(p, i) => Earlier(p, i)'
    BY <2>2 DEF Earlier
  <2>4. Handed'
    BY <1>1, <1>2, <1>5, <2>3 DEF Handed
  <2> QED  BY <1>1, <1>3, <1>4, <2>1, <2>2, <2>4, StoreStep
<1>6. CASE /\ Park(job.id, job.token) \/ \E delay \in Delays : Nack(job.id, job.token, delay)
           /\ UNCHANGED finished
  <2>1. Keeps({})
    BY <1>1, <1>2, <1>6, HolderKeeps
  <2>2. Done' = Done
    BY <1>1, <1>6 DEF Done
  <2>3. Handed'
    BY <1>1, <1>6, <2>2, HandedStays
  <2> QED  BY <1>1, <1>3, <1>4, <2>1, <2>2, <2>3, StoreStep
<1> QED  BY <1>5, <1>6 DEF Finish

(* An operator's requeue or discard keeps OrderInv.                         *)
LEMMA OperateOrder ==
  ASSUME OrderInv, NEW id \in Ids, Operate(id)
  PROVE  OrderInv'
<1>1. Types /\ Handed /\ UNCHANGED <<config, source, job, finished>> /\ rec \in [Ids -> Rec]
  BY DEF OrderInv, Operate, Types
<1>2. UNCHANGED <<now, last, issued>>
  BY DEF Operate, Requeue, Discard
<1>3. ASSUME NEW r \in Rec, rec' = [rec EXCEPT ![id] = r]
      PROVE  /\ Types' /\ rec'[id] = r /\ \A j \in Ids \ {id} : rec'[j] = rec[j]
  <2>1. rec' \in [Ids -> Rec] /\ rec'[id] = r /\ \A j \in Ids \ {id} : rec'[j] = rec[j]
    BY <1>1, <1>3, SMTT(30)
  <2> QED  BY <1>1, <1>2, <2>1 DEF Types
<1>4. CASE Requeue(id) /\ UNCHANGED discarded
  <2>. DEFINE r == Pending(rec[id], 0)
  <2>1. 0 \in Nat
    BY SMTT(30)
  <2>2. r \in Rec /\ r.state # "absent" /\ r.pos = rec[id].pos /\ r.key = rec[id].key
    BY <1>1, <2>1, RecordsAre DEF Pending, In
  <2>3. rec' = [rec EXCEPT ![id] = r] /\ rec[id].state # "absent"
    BY <1>4 DEF Requeue
  <2>. HIDE DEF r
  <2>4. Types' /\ Keeps({})
    BY <1>3, <2>2, <2>3 DEF Keeps
  <2>5. Done' = Done
    BY <1>1, <1>4 DEF Done
  <2>6. Handed'
    BY <1>1, <2>5 DEF Handed, Earlier
  <2> QED  BY <1>1, <1>2, <2>4, <2>5, <2>6, StoreStep
<1>5. CASE Discard(id) /\ discarded' = discarded \cup {id}
  <2>1. Absent \in Rec /\ Absent.state = "absent"
    BY <1>1, RecordsAre DEF Absent
  <2>2. rec' = [rec EXCEPT ![id] = Absent]
    BY <1>5 DEF Discard
  <2>3. Types' /\ Keeps({id})
    BY <1>3, <2>1, <2>2 DEF Keeps
  <2>4. Done' = Done \cup {id}
    BY <1>1, <1>5 DEF Done
  <2>5. Handed'
    BY <1>1, <2>4 DEF Handed, Earlier
  <2> QED  BY <1>1, <1>2, <2>3, <2>4, <2>5, StoreStep
<1> QED  BY <1>4, <1>5 DEF Operate

-----------------------------------------------------------------------------
(* The consumer.                                                             *)

(* A step of the consumer that only finds something out.                     *)
LEMMA SourceStep ==
  ASSUME OrderInv, NEW p \in Sources, NEW s \in Source, source' = [source EXCEPT ![p] = s],
         s.next = source[p].next, Asked(p, s),
         UNCHANGED <<storeVars, config, job, finished, discarded>>
  PROVE  OrderInv'
<1>1. /\ Types /\ source \in [Sources -> Source] /\ UNCHANGED <<now, rec, last, issued>>
      /\ Done' = Done /\ Keeps({})
  BY KeepsAll DEF OrderInv, Types, storeVars, Done
<1>2. /\ source' \in [Sources -> Source] /\ source'[p] = s
      /\ \A q \in Sources \ {p} : source'[q] = source[q]
  BY <1>1, SMTT(30)
<1>3. Types'
  BY <1>1, <1>2 DEF Types
<1>4. Queued' /\ Keyed'
  BY <1>1, KeepsQueued, KeepsKeyed DEF OrderInv
<1>5. Handed'
  BY <1>1 DEF OrderInv, Handed, Earlier
<1>6. Stored' = Stored
  BY <1>1 DEF Stored
<1>7. Reached'
  <2>1. \A q \in Sources : source'[q].next = source[q].next
    BY <1>2
  <2> QED  BY <1>1, <1>6, <2>1 DEF OrderInv, Reached
<1>8. \A q \in Sources : Waiting(q)' = Waiting(q) /\ Candidates(q)' = Candidates(q)
  BY <1>6 DEF Waiting, Candidates
<1>9. ASSUME NEW q \in Sources PROVE Asked(q, source[q])'
  <2>1. CASE q = p
    BY <1>1, <1>2, <1>8, <2>1, SMTT(30) DEF Asked
  <2>2. CASE q # p
    BY <1>1, <1>2, <2>2, KeepsAsked DEF OrderInv
  <2> QED  BY <2>1, <2>2
<1> QED  BY <1>3, <1>4, <1>5, <1>7, <1>9 DEF OrderInv

(* The fields of At.                                                         *)
LEMMA AtIs ==
  ASSUME NEW pc \in {"idle", "ask", "handle", "seal", "append", "hung"}, NEW n \in Nat \ {0},
         NEW i \in Nat \ {0}, NEW f \in Keys \cup {NoKey}
  PROVE  /\ At(pc, n, i, f) \in Source /\ At(pc, n, i, f).pc = pc /\ At(pc, n, i, f).next = n
         /\ At(pc, n, i, f).try = i /\ At(pc, n, i, f).form = f
BY SMTT(30) DEF At, Source

(* The fields of AtRest.                                                     *)
LEMMA AtRestIs ==
  ASSUME NEW n \in Nat \ {0}
  PROVE  AtRest(n) \in Source /\ AtRest(n).pc = "idle" /\ AtRest(n).next = n
<1>1. 1 \in Nat \ {0}
  BY SMTT(30)
<1> QED  BY <1>1, AtIs, SMTT(30) DEF AtRest

(* The consumer goes on with its message, knowing what is true.              *)
LEMMA GotoOrder ==
  ASSUME OrderInv, NEW p \in Sources, NEW pc \in {"ask", "handle", "seal", "append", "hung"},
         NEW i \in Nat \ {0}, NEW f \in Keys \cup {NoKey}, Goto(p, pc, i, f),
         Asked(p, At(pc, source[p].next, i, f)),
         UNCHANGED <<storeVars, config, job, finished, discarded>>
  PROVE  OrderInv'
<1>. DEFINE s == At(pc, source[p].next, i, f)
<1>1. source[p].next \in Nat \ {0}
  BY DEF OrderInv, Types, Source
<1>2. pc \in {"idle", "ask", "handle", "seal", "append", "hung"}
  OBVIOUS
<1>3. s \in Source /\ s.next = source[p].next
  <2>1. PICK n \in Nat \ {0} : n = source[p].next
    BY <1>1
  <2>2. At(pc, n, i, f) \in Source /\ At(pc, n, i, f).next = n
    BY <1>2, AtIs
  <2> QED  BY <2>1, <2>2
<1>4. source' = [source EXCEPT ![p] = s]
  BY DEF Goto
<1>. HIDE DEF s
<1> QED  BY <1>3, <1>4, SourceStep DEF s

(* The first candidate is to be asked for.                                   *)
LEMMA AskedFirst ==
  ASSUME Types, NEW p \in Sources, NEW pc \in {"ask", "seal"}, source[p].next \in DOMAIN Partitions[p]
  PROVE  Asked(p, At(pc, source[p].next, 1, NoKey))
<1>1. source[p].next \in Nat \ {0} /\ config \in DOMAIN Configs /\ 1 \in Nat \ {0}
  BY SMTT(30) DEF Types, Source
<1>2. DOMAIN Candidates(p) = 1..Len(Candidates(p)) /\ Len(Candidates(p)) \in Nat \ {0}
  BY <1>1, CandidatesAre
<1>3. 1 \in DOMAIN Candidates(p) /\ 1..(1 - 1) = {}
  BY <1>2, SMTT(30)
<1>. DEFINE s == At(pc, source[p].next, 1, NoKey)
<1>4. s.pc = pc /\ s.try = 1 /\ s.next = source[p].next
  BY DEF At
<1>. HIDE DEF s
<1>5. Asked(p, s)
  BY <1>3, <1>4 DEF Asked
<1> QED  BY <1>5 DEF s

(* A fetch of the next message keeps OrderInv.                               *)
LEMMA FetchOrder ==
  ASSUME OrderInv, NEW p \in Sources, Fetch(p)
  PROVE  OrderInv'
<1>1. Types /\ source[p] \in Source
  BY DEF OrderInv, Types
<1>2. source[p].next \in DOMAIN Partitions[p]
  <2>1. source[p].next <= Len(Partitions[p]) /\ source[p].next \in Nat \ {0}
    BY <1>1, SMTT(30) DEF Fetch, Source
  <2> QED  BY <2>1, PartitionsAre, SMTT(30)
<1>3. 1 \in Nat \ {0}
  BY SMTT(30)
<1> QED  BY <1>1, <1>2, <1>3, AskedFirst, GotoOrder DEF Fetch

(* A candidate that is not held is ruled out.                                *)
LEMMA RuledOut ==
  ASSUME OrderInv, NEW p \in Sources, source[p].pc \in {"ask", "seal"},
         ~HasOrderKey(Candidates(p)[source[p].try])
  PROVE  /\ source[p].try \in DOMAIN Candidates(p) /\ source[p].next \in DOMAIN Partitions[p]
         /\ \A k \in 1..source[p].try : \A id \in Waiting(p) : rec[id].key # Candidates(p)[k]
<1>. DEFINE i == source[p].try
<1>1. /\ Types /\ Keyed /\ i \in DOMAIN Candidates(p) /\ source[p].next \in DOMAIN Partitions[p]
      /\ \A k \in 1..(i - 1) : \A id \in Waiting(p) : rec[id].key # Candidates(p)[k]
  BY DEF OrderInv, Asked
<1>2. \A id \in Waiting(p) : rec[id].key # Candidates(p)[i]
  BY <1>1, Found
<1>3. i \in Nat \ {0}
  BY <1>1, SMTT(30) DEF Types, Source
<1>4. \A k \in 1..i : k = i \/ k \in 1..(i - 1)
  BY <1>3, SMTT(30)
<1> QED  BY <1>1, <1>2, <1>4

(* After the last candidate nothing is held.                                 *)
LEMMA AllRuledOut ==
  ASSUME OrderInv, NEW p \in Sources, source[p].pc \in {"ask", "seal"},
         ~HasOrderKey(Candidates(p)[source[p].try]), ~(source[p].try < Len(Candidates(p)))
  PROVE  Waiting(p) = {}
<1>. DEFINE i == source[p].try
<1>1. /\ i \in DOMAIN Candidates(p) /\ config \in DOMAIN Configs
      /\ \A k \in 1..i : \A id \in Waiting(p) : rec[id].key # Candidates(p)[k]
  BY RuledOut DEF OrderInv, Types
<1>2. DOMAIN Candidates(p) = 1..i
  BY <1>1, CandidatesAre, SMTT(30)
<1>3. \A id \in Waiting(p) : \E k \in DOMAIN Candidates(p) : rec[id].key = Candidates(p)[k]
  BY DEF OrderInv, Keyed, Range
<1> QED  BY <1>1, <1>2, <1>3

(* The next candidate is to be asked for.                                    *)
LEMMA AskedNext ==
  ASSUME OrderInv, NEW p \in Sources, NEW pc \in {"ask", "seal"}, source[p].pc = pc,
         ~HasOrderKey(Candidates(p)[source[p].try]), source[p].try < Len(Candidates(p))
  PROVE  /\ source[p].try + 1 \in Nat \ {0}
         /\ Asked(p, At(pc, source[p].next, source[p].try + 1, NoKey))
<1>. DEFINE i == source[p].try
            s == At(pc, source[p].next, i + 1, NoKey)
<1>1. source[p] \in Source /\ config \in DOMAIN Configs
  BY DEF OrderInv, Types
<1>2. i \in Nat \ {0} /\ i + 1 \in Nat \ {0} /\ (i + 1) - 1 = i
  BY <1>1, SMTT(30) DEF Source
<1>3. s.pc = pc /\ s.try = i + 1 /\ s.next = source[p].next
  BY DEF At
<1>4. i + 1 \in DOMAIN Candidates(p)
  BY <1>1, <1>2, CandidatesAre, SMTT(30)
<1>5. /\ source[p].next \in DOMAIN Partitions[p]
      /\ \A k \in 1..i : \A id \in Waiting(p) : rec[id].key # Candidates(p)[k]
  BY RuledOut
<1>. HIDE DEF s
<1>6. Asked(p, s)
  BY <1>2, <1>3, <1>4, <1>5 DEF Asked
<1> QED  BY <1>2, <1>6 DEF s

(* HasOrderKey, one form of the key at a time, keeps OrderInv.               *)
LEMMA AskOrder ==
  ASSUME OrderInv, NEW p \in Sources, Ask(p)
  PROVE  OrderInv'
<1>. DEFINE i == source[p].try
<1>1. /\ Types /\ source[p] \in Source /\ source[p].pc = "ask" /\ source[p].next \in DOMAIN Partitions[p]
      /\ UNCHANGED <<storeVars, config, job, finished, discarded>>
  BY DEF OrderInv, Types, Asked, Ask
<1>2. CASE HasOrderKey(Candidates(p)[i])
  <2>1. Goto(p, "seal", 1, NoKey) /\ 1 \in Nat \ {0}
    BY <1>2, SMTT(30) DEF Ask
  <2> QED  BY <1>1, <2>1, AskedFirst, GotoOrder
<1>3. CASE ~HasOrderKey(Candidates(p)[i]) /\ i < Len(Candidates(p))
  BY <1>1, <1>3, AskedNext, GotoOrder DEF Ask
<1>4. CASE ~HasOrderKey(Candidates(p)[i]) /\ ~(i < Len(Candidates(p)))
  <2>. DEFINE s == At("handle", source[p].next, i, NoKey)
  <2>1. s.pc = "handle" /\ s.next = source[p].next
    BY DEF At
  <2>2. Waiting(p) = {} /\ i \in Nat \ {0}
    BY <1>1, <1>4, AllRuledOut DEF Source
  <2>. HIDE DEF s
  <2>3. Asked(p, s)
    BY <1>1, <2>1, <2>2 DEF Asked
  <2>4. Goto(p, "handle", i, NoKey)
    BY <1>4 DEF Ask
  <2> QED  BY <1>1, <2>2, <2>3, <2>4, GotoOrder DEF s
<1> QED  BY <1>2, <1>3, <1>4

(* The consumer goes on to the next message.                                 *)
LEMMA Advances ==
  ASSUME OrderInv, NEW p \in Sources, source' = [source EXCEPT ![p] = AtRest(source[p].next + 1)],
         source[p].pc # "idle", UNCHANGED <<config, job>>,
         now' \in Nat, last' \in Nat, rec' \in [Ids -> Rec], issued' \in [Ids -> Nat],
         Keyed', Queued', Handed', Done \subseteq Done', Stored \subseteq Stored',
         Message(p) \in Done' \cup Stored',
         \A q \in Sources \ {p} : \A id \in Waiting(q)' : id \in Waiting(q) /\ rec'[id].key = rec[id].key
  PROVE  OrderInv'
<1>. DEFINE n == source[p].next
<1>1. Types /\ source \in [Sources -> Source] /\ n \in Nat \ {0}
  BY SMTT(30) DEF OrderInv, Types, Source
<1>2. AtRest(n + 1) \in Source /\ AtRest(n + 1).pc = "idle" /\ AtRest(n + 1).next = n + 1
  <2>1. n + 1 \in Nat \ {0}
    BY <1>1, SMTT(30)
  <2> QED  BY <2>1, AtRestIs
<1>3. /\ source' \in [Sources -> Source] /\ source'[p] = AtRest(n + 1)
      /\ \A q \in Sources \ {p} : source'[q] = source[q]
  BY <1>1, <1>2, SMTT(30)
<1>4. Types'
  BY <1>1, <1>3 DEF Types
<1>5. Reached'
  <2>. SUFFICES ASSUME NEW q \in Sources, NEW i \in DOMAIN Partitions[q], i < source'[q].next
                PROVE  Partitions[q][i] \in Done' \cup Stored'
    BY DEF Reached
  <2>1. CASE q = p /\ i = n
    BY <2>1 DEF Message
  <2>2. CASE ~(q = p /\ i = n)
    <3>1. i < source[q].next
      <4>1. CASE q = p
        <5>1. i \in Int
          BY PartitionsAre, SMTT(30)
        <5>2. i < n + 1 /\ i # n /\ source[q].next = n
          BY <1>2, <1>3, <2>2, <4>1
        <5>. HIDE DEF n
        <5> QED  BY <1>1, <5>1, <5>2, SMTT(30)
      <4>2. CASE q # p
        BY <1>3, <4>2
      <4> QED  BY <4>1, <4>2
    <3>2. Partitions[q][i] \in Done \cup Stored
      BY <3>1 DEF OrderInv, Reached
    <3> QED  BY <3>2
  <2> QED  BY <2>1, <2>2
<1>6. ASSUME NEW q \in Sources PROVE Asked(q, source[q])'
  <2>1. CASE q = p
    BY <1>2, <1>3, <2>1 DEF Asked
  <2>2. CASE q # p
    BY <1>3, <2>2, AskedStays DEF OrderInv
  <2> QED  BY <2>1, <2>2
<1> QED  BY <1>4, <1>5, <1>6 DEF OrderInv

(* The consumer's handler keeps OrderInv.                                    *)
LEMMA HandleOrder ==
  ASSUME OrderInv, NEW p \in Sources, Handle(p)
  PROVE  OrderInv'
<1>1. /\ Types /\ source \in [Sources -> Source] /\ source[p] \in Source /\ source[p].pc = "handle"
      /\ source[p].next \in DOMAIN Partitions[p] /\ Waiting(p) = {}
      /\ UNCHANGED <<now, rec, last, issued, config, job, discarded>>
  BY DEF OrderInv, Types, Asked, Handle, storeVars
<1>2. CASE Goto(p, "seal", 1, NoKey) /\ UNCHANGED finished
  <2>1. 1 \in Nat \ {0} /\ UNCHANGED storeVars
    BY SMTT(30) DEF Handle
  <2> QED  BY <1>1, <1>2, <2>1, AskedFirst, GotoOrder
<1>3. CASE finished' = finished \cup {Message(p)} /\ source' = [source EXCEPT ![p] = AtRest(@.next + 1)]
  <2>. DEFINE n == source[p].next
  <2>1. source' = [source EXCEPT ![p] = AtRest(n + 1)]
    BY <1>1, <1>3
  <2>2. Done' = Done \cup {Message(p)} /\ Keeps({}) /\ Stored' = Stored
    BY <1>1, <1>3, KeepsAll DEF Done, Stored
  <2>3. Keyed' /\ Queued'
    BY <1>1, <2>2, KeepsKeyed, KeepsQueued DEF OrderInv
  <2>4. Earlier(p, n)
    <3>1. ASSUME NEW j \in DOMAIN Partitions[p], j < n PROVE Partitions[p][j] \in Done
      <4>1. Partitions[p][j] \in Done \cup Stored
        BY <3>1 DEF OrderInv, Reached
      <4>2. Partitions[p][j] \notin Stored
        BY <1>1, PartitionsAre DEF Waiting
      <4> QED  BY <4>1, <4>2
    <3> QED  BY <3>1 DEF Earlier
  <2>5. Handed'
    <3>1. \A q \in Sources : \A i \in DOMAIN Partitions[q] : Earlier(q, i) => Earlier(q, i)'
      BY <2>2 DEF Earlier
    <3>2. \A q \in Sources : \A i \in DOMAIN Partitions[q] : Partitions[q][i] = Message(p) => Earlier(q, i)
      BY <1>1, <2>4, OnePlace, SMTT(30) DEF Message
    <3> QED  BY <1>1, <1>3, <3>1, <3>2 DEF OrderInv, Handed
  <2>6. \A q \in Sources \ {p} : \A id \in Waiting(q)' : id \in Waiting(q) /\ rec'[id].key = rec[id].key
    BY <1>1, <2>2 DEF Waiting
  <2>7. now' \in Nat /\ last' \in Nat /\ rec' \in [Ids -> Rec] /\ issued' \in [Ids -> Nat]
    BY <1>1 DEF Types
  <2> QED  BY <1>1, <2>1, <2>2, <2>3, <2>5, <2>6, <2>7, Advances
<1> QED  BY <1>2, <1>3 DEF Handle

(* The choice of the stored form of the key keeps OrderInv.                  *)
LEMMA OrderKeyOrder ==
  ASSUME OrderInv, NEW p \in Sources, OrderKey(p)
  PROVE  OrderInv'
<1>. DEFINE i == source[p].try
            all == Candidates(p)
<1>1. /\ Types /\ Keyed /\ source \in [Sources -> Source] /\ source[p] \in Source /\ source[p].pc = "seal"
      /\ source[p].next \in DOMAIN Partitions[p] /\ i \in DOMAIN all /\ config \in DOMAIN Configs
      /\ UNCHANGED <<storeVars, config, job, finished, discarded>>
  BY DEF OrderInv, Types, Asked, OrderKey
<1>2. /\ Len(all) \in Nat \ {0} /\ DOMAIN all = 1..Len(all)
      /\ \A k \in DOMAIN all : all[k] \in Keys
  BY <1>1, CandidatesAre
<1>3. ASSUME NEW k \in DOMAIN all, Goto(p, "append", i, all[k]),
             \A id \in Waiting(p) : rec[id].key = all[k]
      PROVE  OrderInv'
  <2>. DEFINE s == At("append", source[p].next, i, all[k])
  <2>1. s.pc = "append" /\ s.next = source[p].next /\ s.form = all[k]
    BY DEF At
  <2>2. all[k] \in Range(all) /\ all[k] \in Keys /\ i \in Nat \ {0}
    BY <1>1, <1>2 DEF Range, Source
  <2>. HIDE DEF s
  <2>3. Asked(p, s)
    BY <1>1, <1>3, <2>1, <2>2 DEF Asked
  <2> QED  BY <1>1, <1>3, <2>2, <2>3, GotoOrder DEF s
<1>4. CASE Len(all) > 1 /\ HasOrderKey(all[i])
  <2>1. PICK id \in Waiting(p) : rec[id].key = all[i]
    BY <1>1, <1>4, Found
  <2>2. \A j \in Waiting(p) : rec[j].key = all[i]
    BY <1>1, <2>1 DEF Keyed
  <2> QED  BY <1>1, <1>3, <1>4, <2>2 DEF OrderKey
<1>5. CASE ~(Len(all) > 1 /\ HasOrderKey(all[i])) /\ i < Len(all)
  <2>1. ~HasOrderKey(all[i])
    BY <1>1, <1>2, <1>5, SMTT(30)
  <2>2. Goto(p, "seal", i + 1, NoKey)
    BY <1>5 DEF OrderKey
  <2> QED  BY <1>1, <1>5, <2>1, <2>2, AskedNext, GotoOrder
<1>6. CASE ~(Len(all) > 1 /\ HasOrderKey(all[i])) /\ ~(i < Len(all))
  <2>1. 1 \in DOMAIN all
    BY <1>2, SMTT(30)
  <2>2. \A id \in Waiting(p) : rec[id].key = all[1]
    <3>1. CASE Len(all) > 1
      BY <1>1, <1>6, <3>1, AllRuledOut
    <3>2. CASE ~(Len(all) > 1)
      <4>1. DOMAIN all = {1}
        BY <1>2, <3>2, SMTT(30)
      <4> QED  BY <1>1, <4>1, SMTT(30) DEF Keyed, Range
    <3> QED  BY <3>1, <3>2
  <2>3. Goto(p, "append", i, all[1])
    BY <1>6 DEF OrderKey
  <2> QED  BY <1>3, <2>1, <2>2, <2>3
<1> QED  BY <1>4, <1>5, <1>6

(* A message is saved behind everything that is stored.                      *)
LEMMA SaveNewOrder ==
  ASSUME OrderInv, NEW p \in Sources, source[p].pc = "append", NEW st \in Births,
         AppendRecord(Message(p), st, source[p].form),
         source' = [source EXCEPT ![p] = AtRest(source[p].next + 1)],
         UNCHANGED <<config, job, finished, discarded>>
  PROVE  OrderInv'
<1>. DEFINE n == source[p].next
            id == Message(p)
            new == [state |-> st, pos |-> last + 1, key |-> source[p].form,
                    token |-> 0, until |-> 0, next |-> 0]
<1>1. /\ Types /\ Keyed /\ Queued /\ Reached /\ Handed /\ rec \in [Ids -> Rec] /\ last \in Nat
      /\ source[p] \in Source /\ n \in DOMAIN Partitions[p]
      /\ source[p].form \in Range(Candidates(p)) /\ \A j \in Waiting(p) : rec[j].key = source[p].form
      /\ now \in Nat /\ issued \in [Ids -> Nat]
  BY DEF OrderInv, Types, Asked
<1>2. id \in Ids /\ id \in Range(Partitions[p]) /\ id = Partitions[p][n]
  BY <1>1, PartitionsAre DEF Message
<1>3. /\ rec[id].state = "absent" /\ rec' = [rec EXCEPT ![id] = new] /\ last' = last + 1
      /\ UNCHANGED <<now, issued>>
  BY DEF AppendRecord
<1>. HIDE DEF id
<1>4. new \in Rec /\ new.state # "absent" /\ new.pos = last + 1 /\ new.key = source[p].form
  <2>1. st \in {"pending", "parked"} /\ source[p].form \in Keys \cup {NoKey}
    BY <1>1, StoreAssumption, SMTT(30) DEF Source
  <2> QED  BY <1>1, <2>1, SMTT(30) DEF Rec
<1>. HIDE DEF new
<1>5. rec' \in [Ids -> Rec] /\ rec'[id] = new /\ \A j \in Ids \ {id} : rec'[j] = rec[j]
  BY <1>1, <1>2, <1>3, <1>4, SMTT(30)
<1>6. id \notin Stored /\ Stored' = Stored \cup {id} /\ \A j \in Stored : rec'[j] = rec[j]
  BY <1>2, <1>3, <1>4, <1>5 DEF Stored
<1>7. Done' = Done
  BY DEF Done
<1>8. \A q \in Sources \ {p} : Waiting(q)' = Waiting(q)
  BY <1>2, <1>6, OneSource DEF Waiting
<1>9. Waiting(p)' = Waiting(p) \cup {id}
  BY <1>2, <1>6 DEF Waiting
<1>10. \A q \in Sources : \A j \in Waiting(q) : rec'[j] = rec[j] /\ j # id
  BY <1>6 DEF Waiting
<1>11. Keyed'
  <2>1. ASSUME NEW j \in Stored'
        PROVE  rec'[j].pos <= last' /\ \E q \in Sources : j \in Range(Partitions[q])
    <3>1. CASE j = id
      BY <1>1, <1>2, <1>3, <1>4, <1>5, <3>1, SMTT(30)
    <3>2. CASE j \in Stored
      <4>1. /\ rec[j].pos <= last /\ rec'[j] = rec[j] /\ j \in Ids
            /\ \E q \in Sources : j \in Range(Partitions[q])
        BY <1>1, <1>6, <3>2 DEF Keyed, Stored
      <4>2. rec[j].pos \in Nat
        BY <1>1, <4>1 DEF Rec
      <4>3. rec'[j].pos <= last'
        BY <1>1, <1>3, <4>1, <4>2, SMTT(30)
      <4> QED  BY <4>1, <4>3
    <3> QED  BY <1>6, <3>1, <3>2
  <2>2. \A q \in Sources : Candidates(q)' = Candidates(q)
    BY DEF Candidates
  <2>3. \A q \in Sources : \A j \in Waiting(q)' : rec'[j].key \in Range(Candidates(q))
    BY <1>1, <1>4, <1>5, <1>8, <1>9, <1>10, SMTT(30) DEF Keyed
  <2>4. \A q \in Sources : \A a, b \in Waiting(q)' : rec'[a].key = rec'[b].key
    <3>1. \A j \in Waiting(p)' : rec'[j].key = source[p].form
      BY <1>1, <1>4, <1>5, <1>9, <1>10
    <3>2. ASSUME NEW q \in Sources \ {p}, NEW a \in Waiting(q)', NEW b \in Waiting(q)'
          PROVE  rec'[a].key = rec'[b].key
      <4>1. rec[a].key = rec[b].key /\ rec'[a] = rec[a] /\ rec'[b] = rec[b]
        BY <1>1, <1>8, <1>10, SMTT(30) DEF Keyed
      <4> QED  BY <4>1
    <3> QED  BY <3>1, <3>2
  <2> QED  BY <2>1, <2>2, <2>3, <2>4 DEF Keyed
<1>12. Queued'
  <2>. SUFFICES ASSUME NEW q \in Sources, NEW i \in DOMAIN Partitions[q], NEW j \in DOMAIN Partitions[q],
                       j < i, Partitions[q][i] \in Stored'
                PROVE  \/ Partitions[q][j] \in Done'
                       \/ /\ Partitions[q][j] \in Stored'
                          /\ rec'[Partitions[q][j]].pos < rec'[Partitions[q][i]].pos
    BY DEF Queued
  <2>. DEFINE m == Partitions[q][i]
              e == Partitions[q][j]
  <2>1. CASE m = id
    <3>1. q = p /\ i = n
      BY <1>1, <1>2, <2>1, OnePlace, SMTT(30)
    <3>2. e \in Done \cup Stored
      BY <1>1, <3>1 DEF Reached
    <3>3. CASE e \in Stored
      <4>1. rec[e].pos <= last /\ rec'[e] = rec[e] /\ rec[e].pos \in Nat
        <5>1. e \in Ids
          BY <3>3 DEF Stored
        <5> QED  BY <1>1, <1>6, <3>3, <5>1 DEF Keyed, Rec
      <4>2. rec'[e].pos < rec'[m].pos
        BY <1>1, <1>4, <1>5, <2>1, <4>1, SMTT(30)
      <4> QED  BY <1>6, <3>3, <4>2
    <3> QED  BY <1>7, <3>2, <3>3
  <2>2. CASE m # id
    <3>1. m \in Stored /\ rec'[m] = rec[m]
      BY <1>6, <2>2
    <3>2. e \in Done \/ (e \in Stored /\ rec[e].pos < rec[m].pos)
      BY <1>1, <3>1 DEF Queued
    <3>3. e \in Stored => e \in Stored' /\ rec'[e] = rec[e]
      BY <1>6
    <3> QED  BY <1>7, <3>1, <3>2, <3>3
  <2> QED  BY <2>1, <2>2
<1>13. Handed'
  BY <1>1, <1>7 DEF Handed, Earlier
<1>14. last' \in Nat /\ now' \in Nat /\ issued' \in [Ids -> Nat]
  BY <1>1, <1>3, SMTT(30)
<1>15. \A q \in Sources \ {p} : \A j \in Waiting(q)' : j \in Waiting(q) /\ rec'[j].key = rec[j].key
  BY <1>8, <1>10
<1>16. Message(p) \in Done' \cup Stored' /\ Stored \subseteq Stored' /\ Done \subseteq Done'
  BY <1>6, <1>7 DEF id
<1>17. source[p].pc # "idle" /\ UNCHANGED <<config, job>>
  OBVIOUS
<1> QED  BY <1>5, <1>11, <1>12, <1>13, <1>14, <1>15, <1>16, <1>17, Advances

(* The append to the store keeps OrderInv.                                   *)
LEMMA SaveOrder ==
  ASSUME OrderInv, NEW p \in Sources, Save(p)
  PROVE  OrderInv'
<1>1. /\ source[p].pc = "append" /\ source' = [source EXCEPT ![p] = AtRest(source[p].next + 1)]
      /\ UNCHANGED <<config, job, finished, discarded>>
  BY DEF Save
<1>2. CASE rec[Message(p)].state # "absent" /\ UNCHANGED storeVars
  <2>1. /\ Types /\ source[p].next \in DOMAIN Partitions[p] /\ UNCHANGED <<now, rec, last, issued>>
        /\ Done' = Done /\ Stored' = Stored
    BY <1>1, <1>2 DEF OrderInv, Asked, storeVars, Done, Stored
  <2>2. Message(p) \in Stored
    BY <1>2, <2>1, PartitionsAre DEF Message, Stored
  <2>3. Keyed' /\ Queued'
    BY <1>1, <2>1, KeepsAll, KeepsKeyed, KeepsQueued DEF OrderInv
  <2>4. Handed'
    BY <1>1, <2>1 DEF OrderInv, Handed, Earlier
  <2>5. \A q \in Sources \ {p} : \A id \in Waiting(q)' : id \in Waiting(q) /\ rec'[id].key = rec[id].key
    BY <2>1 DEF Waiting
  <2>6. now' \in Nat /\ last' \in Nat /\ rec' \in [Ids -> Rec] /\ issued' \in [Ids -> Nat]
    BY <2>1 DEF Types
  <2> QED  BY <1>1, <2>1, <2>2, <2>3, <2>4, <2>5, <2>6, Advances
<1>3. CASE \E st \in Births : AppendRecord(Message(p), st, source[p].form)
  BY <1>1, <1>3, SaveNewOrder
<1> QED  BY <1>2, <1>3 DEF Save

(* A message that cannot be stored keeps OrderInv.                           *)
LEMMA UnstorableOrder ==
  ASSUME OrderInv, NEW p \in Sources, Unstorable(p)
  PROVE  OrderInv'
<1>1. source[p].next \in DOMAIN Partitions[p] /\ source[p].pc = "append"
  BY DEF OrderInv, Asked, Unstorable
<1>. DEFINE s == At("hung", source[p].next, 1, NoKey)
<1>2. s.pc = "hung" /\ s.next = source[p].next
  BY DEF At
<1>. HIDE DEF s
<1>3. Asked(p, s)
  BY <1>1, <1>2 DEF Asked
<1>4. Goto(p, "hung", 1, NoKey) /\ 1 \in Nat \ {0}
  BY SMTT(30) DEF Unstorable
<1> QED  BY <1>3, <1>4, GotoOrder DEF Unstorable, s

-----------------------------------------------------------------------------
(* Starts, stops and crashes.                                                *)

(* The consumer is where it was, or a little before.                         *)
LEMMA Rests ==
  ASSUME OrderInv, Keeps({}), Types', Keyed', UNCHANGED <<finished, discarded>>,
         job' = NoJob \/ job' = job,
         \A p \in Sources : source'[p].pc = "idle" /\ source'[p].next <= source[p].next
  PROVE  OrderInv'
<1>1. Done' = Done
  BY DEF Done
<1>2. Queued' /\ Reached'
  BY <1>1, KeepsQueued, KeepsReached DEF OrderInv
<1>3. Handed'
  BY <1>1 DEF OrderInv, Handed, Earlier
<1>4. \A p \in Sources : Asked(p, source[p])'
  BY DEF Asked
<1> QED  BY <1>2, <1>3, <1>4 DEF OrderInv

(* A consumer's position is a positive number.                               *)
LEMMA SourceNext ==
  ASSUME Types
  PROVE  \A p \in Sources : source[p].next \in Nat \ {0}
BY DEF Types, Source

(* The consumer stops where it is.                                           *)
LEMMA SourcesRest ==
  ASSUME Types, source' = [p \in Sources |-> AtRest(source[p].next)]
  PROVE  /\ source' \in [Sources -> Source]
         /\ \A p \in Sources : source'[p].pc = "idle" /\ source'[p].next <= source[p].next
<1>1. \A p \in Sources : source'[p] = AtRest(source[p].next)
  OBVIOUS
<1>2. \A p \in Sources : source'[p] \in Source /\ source'[p].pc = "idle" /\ source'[p].next = source[p].next
  BY <1>1, SourceNext, AtRestIs
<1>3. \A p \in Sources : source[p].next <= source[p].next
  BY SourceNext, SMTT(30)
<1> QED  BY <1>2, <1>3

(* A start under another configuration keeps OrderInv.                       *)
LEMMA StartOrder ==
  ASSUME OrderInv, NEW c \in DOMAIN Configs, NEW p, Start(c, p)
  PROVE  OrderInv'
<1>1. /\ Types /\ Keyed /\ rec \in [Ids -> Rec] /\ config \in DOMAIN Configs
      /\ config' = c /\ job' = NoJob /\ UNCHANGED <<now, last, issued, finished, discarded>>
  BY DEF OrderInv, Types, Start, Reopen
<1>2. rec' = [id \in Ids |-> IF rec[id].state = "leased" THEN Pending(rec[id], rec[id].next) ELSE rec[id]]
  BY DEF Start, Reopen
<1>3. \A id \in Ids : rec'[id] \in Rec
  BY <1>1, <1>2, RecordsAre
<1>4. rec' \in [Ids -> Rec] /\ Keeps({})
  BY <1>2, <1>3 DEF Keeps, Pending, In
<1>5. PICK back \in {0, 1} :
        source' = [s \in Sources |->
          AtRest(IF s = p /\ source[s].next > back THEN source[s].next - back ELSE source[s].next)]
  BY DEF Start
<1>6. ASSUME NEW s \in Sources
      PROVE  source'[s] \in Source /\ source'[s].pc = "idle" /\ source'[s].next <= source[s].next
  <2>. DEFINE n == IF s = p /\ source[s].next > back THEN source[s].next - back ELSE source[s].next
  <2>1. source'[s] = AtRest(n)
    BY <1>5
  <2>2. source[s].next \in Nat \ {0}
    BY <1>1, SourceNext
  <2>3. n \in Nat \ {0} /\ n <= source[s].next
    BY <2>2, SMTT(30)
  <2>. HIDE DEF n
  <2> QED  BY <2>1, <2>3, AtRestIs
<1>7. Types'
  <2>1. source' \in [Sources -> Source]
    BY <1>5, <1>6
  <2> QED  BY <1>1, <1>4, <2>1 DEF Types
<1>8. Keyed'
  <2>1. \A id \in Stored' : rec'[id].pos <= last' /\ \E q \in Sources : id \in Range(Partitions[q])
    BY <1>1, <1>4, KeepsStored DEF Keyed
  <2>2. \A q \in Sources : \A id \in Waiting(q)' : id \in Waiting(q) /\ rec'[id].key = rec[id].key
    BY <1>4, KeepsStored DEF Waiting
  <2>3. ASSUME NEW q \in Sources, NEW id \in Waiting(q)'
        PROVE  rec'[id].key \in Range(Candidates(q)')
    <3>1. id \in Waiting(q) /\ rec'[id].key = rec[id].key /\ id \in Stored
      BY <2>2 DEF Waiting
    <3>2. PICK k \in DOMAIN Candidates(q) : rec[id].key = Candidates(q)[k]
      BY <1>1, <3>1 DEF Keyed, Range
    <3>3. rec[id].key = <<rec[id].key[1], q>>
      BY <1>1, <3>2, CandidatesAre
    <3>4. rec[id].key[1] \in Range(Configs[c].peppers)
      BY <3>1 DEF Start, Clear
    <3>5. PICK l \in DOMAIN Configs[c].peppers : rec[id].key[1] = Configs[c].peppers[l]
      BY <3>4 DEF Range
    <3>6. Candidates(q)' = [i \in DOMAIN Configs[c].peppers |-> <<Configs[c].peppers[i], q>>]
      BY <1>1 DEF Candidates
    <3>7. l \in DOMAIN Candidates(q)' /\ Candidates(q)'[l] = rec[id].key
      BY <3>3, <3>5, <3>6
    <3> QED  BY <3>1, <3>7 DEF Range
  <2>4. \A q \in Sources : \A a, b \in Waiting(q)' : rec'[a].key = rec'[b].key
    BY <1>1, <2>2, SMTT(30) DEF Keyed
  <2> QED  BY <2>1, <2>3, <2>4 DEF Keyed
<1> QED  BY <1>1, <1>4, <1>6, <1>7, <1>8, Rests

(* The stop of consumer or redriver keeps OrderInv.                          *)
LEMMA PartStopsOrder ==
  ASSUME OrderInv, NEW x, PartStops(x)
  PROVE  OrderInv'
<1>1. Types /\ Handed /\ UNCHANGED <<config, finished, discarded>> /\ Done' = Done
  BY DEF OrderInv, PartStops, Done
<1>2. CASE source' = [p \in Sources |-> AtRest(source[p].next)] /\ UNCHANGED <<storeVars, job>>
  <2>1. Keeps({}) /\ UNCHANGED <<now, rec, last, issued, job>>
    BY <1>2, KeepsAll DEF storeVars
  <2>2. Types'
    BY <1>1, <1>2, <2>1, SourcesRest DEF Types
  <2>3. Keyed'
    BY <1>1, <2>1, KeepsKeyed DEF OrderInv
  <2> QED  BY <1>1, <1>2, <2>1, <2>2, <2>3, SourcesRest, Rests
<1>3. CASE /\ job' = NoJob /\ UNCHANGED source
           /\ IF job.pc = "idle" THEN UNCHANGED storeVars ELSE Release(job.id, job.token)
  <2>1. Keeps({}) /\ rec' \in [Ids -> Rec] /\ UNCHANGED <<now, last, issued>>
    <3>1. CASE job.pc = "idle"
      BY <1>1, <1>3, <3>1, KeepsAll DEF storeVars, Types
    <3>2. CASE job.pc # "idle"
      BY <1>1, <1>3, <3>2, AtWork, HolderKeeps
    <3> QED  BY <3>1, <3>2
  <2>2. Types'
    BY <1>1, <1>3, <2>1 DEF Types
  <2>3. Handed'
    BY <1>1, <1>3, HandedStays
  <2> QED  BY <1>1, <1>3, <2>1, <2>2, <2>3, StoreStep
<1> QED  BY <1>2, <1>3 DEF PartStops

(* A crash keeps OrderInv.                                                   *)
LEMMA CrashOrder ==
  ASSUME OrderInv, Crash
  PROVE  OrderInv'
<1>1. /\ Types /\ UNCHANGED <<now, rec, last, issued, config, finished, discarded>> /\ job' = NoJob
      /\ source' = [p \in Sources |-> AtRest(source[p].next)]
  BY DEF OrderInv, Crash, storeVars
<1>2. Types'
  BY <1>1, SourcesRest DEF Types
<1>3. Keyed' /\ Keeps({})
  BY <1>1, KeepsAll, KeepsKeyed DEF OrderInv
<1> QED  BY <1>1, <1>2, <1>3, SourcesRest, Rests

(* Resealing numbers the records anew, in the same order.                    *)
Rank(id) == Cardinality({j \in Stored : rec[j].pos <= rec[id].pos})

(* Ranks of stored records follow their order of arrival.                    *)
LEMMA Ranks ==
  ASSUME Types
  PROVE  /\ Cardinality(Stored) \in Nat
         /\ \A id \in Stored : Rank(id) \in Nat /\ Rank(id) <= Cardinality(Stored)
         /\ \A a, b \in Stored : rec[a].pos < rec[b].pos => Rank(a) < Rank(b)
<1>. DEFINE Upto(id) == {j \in Stored : rec[j].pos <= rec[id].pos}
<1>1. IsFiniteSet(Stored) /\ Cardinality(Stored) \in Nat
  <2>1. IsFiniteSet(Ids) /\ Stored \subseteq Ids
    BY PartitionsAssumption DEF Stored
  <2> QED  BY <2>1, FS_Subset, FS_CardinalityType
<1>2. ASSUME NEW id \in Stored
      PROVE  IsFiniteSet(Upto(id)) /\ Rank(id) = Cardinality(Upto(id)) /\ Rank(id) \in Nat
             /\ Rank(id) <= Cardinality(Stored)
  <2>1. Upto(id) \subseteq Stored /\ Rank(id) = Cardinality(Upto(id))
    BY DEF Rank
  <2>. HIDE DEF Upto
  <2> QED  BY <1>1, <2>1, FS_Subset, FS_CardinalityType, SMTT(30)
<1>3. ASSUME NEW a \in Stored, NEW b \in Stored, rec[a].pos < rec[b].pos
      PROVE  Rank(a) < Rank(b)
  <2>1. \A j \in Stored : rec[j].pos \in Nat
    BY DEF Types, Stored, Rec
  <2>2. Upto(a) \subseteq Upto(b) /\ b \in Upto(b) /\ b \notin Upto(a)
    BY <1>3, <2>1, SMTT(30)
  <2>3. /\ IsFiniteSet(Upto(b)) /\ Rank(a) = Cardinality(Upto(a)) /\ Rank(b) = Cardinality(Upto(b))
        /\ Rank(a) \in Nat /\ Rank(b) \in Nat
    BY <1>2
  <2>. HIDE DEF Upto
  <2>4. Cardinality(Upto(a)) <= Cardinality(Upto(b)) /\ Cardinality(Upto(a)) # Cardinality(Upto(b))
    <3>1. Upto(a) # Upto(b)
      BY <2>2
    <3> QED  BY <2>2, <2>3, <3>1, FS_Subset
  <2> QED  BY <2>3, <2>4, SMTT(30)
<1> QED  BY <1>1, <1>2, <1>3

(* Reseal keeps OrderInv.                                                    *)
LEMMA ResealOrder ==
  ASSUME OrderInv, NEW c, Reseal(c)
  PROVE  OrderInv'
<1>1. /\ Types /\ Keyed /\ Queued /\ Reached /\ Handed /\ rec \in [Ids -> Rec]
      /\ UNCHANGED <<now, issued, config, source, job, finished, discarded>>
      /\ last' = Cardinality(Stored) /\ Done' = Done
  BY DEF OrderInv, Types, Reseal, Done
<1>2. rec' = [id \in Ids |->
         IF id \notin Stored THEN rec[id]
         ELSE [In(IF rec[id].state = "leased" THEN "pending" ELSE rec[id].state,
                  rec[id], 0, 0, rec[id].next) EXCEPT !.pos = Rank(id)]]
  BY DEF Reseal, Rank
<1>3. \A id \in Ids \ Stored : rec'[id] = rec[id]
  BY <1>2
<1>4. ASSUME NEW id \in Stored
      PROVE  /\ rec'[id] \in Rec /\ rec'[id].pos = Rank(id) /\ rec'[id].key = rec[id].key
             /\ rec'[id].state # "absent"
  <2>1. id \in Ids /\ rec[id] \in Rec /\ rec[id].state # "absent"
    BY <1>1 DEF Stored
  <2>2. Rank(id) \in Nat
    BY <1>1, Ranks
  <2>3. PICK st \in {"pending", "parked"} : rec'[id] = [In(st, rec[id], 0, 0, rec[id].next) EXCEPT !.pos = Rank(id)]
    <3>1. (IF rec[id].state = "leased" THEN "pending" ELSE rec[id].state) \in {"pending", "parked"}
      BY <2>1, SMTT(30) DEF Rec
    <3> QED  BY <1>2, <2>1, <3>1
  <2>4. rec'[id] = [state |-> st, pos |-> Rank(id), key |-> rec[id].key, token |-> 0, until |-> 0,
                    next |-> rec[id].next]
    BY <2>3, SMTT(30) DEF In
  <2> QED  BY <2>1, <2>2, <2>4, SMTT(30) DEF Rec
<1>5. Stored' = Stored
  BY <1>3, <1>4 DEF Stored
<1>6. Types'
  <2>1. \A id \in Ids : rec'[id] \in Rec
    BY <1>1, <1>3, <1>4
  <2>2. rec' \in [Ids -> Rec]
    BY <1>2, <2>1
  <2> QED  BY <1>1, <2>2, Ranks DEF Types
<1>7. \A q \in Sources : Waiting(q)' = Waiting(q) /\ Candidates(q)' = Candidates(q)
  BY <1>1, <1>5 DEF Waiting, Candidates
<1>8. \A q \in Sources : \A id \in Waiting(q) : rec'[id].key = rec[id].key
  BY <1>4 DEF Waiting
<1>9. Keyed'
  <2>1. \A id \in Stored : rec'[id].pos <= last'
    BY <1>1, <1>4, Ranks
  <2> QED  BY <1>1, <1>5, <1>7, <1>8, <2>1 DEF Keyed
<1>10. Queued'
  <2>1. \A a, b \in Stored : rec[a].pos < rec[b].pos => rec'[a].pos < rec'[b].pos
    BY <1>1, <1>4, Ranks
  <2> QED  BY <1>1, <1>5, <2>1 DEF Queued
<1>11. Reached' /\ Handed'
  BY <1>1, <1>5 DEF Reached, Handed, Earlier
<1>12. ASSUME NEW q \in Sources PROVE Asked(q, source[q])'
  BY <1>1, <1>7, <1>8, AskedStays DEF OrderInv
<1> QED  BY <1>6, <1>9, <1>10, <1>11, <1>12 DEF OrderInv

-----------------------------------------------------------------------------
(* OrderInv holds at the start.                                              *)
LEMMA OrderStarts ==
  ASSUME Init
  PROVE  OrderInv
<1>1. /\ now = 1 /\ rec = [id \in Ids |-> Absent] /\ last = 0 /\ issued = [id \in Ids |-> 0]
      /\ config = 1 /\ source = [p \in Sources |-> AtRest(1)] /\ job = NoJob
      /\ finished = {} /\ discarded = {}
  BY DEF Init, SecureInit, StoreInit
<1>2. Absent \in Rec /\ Absent.state = "absent"
  BY SMTT(30) DEF Absent, Rec
<1>3. AtRest(1) \in Source /\ AtRest(1).pc = "idle" /\ AtRest(1).next = 1
  <2>1. 1 \in Nat \ {0}
    BY SMTT(30)
  <2> QED  BY <2>1, AtRestIs
<1>4. 1 \in DOMAIN Configs
  BY ConfigsAssumption, SMTT(30)
<1>5. Types
  <2>1. rec \in [Ids -> Rec] /\ source \in [Sources -> Source]
    BY <1>1, <1>2, <1>3
  <2>2. now \in Nat /\ last \in Nat /\ issued \in [Ids -> Nat]
    BY <1>1, SMTT(30)
  <2> QED  BY <1>1, <1>4, <2>1, <2>2 DEF Types
<1>6. Stored = {}
  BY <1>1, <1>2 DEF Stored
<1>7. Keyed /\ Queued
  BY <1>6 DEF Keyed, Queued, Waiting
<1>8. Reached
  <2>1. ASSUME NEW p \in Sources, NEW i \in DOMAIN Partitions[p] PROVE ~(i < source[p].next)
    <3>1. source[p].next = 1
      BY <1>1, <1>3
    <3> QED  BY <3>1, PartitionsAre, SMTT(30)
  <2> QED  BY <2>1 DEF Reached
<1>9. Handed
  BY <1>1 DEF Handed
<1>10. \A p \in Sources : Asked(p, source[p])
  BY <1>1, <1>3 DEF Asked
<1> QED  BY <1>5, <1>7, <1>8, <1>9, <1>10 DEF OrderInv

(* Nothing else touches messages or records.                                 *)
LEMMA OrderUnchanged ==
  ASSUME OrderInv, UNCHANGED <<storeVars, secureVars>>
  PROVE  OrderInv'
<1>1. UNCHANGED <<now, rec, last, issued, config, source, job, finished, discarded>> /\ Done' = Done
  BY DEF storeVars, secureVars, Done
<1>2. Types' /\ Keeps({})
  BY <1>1, KeepsAll DEF OrderInv, Types
<1>3. Handed'
  BY <1>1 DEF OrderInv, Handed, Earlier
<1> QED  BY <1>1, <1>2, <1>3, StoreStep

(* Every step keeps OrderInv.                                                *)
LEMMA OrderStep ==
  ASSUME OrderInv, Next
  PROVE  OrderInv'
<1>1. ASSUME NEW c \in DOMAIN Configs, NEW p \in Sources, NewService(c, p) PROVE OrderInv'
  BY <1>1, StartOrder DEF NewService
<1>2. CASE Build \/ Run \/ CancelRun \/ RunReturns \/ CloseBegins \/ CloseStep
  BY <1>2, OrderUnchanged DEF Build, Run, CancelRun, RunReturns, CloseBegins, CloseStep
<1>3. CASE Work
  BY <1>3, FetchOrder, AskOrder, HandleOrder, OrderKeyOrder, SaveOrder, UnstorableOrder,
     LeaseSealedOrder, OpenRecordOrder, FinishOrder, OperateOrder DEF Work, ConsumerStep, RedriverStep
<1>4. CASE Offline
  BY <1>4, ResealOrder DEF Offline
<1> QED  BY <1>1, <1>2, <1>3, <1>4, PartStopsOrder, CrashOrder DEF Next

(* Messages of a key are handled in order, across restarts, crashes and      *)
(* rotations of the pepper and of the encryption key, whether the consumer   *)
(* handles them or the redriver (HasOrderKey, orderKey, Append and Lease of  *)
(* dlq/secure.go).                                                           *)
THEOREM HandledInOrder == Spec => []InOrder
<1>1. Init => OrderInv
  BY OrderStarts
<1>2. OrderInv /\ [Next]_vars => OrderInv'
  BY OrderStep, OrderUnchanged DEF vars
<1>3. OrderInv => InOrder
  <2>. SUFFICES ASSUME OrderInv, NEW p \in Sources, NEW i \in DOMAIN Partitions[p],
                       NEW j \in DOMAIN Partitions[p], i > j,
                       \/ source[p].pc = "handle" /\ source[p].next = i
                       \/ job.pc = "handle" /\ job.id = Partitions[p][i]
                       \/ Partitions[p][i] \in finished
                PROVE  Partitions[p][j] \in Done
    BY DEF InOrder, Done
  <2>1. j < i
    BY PartitionsAre, SMTT(30)
  <2>2. CASE source[p].pc = "handle" /\ source[p].next = i
    <3>1. Waiting(p) = {} /\ Partitions[p][j] \in Done \cup Stored
      BY <2>1, <2>2 DEF OrderInv, Asked, Reached
    <3> QED  BY <3>1, PartitionsAre DEF Waiting
  <2>3. CASE (job.pc = "handle" /\ job.id = Partitions[p][i]) \/ Partitions[p][i] \in finished
    <3>1. job.pc = "handle" => job # NoJob
      BY SMTT(30) DEF NoJob
    <3>2. Earlier(p, i)
      BY <2>3, <3>1 DEF OrderInv, Handed
    <3> QED  BY <2>1, <3>2 DEF Earlier
  <2> QED  BY <2>2, <2>3
<1> QED  BY <1>1, <1>2, <1>3, PTL DEF Spec
=============================================================================
