------------------------------ MODULE Redriver ------------------------------
(***************************************************************************)
(* The redriver (dlq/redrive.go): one goroutine, dispatch, leases records  *)
(* whose dependency is usable and queues them; a pool of workers hands     *)
(* each to the handler and settles the result.  They share a channel, a    *)
(* counter, the set of records being handled and a wake-up flag.  The      *)
(* store is modelled by its contract (module Machine has the detail), the  *)
(* clock by the events it brings about: leases that lapse, delays and      *)
(* holds that pass.                                                        *)
(***************************************************************************)
EXTENDS Integers, Sequences, FiniteSets, FiniteSetsExt, Functions

CONSTANTS
    Ids,          \* records
    Deps,         \* dependencies: the breakers of RedriveConfig
    BlockedOn,    \* the dependency each record waits for at first
    Pools,        \* values of RedriveConfig.Workers to consider
    MaxAttempts,  \* RedriveConfig.MaxAttempts
    MaxFaults,    \* bound, for each pool: failures of handlers, of the store, lapsed
                  \* leases, outages
    CanStop       \* the context of Run may end

ASSUME RedriverAssumption ==
    /\ IsFiniteSet(Ids) /\ BlockedOn \in [Ids -> Deps]
    /\ Pools \subseteq Nat \ {0} /\ Pools # {}
    /\ MaxAttempts \in Nat \ {0} /\ MaxFaults \in [Pools -> Nat] /\ CanStop \in BOOLEAN

VARIABLES
    workers,   \* RedriveConfig.Workers
    rec,       \* the records in the store
    pc,        \* dispatch: "fill", "lease", "offer"; it waits at "full" (for a worker),
               \* "idle" (for work), "limited" (for the rate limit), "retry" (for the
               \* store); then "closing" and "stopped"
    grant,     \* fill: how many records to lease, and the dependencies to skip
    offered,   \* fill: the leases still to be queued
    queued,    \* fill: whether one of this round was queued
    work,      \* the channel of leases
    hand,      \* each worker's lease and where it is with it
    active,    \* Redriver.active
    inflight,  \* Redriver.inflight
    wake,      \* Redriver.wake holds a token
    refusing,  \* dependencies whose breaker refuses calls
    held,      \* Redriver.blockedUntil: dependencies held back for a moment
    cancelled, \* the context of Run has ended
    charged,   \* history: attempts that count against each record
    lost,      \* history: records whose lease was not given back: a settlement failed
    faults

shared == <<active, inflight, wake, held>>
dispatcher == <<pc, grant, offered, queued>>
outside == <<refusing, cancelled>>
vars == <<workers, rec, dispatcher, work, hand, shared, outside, charged, lost, faults>>

capacity == workers * 2
Idle == [at |-> "idle"]
NoGrant == [n |-> 0, skip |-> {}]

Init ==
    /\ workers \in Pools
    /\ rec = [i \in Ids |-> [st |-> "pending", token |-> 0, lapsed |-> FALSE, due |-> TRUE,
                             attempts |-> 0, dep |-> BlockedOn[i]]]
    /\ pc = "fill" /\ grant = NoGrant /\ offered = <<>> /\ queued = FALSE
    /\ work = <<>> /\ hand = [w \in 1..workers |-> Idle]
    /\ active = {} /\ inflight = 0 /\ wake = FALSE /\ held = {}
    /\ refusing = {} /\ cancelled = FALSE
    /\ charged = [i \in Ids |-> 0] /\ lost = {} /\ faults = 0

Fault == faults < MaxFaults[workers] /\ faults' = faults + 1

(***************************************************************************)
(* The store.                                                              *)
(***************************************************************************)
Eligible(i, skip) ==
    /\ rec[i].dep \notin skip
    /\ \/ rec[i].st = "pending" /\ rec[i].due
       \/ rec[i].st = "leased" /\ rec[i].lapsed

\* Leases of a record that somebody has, and a token different from theirs.
Outstanding(i) ==
    {l \in Range(work) \cup {hand[w].lease : w \in {v \in 1..workers : hand[v] # Idle}} : l.id = i}
NewToken(i) == Min(1..Cardinality(Outstanding(i)) + 1 \ {l.token : l \in Outstanding(i)})

Leased(i) ==
    [rec[i] EXCEPT !.st = "leased", !.token = NewToken(i), !.lapsed = FALSE, !.attempts = @ + 1]

\* A settlement with this lease goes through.
Holds(l) == rec[l.id].st = "leased" /\ rec[l.id].token = l.token

Unleased(i, st) == [rec[i] EXCEPT !.st = st, !.lapsed = FALSE, !.token = 0]

Released(i) == [Unleased(i, "pending") EXCEPT !.attempts = @ - 1]

Nacked(i, dep, refund) ==
    [Unleased(i, "pending") EXCEPT !.due = FALSE, !.dep = dep,
                                   !.attempts = IF refund THEN @ - 1 ELSE @]

(***************************************************************************)
(* dispatch and fill.                                                      *)
(***************************************************************************)

\* The dependencies not to lease for now.
unavailable == refusing \cup held

\* What the rate limit may allow of max records: any number, since its bucket fills
\* with time.
reserve(max) == 0..Min({max, Cardinality(Ids)})

Fill ==
    /\ pc = "fill"
    /\ \/ cancelled /\ pc' = "closing" /\ UNCHANGED grant
       \/ ~cancelled /\ inflight >= capacity /\ pc' = "full" /\ UNCHANGED grant
       \/ /\ ~cancelled /\ inflight < capacity
          /\ \E n \in reserve(capacity - inflight) :
               /\ grant' = [n |-> n, skip |-> unavailable]
               /\ pc' = IF n = 0 THEN "limited" ELSE "lease"
    /\ UNCHANGED <<workers, rec, offered, queued, work, hand, shared, outside, charged, lost, faults>>

\* Leases as the list the store returns.
listed(S) == CHOOSE f \in [1..Cardinality(S) -> S] : IsInjective(f)

Lease ==
    /\ pc = "lease"
    /\ LET due == {i \in Ids : Eligible(i, grant.skip)}
       IN \E S \in SUBSET due :
            /\ Cardinality(S) = Min({grant.n, Cardinality(due)})
            /\ rec' = [i \in Ids |-> IF i \in S THEN Leased(i) ELSE rec[i]]
            /\ offered' = listed({[id |-> i, token |-> rec'[i].token, attempts |-> rec'[i].attempts] : i \in S})
            /\ pc' = IF S = {} THEN "idle" ELSE "offer"
    /\ queued' = FALSE /\ grant' = NoGrant
    /\ UNCHANGED <<workers, work, hand, shared, outside, charged, lost, faults>>

\* The store fails for now, or for good.
LeaseFails ==
    /\ pc = "lease" /\ Fault
    /\ pc' \in {"retry", "closing"} /\ grant' = NoGrant
    /\ UNCHANGED <<workers, rec, offered, queued, work, hand, shared, outside, charged, lost>>

\* A mutant of Busy: nothing keeps a record from being handled twice.
BusyNever(i) == FALSE

\* A worker still has the record, under a lease that lapsed.
Busy(i) == i \in active

\* A record that is still being handled is handed back (the call may fail).
Offer ==
    LET l == Head(offered)
    IN /\ pc = "offer" /\ offered # <<>>
       /\ offered' = Tail(offered)
       /\ \/ /\ Busy(l.id) /\ Holds(l)
             /\ rec' = [rec EXCEPT ![l.id] = Released(l.id)]
             /\ UNCHANGED <<lost, faults, work, active, inflight, queued>>
          \/ /\ Busy(l.id) /\ Fault
             /\ lost' = lost \cup {l.id}
             /\ UNCHANGED <<rec, work, active, inflight, queued>>
          \/ /\ Busy(l.id) /\ ~Holds(l)
             /\ UNCHANGED <<rec, lost, faults, work, active, inflight, queued>>
          \/ /\ ~Busy(l.id)
             /\ active' = active \cup {l.id}
             /\ inflight' = inflight + 1
             /\ work' = Append(work, l)
             /\ queued' = TRUE
             /\ UNCHANGED <<rec, lost, faults>>
       /\ UNCHANGED <<workers, pc, grant, hand, wake, held, outside, charged>>

Offered ==
    /\ pc = "offer" /\ offered = <<>>
    /\ pc' = IF queued THEN "fill" ELSE "idle"
    /\ UNCHANGED <<workers, rec, grant, offered, queued, work, hand, shared, outside, charged, lost, faults>>

\* The end of a wait: the context, the wake-up channel, or time (PollInterval, the
\* rate limit, the retry delay).  "retry" does not listen to wake.
WaitEnds ==
    /\ pc \in {"full", "idle", "limited", "retry"}
    /\ \/ cancelled /\ pc' = "closing" /\ UNCHANGED wake
       \/ wake /\ pc # "retry" /\ wake' = FALSE /\ pc' = "fill"
       \/ pc' = "fill" /\ UNCHANGED wake
    /\ UNCHANGED <<workers, rec, grant, offered, queued, work, hand, active, inflight, held, outside, charged, lost, faults>>

(***************************************************************************)
(* Workers: process, settle and its helpers.                               *)
(***************************************************************************)
At(w, at) == hand' = [hand EXCEPT ![w].at = at]

\* A mutant of Start: what is still queued when Run stops is dropped.
StartOrDrop(l) ==
    IF cancelled THEN "delete" ELSE IF l.attempts > MaxAttempts THEN "park" ELSE "handle"

\* process: the record is handed back if Run is stopping, parked if it has been
\* leased too often, and otherwise given to the handler.
Start(l) ==
    IF cancelled THEN "release" ELSE IF l.attempts > MaxAttempts THEN "park" ELSE "handle"

\* A worker takes the next lease: the first idle one, since they are alike.
Take(w) ==
    LET l == Head(work)
    IN /\ work # <<>>
       /\ hand[w] = Idle /\ \A v \in 1..w - 1 : hand[v] # Idle
       /\ work' = Tail(work)
       /\ hand' = [hand EXCEPT ![w] = [lease |-> l, at |-> Start(l)]]
       /\ UNCHANGED <<workers, rec, dispatcher, shared, outside, charged, lost, faults>>

\* The handler returns, or panics ("failed"); settle decides.
Handle(w) ==
    LET i == hand[w].lease.id
        spent == hand[w].lease.attempts >= MaxAttempts
        counts == charged' = [charged EXCEPT ![i] = @ + 1]
    IN /\ hand[w].at = "handle"
       /\ \/ At(w, "ack") /\ UNCHANGED <<charged, faults>>
          \/ Fault /\ At(w, "park") /\ UNCHANGED charged
          \/ Fault /\ \E d \in Deps : hand' = [hand EXCEPT ![w] = [lease |-> @.lease, at |-> "refund", dep |-> d]]
                   /\ UNCHANGED charged
          \/ /\ Fault /\ counts
             /\ IF spent THEN At(w, "park")
                ELSE \E d \in Deps : hand' = [hand EXCEPT ![w] = [lease |-> @.lease, at |-> "block", dep |-> d]]
          \/ /\ cancelled /\ At(w, "release") /\ UNCHANGED <<charged, faults>>
          \/ /\ ~cancelled /\ Fault /\ counts
             /\ At(w, IF spent THEN "park" ELSE "nack")
       /\ UNCHANGED <<workers, rec, dispatcher, work, shared, outside, lost>>

Settlements == {"ack", "park", "refund", "block", "release", "nack"}

\* A mutant of Settled: an open circuit costs an attempt.
SettledCounting(w) ==
    LET i == hand[w].lease.id
    IN CASE hand[w].at = "ack" -> Unleased(i, "gone")
         [] hand[w].at = "park" -> Unleased(i, "parked")
         [] hand[w].at \in {"refund", "block"} -> Nacked(i, hand[w].dep, FALSE)
         [] hand[w].at = "nack" -> Nacked(i, rec[i].dep, FALSE)
         [] hand[w].at = "release" -> Released(i)

\* What the store makes of the record.
Settled(w) ==
    LET i == hand[w].lease.id
    IN CASE hand[w].at = "ack" -> Unleased(i, "gone")
         [] hand[w].at = "park" -> Unleased(i, "parked")
         [] hand[w].at = "refund" -> Nacked(i, hand[w].dep, TRUE)
         [] hand[w].at = "block" -> Nacked(i, hand[w].dep, FALSE)
         [] hand[w].at = "nack" -> Nacked(i, rec[i].dep, FALSE)
         [] hand[w].at = "release" -> Released(i)

settle(w) ==
    LET l == hand[w].lease
    IN /\ hand[w].at \in Settlements
       /\ \/ /\ Holds(l)
             /\ rec' = [rec EXCEPT ![l.id] = Settled(w)]
             /\ At(w, IF hand[w].at \in {"refund", "block"} THEN "hold" ELSE "delete")
             /\ UNCHANGED <<lost, faults>>
          \/ ~Holds(l) /\ At(w, "delete") /\ UNCHANGED <<rec, lost, faults>>
          \/ Fault /\ lost' = lost \cup {l.id} /\ At(w, "delete") /\ UNCHANGED rec
       /\ UNCHANGED <<workers, dispatcher, work, shared, outside, charged>>

holdDependency(w) ==
    /\ hand[w].at = "hold"
    /\ held' = held \cup {hand[w].dep}
    /\ At(w, "delete")
    /\ UNCHANGED <<workers, rec, dispatcher, work, active, inflight, wake, outside, charged, lost, faults>>

\* What process does last: the record is free, the worker is, dispatch is woken.
Delete(w) ==
    /\ hand[w].at = "delete" /\ At(w, "count")
    /\ active' = active \ {hand[w].lease.id}
    /\ UNCHANGED <<workers, rec, dispatcher, work, inflight, wake, held, outside, charged, lost, faults>>

Count(w) ==
    /\ hand[w].at = "count" /\ At(w, "wake")
    /\ inflight' = inflight - 1
    /\ UNCHANGED <<workers, rec, dispatcher, work, active, wake, held, outside, charged, lost, faults>>

\* A mutant of Wake: dispatch is woken only if nothing else is going on.
WakeLast(w) ==
    /\ hand[w].at = "wake" /\ hand' = [hand EXCEPT ![w] = Idle]
    /\ wake' = (wake \/ inflight = 0)
    /\ UNCHANGED <<workers, rec, dispatcher, work, active, inflight, held, outside, charged, lost, faults>>

Wake(w) ==
    /\ hand[w].at = "wake" /\ hand' = [hand EXCEPT ![w] = Idle]
    /\ wake' = TRUE
    /\ UNCHANGED <<workers, rec, dispatcher, work, active, inflight, held, outside, charged, lost, faults>>

(***************************************************************************)
(* Time, breakers, and the end.                                            *)
(***************************************************************************)

\* A lease runs out: its holder is slow, or waits in the queue, or the settlement
\* of it failed.
Lapse(i) ==
    /\ rec[i].st = "leased" /\ ~rec[i].lapsed
    /\ IF i \in lost THEN UNCHANGED faults ELSE Fault
    /\ rec' = [rec EXCEPT ![i].lapsed = TRUE]
    /\ charged' = [charged EXCEPT ![i] = @ + 1]
    /\ lost' = lost \ {i}
    /\ UNCHANGED <<workers, dispatcher, work, hand, shared, outside>>

DelayPasses(i) ==
    /\ ~rec[i].due /\ rec' = [rec EXCEPT ![i].due = TRUE]
    /\ UNCHANGED <<workers, dispatcher, work, hand, shared, outside, charged, lost, faults>>

\* A mutant of HoldPasses: a hold that has passed is never taken away.
HoldStays(d) == FALSE

HoldPasses(d) ==
    /\ d \in held /\ held' = held \ {d}
    /\ UNCHANGED <<workers, rec, dispatcher, work, hand, active, inflight, wake, outside, charged, lost, faults>>

Outage(d) ==
    /\ Fault /\ d \notin refusing /\ refusing' = refusing \cup {d}
    /\ UNCHANGED <<workers, rec, dispatcher, work, hand, shared, cancelled, charged, lost>>

\* The breaker lets calls through again, and its event wakes the redriver (Sink).
Recovery(d) ==
    /\ d \in refusing /\ refusing' = refusing \ {d}
    /\ wake' = TRUE
    /\ UNCHANGED <<workers, rec, dispatcher, work, hand, active, inflight, held, cancelled, charged, lost, faults>>

Cancel ==
    /\ CanStop /\ ~cancelled /\ cancelled' = TRUE
    /\ UNCHANGED <<workers, rec, dispatcher, work, hand, shared, refusing, charged, lost, faults>>

\* Run has closed the channel and waits for the workers, at most ShutdownTimeout.
Stop ==
    /\ pc = "closing"
    /\ \/ work = <<>> /\ (\A w \in 1..workers : hand[w] = Idle) /\ UNCHANGED <<faults, lost>>
       \/ Fault /\ lost' = lost \cup active
    /\ pc' = "stopped"
    /\ UNCHANGED <<workers, rec, grant, offered, queued, work, hand, shared, outside, charged>>

Dispatch == Fill \/ Lease \/ Offer \/ Offered \/ WaitEnds \/ Stop
Worker(w) ==
    Take(w) \/ Handle(w) \/ settle(w) \/ holdDependency(w) \/ Delete(w) \/ Count(w) \/ Wake(w)

Resting == pc = "stopped" /\ UNCHANGED vars

Next ==
    \/ Dispatch \/ LeaseFails \/ Cancel \/ Resting
    \/ \E w \in 1..workers : Worker(w)
    \/ \E i \in Ids : Lapse(i) \/ DelayPasses(i)
    \/ \E d \in Deps : HoldPasses(d) \/ Outage(d) \/ Recovery(d)

Spec == Init /\ [][Next]_vars

\* Dispatch and the workers go on (a handler ends, by its context at the latest),
\* the rate limit lets records through, delays and holds pass, leases that nobody
\* settles lapse, and breakers recover.
FairSpec ==
    /\ Spec
    /\ WF_vars(Dispatch) /\ SF_vars(Fill /\ pc' = "lease")
    /\ WF_vars(\E w \in 1..workers : Worker(w))
    /\ \A i \in Ids : WF_vars(Lapse(i)) /\ WF_vars(DelayPasses(i))
    /\ \A d \in Deps : WF_vars(HoldPasses(d)) /\ WF_vars(Recovery(d))

(***************************************************************************)
(* Properties.                                                             *)
(***************************************************************************)
InHand == {w \in 1..workers : hand[w] # Idle}
Handled == {w \in InHand : hand[w].at \notin {"count", "wake"}}

\* "Never run one record twice at the same time": whatever leases lapse, no two
\* workers, and no worker and the queue, have the same record.
OneHandlerPerRecord ==
    /\ \A v, w \in Handled : hand[v].lease.id = hand[w].lease.id => v = w
    /\ \A n \in DOMAIN work :
         /\ \A w \in Handled : hand[w].lease.id # work[n].id
         /\ \A m \in DOMAIN work : work[m].id = work[n].id => m = n

\* dispatch sees the pool as it is.  The counter covers everything queued and in
\* hand and never passes the capacity ("never blocks: inflight is bounded by the
\* channel's capacity"), and while dispatch waits for a free worker it is woken, or
\* about to be, as soon as there is one ("process() wakes us when a worker frees up").
PoolSeenRight ==
    /\ inflight = Len(work) + Cardinality({w \in InHand : hand[w].at # "wake"})
    /\ inflight <= capacity
    /\ active = {l.id : l \in Range(work)} \cup {hand[w].lease.id : w \in Handled}
    /\ pc = "full" /\ inflight < capacity => wake \/ \E w \in InHand : hand[w].at = "wake"

\* "a long outage costs no attempts", nor does a shutdown or a record handed back:
\* a record's attempts are failures of its handler and leases that ran out.
AttemptsCharged ==
    \A i \in Ids : rec[i].attempts <= charged[i] + (IF rec[i].st = "pending" THEN 0 ELSE 1)

\* "Records that were leased but not finished when ctx ended are released without
\* penalty": when Run has returned, no record is left leased, unless the store
\* failed or a handler was abandoned.
CleanStop ==
    pc = "stopped" => \A i \in Ids \ lost : rec[i].st = "leased" => rec[i].lapsed

\* Every record is handled to the end or parked, past outages, failures, lapsed
\* leases and a store that fails now and then, unless Run ends.
Drains == <>(pc = "stopped" \/ \A i \in Ids : rec[i].st \in {"gone", "parked"})
=============================================================================
