------------------------------ MODULE Consumer ------------------------------
(***************************************************************************)
(* The Kafka consumer (kafka/consumer.go) with a pool of workers: one      *)
(* goroutine, Run, owns every piece of state and alternates between        *)
(* applying results, committing, polling and handing messages to the pool; *)
(* the workers only take tasks from one channel and put results on         *)
(* another.  Rebalances are callbacks on Run's goroutine, inside Poll.     *)
(* The Kafka client and cluster, the pipeline and the dead-letter store    *)
(* are modelled by what the consumer relies on.                            *)
(***************************************************************************)
EXTENDS Integers, Sequences, FiniteSets, FiniteSetsExt, Functions

CONSTANTS
    Partitions,
    Log,            \* the keys of the messages of each partition, in offset order
    NoKey,          \* the key of a message without one (or IgnoreKeyOrder)
    Workers,        \* Config.Workers, above 1
    MaxInFlight,    \* Config.MaxInFlight
    Policies,       \* values of Config.OnUnstorable: "halt", "skip", or both, when
                    \* either may apply to a message (more than one Config allows)
    Failures,       \* ways processing may fail: "failed", "storeFailed", "invalid"
    CanStop,        \* the context of Run may end
    MaxFaults,      \* bound: failures, rebalances, stale deliveries, lost commits and
                    \* the end of the context
    MaxGen          \* bound: assignments; the last is not revoked

ASSUME ConsumerAssumption ==
    /\ IsFiniteSet(Partitions) /\ \A tp \in Partitions : Len(Log[tp]) \in Nat
    /\ Workers \in Nat /\ Workers > 1
    /\ MaxInFlight \in Nat /\ MaxInFlight >= Workers
    /\ Failures \subseteq {"failed", "storeFailed", "invalid"}
    /\ CanStop \in BOOLEAN /\ Policies \subseteq {"halt", "skip"} /\ Policies # {}
    /\ MaxFaults \in Nat /\ MaxGen \in Nat

VARIABLES
    pc,        \* where Run is: its loop is "drain", "poll", "dispatch"; then "leaving",
               \* "drainAll" or "drainSome", "commit", "stopped"; or "panic"
    c,         \* the fields of Consumer that Run's goroutine owns
    work,      \* Consumer.work: tasks on their way to a worker
    running,   \* tasks workers are executing
    results,   \* Consumer.results: outcomes on their way back
    cancelled, \* the context of Run has ended
    position,  \* the offset the client reads next, per partition
    group,     \* the offset the group has committed, per partition
    settled,   \* history: messages processed, stored, or skipped by policy
    faults     \* history: faults so far

vars == <<pc, c, work, running, results, cancelled, position, group, settled, faults>>

Offsets(tp) == 0..Len(Log[tp]) - 1
KeyOf(tp, offset) == Log[tp][offset + 1]
Lines == UNION {{<<tp, KeyOf(tp, o)>> : o \in Offsets(tp)} : tp \in Partitions}

Gone == [gen |-> 0]
Free == [busy |-> FALSE, tasks |-> <<>>]
Busy(tasks) == [busy |-> TRUE, tasks |-> tasks]

line(t) == <<t.tp, KeyOf(t.tp, t.offset)>>
keyed(t) == KeyOf(t.tp, t.offset) # NoKey

\* The partition a task was accepted for is still assigned as it was then.
current(s, t) == s.parts[t.tp] # Gone /\ s.parts[t.tp].gen = t.gen

newPartition(gen) ==
    [gen |-> gen, next |-> -1, frontier |-> -1, completed |-> {}, inflight |-> 0,
     failedAt |-> -1, backoff |-> FALSE, paused |-> FALSE]

Init ==
    /\ pc = "drain"
    /\ c = [parts |-> [tp \in Partitions |-> Gone], safe |-> [tp \in Partitions |-> -1],
            committed |-> [tp \in Partitions |-> -1], dirty |-> FALSE, gen |-> 0,
            backlog |-> <<>>, inflight |-> 0, throttled |-> FALSE,
            keyQueues |-> [l \in Lines |-> Free]]
    /\ work = <<>> /\ running = {} /\ results = <<>>
    /\ cancelled = FALSE
    /\ position = [tp \in Partitions |-> 0]
    /\ group = [tp \in Partitions |-> 0]
    /\ settled = {} /\ faults = 0

stopping == pc \notin {"drain", "poll", "dispatch"}
Fault == faults < MaxFaults /\ faults' = faults + 1

(***************************************************************************)
(* The methods of Consumer, as functions on its fields.                    *)
(***************************************************************************)

\* A mutant of markDone: the commit point moves to the finished message.
markDoneAnyway(s, t) ==
    [s EXCEPT !.parts[t.tp].frontier = t.offset + 1, !.safe[t.tp] = t.offset + 1, !.dirty = TRUE]

\* markDone: the commit point moves over every offset that is now contiguous.
markDone(s, t) ==
    LET p == s.parts[t.tp]
        done == p.completed \cup {t.offset}
        frontier == Min({o \in p.frontier..Len(Log[t.tp]) : o \notin done})
    IN [s EXCEPT !.parts[t.tp] = [p EXCEPT !.completed = {o \in done : o >= frontier},
                                           !.frontier = frontier],
                 !.safe[t.tp] = IF frontier > p.frontier THEN frontier ELSE @,
                 !.dirty = TRUE]

\* released: the next message waiting behind a finished one, if there is one.
nextInLine(s, t) ==
    IF keyed(t) /\ s.keyQueues[line(t)].tasks # <<>>
    THEN <<Head(s.keyQueues[line(t)].tasks)>> ELSE <<>>

released(s, t) ==
    IF ~keyed(t) THEN s
    ELSE [s EXCEPT !.keyQueues[line(t)] = IF @.tasks = <<>> THEN Free ELSE Busy(Tail(@.tasks))]

\* dropQueued for the messages behind one that failed; then the line is free.
dropQueued(s, t) ==
    IF ~keyed(t) THEN s
    ELSE LET n == Len(s.keyQueues[line(t)].tasks)
         IN [s EXCEPT !.inflight = @ - n, !.parts[t.tp].inflight = @ - n,
                      !.keyQueues[line(t)] = Free]

\* A mutant of noteFailure: the partition goes on with what follows.
noteFailureGoesOn(s, t) == s

\* noteFailure, when the message is to be tried again.
noteFailure(s, t) ==
    LET at == s.parts[t.tp].failedAt
    IN [s EXCEPT !.parts[t.tp].failedAt = IF at < 0 \/ t.offset < at THEN t.offset ELSE at]

\* A partition that has a failed message and nothing running is read again.
drained(s, tp) == s.parts[tp].failedAt >= 0 /\ s.parts[tp].inflight = 0 /\ ~stopping

\* The tasks of the other partitions, in their order.
without(tasks, tp) ==
    LET kept[n \in 0..Len(tasks)] ==
          IF n = 0 THEN <<>>
          ELSE IF tasks[n].tp = tp THEN kept[n - 1] ELSE Append(kept[n - 1], tasks[n])
    IN kept[Len(tasks)]

\* Mutants of rewind: the failed message is passed over; it is never tried again.
rewindPast(s, tp) ==
    [s EXCEPT !.backlog = without(@, tp),
              !.parts[tp].next = s.parts[tp].failedAt + 1,
              !.parts[tp].failedAt = -1,
              !.parts[tp].backoff = TRUE]

rewindWaits(s, tp) ==
    [s EXCEPT !.backlog = without(@, tp),
              !.parts[tp].next = s.parts[tp].frontier,
              !.parts[tp].backoff = TRUE]

rewind(s, tp) ==
    LET p == s.parts[tp]
    IN [s EXCEPT !.backlog = without(@, tp),
                 !.parts[tp] = [p EXCEPT !.next = p.frontier, !.failedAt = -1, !.backoff = TRUE]]

\* commitOffsets(pending): what is sent for each of the partitions tps.
pending(s, tps) == {tp \in tps : s.safe[tp] > s.committed[tp]}

committedAll(s, tps) ==
    [s EXCEPT !.committed = [tp \in Partitions |-> IF tp \in tps THEN s.safe[tp] ELSE @[tp]]]

groupAfter(s, tps) == [tp \in Partitions |-> IF tp \in tps THEN s.safe[tp] ELSE group[tp]]

updateThrottle(s) ==
    LET held == s.inflight + Len(s.backlog)
    IN [s EXCEPT !.throttled = held >= MaxInFlight \/ (@ /\ held > MaxInFlight \div 2)]

\* reconcile; refusing: a breaker of the topic refuses calls; ok: the client
\* carried out the pauses and resumptions.
reconcile(s, refusing, ok) ==
    [s EXCEPT !.parts = [tp \in Partitions |->
        IF @[tp] = Gone \/ ~ok THEN @[tp]
        ELSE [@[tp] EXCEPT !.paused = refusing \/ s.parts[tp].backoff \/ s.throttled]]]

(***************************************************************************)
(* complete: one result is applied.                                        *)
(***************************************************************************)

\* Where a call of complete leaves Run: it goes on, or gives up with an error.
Fatal == pc' = IF stopping THEN "commit" ELSE "leaving"

\* s, with the partition of t read again if it has drained; the seek may fail.
AndRewind(s, t, pc1) ==
    \/ /\ ~drained(s, t.tp)
       /\ c' = s /\ pc' = pc1
       /\ UNCHANGED <<position, faults>>
    \/ /\ drained(s, t.tp)
       /\ c' = rewind(s, t.tp) /\ pc' = pc1
       /\ position' = [position EXCEPT ![t.tp] = s.parts[t.tp].frontier]
       /\ UNCHANGED faults
    \/ /\ drained(s, t.tp) /\ Fault
       /\ c' = [s EXCEPT !.backlog = without(@, t.tp)] /\ Fatal
       /\ UNCHANGED position

\* The message is safe; the next of its line goes to the pool.  The pool's
\* channel is closed once Run is stopping.
Finished(s, t, pc1) ==
    /\ AndRewind(released(markDone(s, t), t), t,
                 IF stopping /\ nextInLine(s, t) # <<>> THEN "panic" ELSE pc1)
    /\ work' = work \o nextInLine(s, t)

complete(r, pc1) ==
    LET t == r.task
        s0 == [c EXCEPT !.inflight = @ - 1]
        s == [s0 EXCEPT !.parts[t.tp].inflight = @ - 1]
    IN \/ /\ ~current(c, t)
          /\ c' = s0 /\ pc' = pc1
          /\ UNCHANGED <<work, position, settled, faults>>
       \/ /\ current(c, t) /\ r.res = "safe"
          /\ Finished(s, t, pc1)
          /\ UNCHANGED settled
       \/ /\ current(c, t) /\ r.res = "invalid" /\ "skip" \in Policies
          /\ Finished(s, t, pc1)
          /\ settled' = settled \cup {<<t.tp, t.offset>>}
       \/ /\ current(c, t) /\ r.res = "invalid" /\ "halt" \in Policies
          /\ c' = s /\ Fatal
          /\ UNCHANGED <<work, position, settled, faults>>
       \/ /\ current(c, t) /\ r.res = "storeFailed"
          /\ c' = dropQueued(s, t) /\ Fatal
          /\ UNCHANGED <<work, position, settled, faults>>
       \/ /\ current(c, t) /\ r.res = "failed"
          /\ AndRewind(IF cancelled \/ stopping THEN dropQueued(s, t)
                       ELSE noteFailure(dropQueued(s, t), t), t, pc1)
          /\ UNCHANGED <<work, settled>>

Apply(pc1) ==
    /\ results # <<>>
    /\ results' = Tail(results)
    /\ complete(Head(results), pc1)
    /\ UNCHANGED <<running, cancelled, group>>

(***************************************************************************)
(* The loop of Run.                                                        *)
(***************************************************************************)
Cancel ==
    /\ CanStop /\ ~cancelled /\ Fault
    /\ cancelled' = TRUE
    /\ UNCHANGED <<pc, c, work, running, results, position, group, settled>>

Drain == pc = "drain" /\ Apply("drain")

\* Nothing left to apply: throttle, pause and resume, and commit if it is time
\* to.  A commit that fails changes nothing and is tried again.
Turn ==
    /\ pc = "drain" /\ results = <<>>
    /\ \E refusing, ok \in BOOLEAN :
         LET s == reconcile(updateThrottle(c), refusing, ok)
             due == pending(s, Partitions)
         IN /\ IF refusing \/ ~ok THEN Fault ELSE UNCHANGED faults
            /\ \/ c' = s /\ UNCHANGED group
               \/ /\ s.dirty
                  /\ c' = [committedAll(s, due) EXCEPT !.dirty = FALSE]
                  /\ group' = groupAfter(s, due)
    /\ pc' = "poll"
    /\ UNCHANGED <<work, running, results, cancelled, position, settled>>

PollNothing ==
    /\ pc = "poll" /\ pc' = "dispatch"
    /\ UNCHANGED <<c, work, running, results, cancelled, position, group, settled, faults>>

\* The client failed, or no broker was reachable for BrokersDownTimeout.
PollFails ==
    /\ pc = "poll" /\ Fault /\ pc' = "leaving"
    /\ UNCHANGED <<c, work, running, results, cancelled, position, group, settled>>

\* accept: only the message after the last accepted one is taken; a gap re-points
\* the client.  What finished before a rewind is not run again.
accept(tp, offset, after) ==
    LET p == c.parts[tp]
        expected == p.failedAt < 0 /\ (p.next < 0 \/ offset = p.next)
        taken == [c EXCEPT !.parts[tp] = [p EXCEPT !.next = offset + 1,
                                                   !.frontier = IF p.next < 0 THEN offset ELSE @]]
    IN /\ c' = IF ~expected THEN c
               ELSE IF offset \in p.completed THEN taken
               ELSE [taken EXCEPT !.backlog = Append(@, [tp |-> tp, offset |-> offset, gen |-> p.gen])]
       /\ position' = [position EXCEPT ![tp] =
                         IF p.failedAt < 0 /\ p.next >= 0 /\ offset > p.next THEN p.next ELSE after]
       /\ pc' = "dispatch"

PollMessage(tp) ==
    /\ pc = "poll"
    /\ c.parts[tp] # Gone /\ ~c.parts[tp].paused
    /\ position[tp] \in Offsets(tp)
    /\ accept(tp, position[tp], position[tp] + 1)
    /\ UNCHANGED <<work, running, results, cancelled, group, settled, faults>>

\* The client delivers something else than it was pointed at: a message it had
\* fetched before a seek, or one beyond a gap.
PollOther(tp, offset) ==
    /\ pc = "poll" /\ Fault
    /\ c.parts[tp] # Gone /\ c.parts[tp].next >= 0
    /\ offset # position[tp]
    /\ accept(tp, offset, offset + 1)
    /\ UNCHANGED <<work, running, results, cancelled, group, settled>>

(***************************************************************************)
(* Rebalances, inside Poll.                                                *)
(***************************************************************************)
onAssigned(tp) ==
    /\ pc \in {"poll", "commit"}
    /\ c.parts[tp] = Gone /\ c.gen < MaxGen
    /\ c' = [c EXCEPT !.gen = @ + 1, !.parts[tp] = newPartition(c.gen + 1), !.committed[tp] = -1]
    /\ position' = [position EXCEPT ![tp] = group[tp]]
    /\ UNCHANGED <<pc, work, running, results, cancelled, group, settled, faults>>

\* The places in line l that are taken.
Places(s, l) == {l} \X DOMAIN s.keyQueues[l].tasks

\* A mutant of queuedFor: what waits in line is not counted out.
queuedForNone(s, tp) == 0

queuedFor(s, tp) == Cardinality(UNION {Places(s, l) : l \in {k \in Lines : k[1] = tp}})

\* What is safe is committed first (or the commit fails); what has not started
\* is forgotten; what runs goes on, and its result will be ignored.
onRevoked(tp) ==
    /\ pc \in {"poll", "commit"}
    /\ c.parts[tp] # Gone /\ c.gen < MaxGen
    /\ group' \in {group, groupAfter(c, pending(c, {tp}))}
    /\ c' = [c EXCEPT !.parts[tp] = Gone, !.safe[tp] = -1, !.committed[tp] = -1,
                      !.inflight = @ - queuedFor(c, tp),
                      !.keyQueues = [l \in Lines |-> IF l[1] = tp THEN Free ELSE @[l]],
                      !.backlog = without(@, tp)]
    /\ UNCHANGED <<pc, work, running, results, cancelled, position, settled, faults>>

\* Another member of the group, with the same guarantees, owns the partition.
Elsewhere(tp) ==
    /\ c.parts[tp] = Gone /\ c.gen > 0
    /\ group[tp] \in Offsets(tp)
    /\ group' = [group EXCEPT ![tp] = @ + 1]
    /\ settled' = settled \cup {<<tp, group[tp]>>}
    /\ UNCHANGED <<pc, c, work, running, results, cancelled, position, faults>>

(***************************************************************************)
(* dispatchBacklog and send, one accepted message at a time.               *)
(***************************************************************************)
Room == c.backlog # <<>> /\ c.inflight < MaxInFlight

Dispatch ==
    LET t == Head(c.backlog)
        s0 == [c EXCEPT !.backlog = Tail(@)]
        s == [s0 EXCEPT !.inflight = @ + 1, !.parts[t.tp].inflight = @ + 1]
        waits == keyed(t) /\ c.keyQueues[line(t)].busy
    IN /\ pc = "dispatch" /\ Room
       /\ IF ~current(c, t) \/ c.parts[t.tp].failedAt >= 0
          THEN c' = s0 /\ UNCHANGED work
          ELSE /\ c' = IF keyed(t) THEN [s EXCEPT !.keyQueues[line(t)] =
                                            IF waits THEN Busy(Append(@.tasks, t)) ELSE Busy(<<>>)]
                       ELSE s
               /\ work' = IF waits THEN work ELSE Append(work, t)
       /\ UNCHANGED <<pc, running, results, cancelled, position, group, settled, faults>>

\* Back to the top of the loop, which ends when the context has.
Loop ==
    /\ pc = "dispatch" /\ ~Room
    /\ pc' = IF cancelled THEN "leaving" ELSE "drain"
    /\ UNCHANGED <<c, work, running, results, cancelled, position, group, settled, faults>>

(***************************************************************************)
(* Workers: exec, and process behind it.  A message is safe when its       *)
(* pipeline finished, or when it was stored (deferred, parked, or behind   *)
(* an earlier message of its key).                                         *)
(***************************************************************************)
Take ==
    /\ work # <<>> /\ Cardinality(running) < Workers
    /\ ~(keyed(Head(work)) /\ (cancelled \/ stopping))
    /\ running' = running \cup {Head(work)}
    /\ work' = Tail(work)
    /\ UNCHANGED <<pc, c, results, cancelled, position, group, settled, faults>>

\* A message with a key first asks the store whether its key is held, which a
\* context that has ended refuses.
Refuse ==
    /\ work # <<>> /\ Cardinality(running) < Workers
    /\ keyed(Head(work)) /\ (cancelled \/ stopping)
    /\ results' = Append(results, [task |-> Head(work), res |-> "failed"])
    /\ work' = Tail(work)
    /\ UNCHANGED <<pc, c, running, cancelled, position, group, settled, faults>>

exec(t) ==
    /\ t \in running
    /\ running' = running \ {t}
    /\ \/ /\ results' = Append(results, [task |-> t, res |-> "safe"])
          /\ settled' = settled \cup {<<t.tp, t.offset>>}
          /\ UNCHANGED faults
       \/ \E res \in Failures :
            /\ Fault
            /\ results' = Append(results, [task |-> t, res |-> res])
            /\ UNCHANGED settled
    /\ UNCHANGED <<pc, c, work, cancelled, position, group>>

\* RetryBackoff passes.
BackoffOver(tp) ==
    /\ c.parts[tp] # Gone /\ c.parts[tp].backoff
    /\ c' = [c EXCEPT !.parts[tp].backoff = FALSE]
    /\ UNCHANGED <<pc, work, running, results, cancelled, position, group, settled, faults>>

(***************************************************************************)
(* Shutdown.                                                               *)
(***************************************************************************)

\* stopWorkers closed the channel: the workers finish what it holds, or
\* ShutdownTimeout passes.
StopWorkers ==
    /\ pc = "leaving"
    /\ pc' = IF work = <<>> /\ running = {} THEN "drainAll" ELSE "drainSome"
    /\ UNCHANGED <<c, work, running, results, cancelled, position, group, settled, faults>>

LastDrain == pc \in {"drainAll", "drainSome"} /\ Apply(pc)

Drained ==
    /\ \/ pc = "drainAll" /\ c.inflight = 0
       \/ pc = "drainSome" /\ results = <<>>
    /\ pc' = "commit"
    /\ UNCHANGED <<c, work, running, results, cancelled, position, group, settled, faults>>

\* finalCommit succeeds, or fails until ShutdownTimeout.
finalCommit ==
    /\ pc = "commit"
    /\ \/ UNCHANGED <<c, group>>
       \/ /\ c' = committedAll(c, pending(c, Partitions))
          /\ group' = groupAfter(c, pending(c, Partitions))
    /\ pc' = "stopped"
    /\ UNCHANGED <<work, running, results, cancelled, position, settled, faults>>

\* The last drain waits for a result of something no worker was given.
Hung == pc = "drainAll" /\ results = <<>> /\ c.inflight > 0

Over == (pc \in {"stopped", "panic"} \/ Hung) /\ UNCHANGED vars

RunStep == Drain \/ Turn \/ PollNothing \/ Dispatch \/ Loop \/ StopWorkers \/ LastDrain \/ Drained
              \/ finalCommit

Next ==
    \/ RunStep \/ PollFails \/ Cancel \/ Take \/ Refuse \/ Over
    \/ \E t \in running : exec(t)
    \/ \E tp \in Partitions :
         \/ PollMessage(tp)
         \/ \E offset \in Offsets(tp) : PollOther(tp, offset)
         \/ onAssigned(tp) \/ onRevoked(tp) \/ Elsewhere(tp) \/ BackoffOver(tp)

Spec == Init /\ [][Next]_vars

\* Run and the workers go on (a handler ends by ProcessTimeout), a backoff passes,
\* and the group assigns every partition to somebody who reads it.  The client
\* delivers and commits when it is asked to again and again.
FairSpec ==
    /\ Spec
    /\ WF_vars(RunStep) /\ WF_vars(Take \/ Refuse)
    /\ WF_vars(\E t \in running : exec(t))
    /\ SF_vars(Turn /\ ~c'.dirty)
    /\ \A tp \in Partitions :
         /\ SF_vars(PollMessage(tp)) /\ SF_vars(onAssigned(tp))
         /\ WF_vars(BackoffOver(tp)) /\ WF_vars(Elsewhere(tp))

(***************************************************************************)
(* Properties.                                                             *)
(***************************************************************************)
InFlight ==
    {t : t \in running} \cup Range(work) \cup {r.task : r \in Range(results)}
      \cup UNION {Range(c.keyQueues[l].tasks) : l \in Lines}

\* "A message is never skipped: an offset is committed only after its message is
\* done or durable in the Store": whatever the group has committed, every message
\* before it is settled, across failures, rewinds, rebalances and shutdown.
CommittedIsSettled ==
    \A tp \in Partitions : \A o \in 0..group[tp] - 1 : <<tp, o>> \in settled

\* "Messages with the same key always run one after another in offset order", and
\* one that fails stops those behind it: a message runs only when every earlier
\* one with its key is settled.
KeyOrder ==
    \A t \in running : keyed(t) =>
        \A o \in 0..t.offset - 1 :
            KeyOf(t.tp, o) = KeyOf(t.tp, t.offset) => <<t.tp, o>> \in settled

\* The counters agree with the messages: everything in flight is counted once, in
\* its partition too, so the pool is never overfilled ("sending never blocks").
CountsExact ==
    pc # "panic" =>
    /\ c.inflight = Len(work) + Cardinality(running) + Len(results)
                      + Cardinality(UNION {Places(c, l) : l \in Lines})
    /\ c.inflight <= MaxInFlight
    /\ \A tp \in Partitions : c.parts[tp] # Gone =>
         c.parts[tp].inflight = Cardinality({t \in InFlight : t.tp = tp /\ t.gen = c.parts[tp].gen})

\* No accepted message is forgotten: as long as Run goes on, an offset between the
\* commit point and the next expected one is finished, or waiting, or in flight, or
\* its partition is waiting for something in flight in order to be read again.
NothingForgotten ==
    \A tp \in Partitions :
        LET p == c.parts[tp]
            held == {t.offset : t \in {u \in InFlight \cup Range(c.backlog) : u.tp = tp /\ u.gen = p.gen}}
        IN p # Gone /\ ~cancelled /\ ~stopping =>
             IF p.failedAt >= 0 THEN p.inflight > 0
             ELSE \A o \in p.frontier..p.next - 1 : o \in p.completed \cup held \/ o < 0

\* "A message that cannot be handled is seeked back to and retried": as long as
\* Run goes on every message is committed in the end, past failures, pauses,
\* throttling, stale deliveries and rebalances.
Progress == \A tp \in Partitions : <>(stopping \/ group[tp] = Len(Log[tp]))

\* The last drain never gives a message to workers that have been stopped
\* (released sends to the channel stopWorkers closed).
NoPanic == pc # "panic"
=============================================================================
