------------------------------ MODULE Transport ------------------------------
(***************************************************************************)
(* The guarded HTTP transport (goguard.go) and the requests it saves and     *)
(* sends later (defer.go): callers' requests, the replayer that the redriver *)
(* runs, the janitor and Close, over an index of circuits that evicts.  One  *)
(* shard is modelled: shards share nothing.                                  *)
(*                                                                          *)
(* A circuit is a breaker with a health check.  Breaker shows how it works;  *)
(* here it refuses while open, lets one canary through once its prober has   *)
(* found the service healthy, and stays as it is once breaker.Close has      *)
(* stopped the prober.  A circuit that nothing refers to is used again.      *)
(***************************************************************************)
EXTENDS Integers, FiniteSets, Sequences, SequencesExt

CONSTANTS
    Callers,      \* goroutines that make one request each
    Replayer,     \* the redriver's worker, which sends saved requests
    Hosts,        \* hosts with a circuit each
    Shared,       \* an endpoint with one circuit for all of its hosts
    Circuits,     \* 1..n; bound: how many there can be at a time
    MaxInflight,
    Scan,         \* how far from the back an eviction looks for a closed circuit
    Setups        \* what a behaviour is about, see below

(* A setup says how many circuits a shard may have (MaxBreakers), what each   *)
(* caller wants and of which kind its request is, how often a request may be  *)
(* tried again, whether the underlying transport or a callback may panic,     *)
(* whether circuits left idle are pruned (MaxIdleTime), whether Close may be  *)
(* called, and bounds how often the service goes down.  Of the kinds, "keyed" *)
(* requests may be sent again and saved, "plain" ones sent again, "stream"    *)
(* ones neither; "unguarded" ones match no endpoint and "unknown" ones name   *)
(* one that does not exist.                                                   *)
Setup(max, want, kind, retries, panic, prune, close, outages) ==
    [max |-> max, want |-> want, kind |-> kind, retries |-> retries, panic |-> panic,
     prune |-> prune, close |-> close, outages |-> outages]

Requests == Callers \cup {Replayer}
Targets == Hosts \cup {Shared}
None == 0

ASSUME CircuitsAssumption == Circuits = 1..Cardinality(Circuits)
ASSUME LimitsAssumption == Scan \in Nat \ {0} /\ MaxInflight \in Nat \ {0}
ASSUME NamesAssumption == Shared \notin Hosts /\ Replayer \notin Callers

VARIABLES
    setup,     \* chosen once
    entries,   \* target -> its circuit or None (shard.entries, endpoint.shared)
    lru,       \* the circuits of the shard, most recently used first
    circ,      \* the circuits
    q,         \* the requests
    saved, sent, aside,   \* saved requests: in the store, replayed, parked
    job,       \* the saved request being replayed; Replayer for none
    closing,   \* how far Close is
    listed,    \* circuits Close has yet to close
    janitor,   \* the janitor runs
    workers,   \* circuits that a goroutine of retire is closing
    up, outages    \* the service

index == <<entries, lru>>
store == <<saved, sent, aside, job>>
life == <<closing, listed, janitor, workers>>
env == <<up, outages, setup>>
vars == <<index, circ, q, store, life, env>>

\* late: made after Close looked for circuits.
NewCircuit == [state |-> "closed", inflight |-> 0, stopped |-> FALSE, late |-> FALSE]

\* A request: its circuit, its permit, retries made, responses whose body is open,
\* whether a request body is open, the last answer, and what RoundTrip returned.
Fresh == [pc |-> "idle", to |-> Shared, kind |-> "keyed", via |-> None,
          permit |-> "none", tries |-> 0, open |-> 0, body |-> FALSE, answer |-> "none",
          result |-> "none"]

Init ==
    /\ setup \in Setups
    /\ entries = [t \in Targets |-> None]
    /\ lru = <<>>
    /\ circ = [c \in Circuits |-> NewCircuit]
    /\ q = [r \in Requests |-> Fresh]
    /\ saved = {} /\ sent = {} /\ aside = {} /\ job = Replayer
    /\ closing = "no" /\ listed = {} /\ janitor = setup.prune /\ workers = {}
    /\ up = TRUE /\ outages = 0

-----------------------------------------------------------------------------
(* Requests and circuits.                                                    *)

Goto(r, l) == q' = [q EXCEPT ![r].pc = l]

Return(r, answer, res, opened, bodyOpen) ==
    q' = [q EXCEPT ![r] = [Fresh EXCEPT !.pc = "done", !.to = q[r].to, !.kind = q[r].kind,
            !.result = res, !.open = opened, !.body = bodyOpen,
            !.permit = IF q[r].permit = "none" THEN @ ELSE "done",
            !.answer = IF r = Replayer THEN answer ELSE @]]

Referred == ({entries[t] : t \in Targets} \cup {q[r].via : r \in Requests}
             \cup listed \cup workers) \ {None}

\* A circuit that nothing refers to is as good as new.
Keep(cs) == circ' = [c \in Circuits |-> IF c \in Referred' THEN cs[c] ELSE NewCircuit]

\* t.ctx is done.
CtxDone == closing \notin {"no", "flag"}

\* Success, Failure and Abandon of the permit of r: the first one counts.
Finish(r, state) ==
    Keep(IF q[r].permit = "held"
           THEN [circ EXCEPT ![q[r].via].inflight = @ - 1, ![q[r].via].state = state]
           ELSE circ)

\* MarkFailure: a canary reopens the circuit, and enough failures open it.
FailureStates(c) == IF circ[c].state = "closed" THEN {"closed", "open"} ELSE {"open"}

\* Mutant: a goroutine even then.
RetireAlways(C, cs) == workers' = workers \cup C /\ circ' = cs

\* retire, for the circuits of C: goroutines close them, or the caller does once
\* Close has begun.
Retire(C, cs) ==
    IF closing = "no"
      THEN workers' = workers \cup C /\ circ' = cs
      ELSE workers' = workers /\ Keep([c \in Circuits |-> [cs[c] EXCEPT !.stopped = @ \/ c \in C]])

-----------------------------------------------------------------------------
(* RoundTrip.                                                                *)

Start(r) ==
    /\ q[r].pc = "idle" /\ r \in Callers
    /\ q' = [q EXCEPT ![r] = [Fresh EXCEPT !.pc = "enter", !.to = setup.want[r],
                                             !.kind = setup.kind[r], !.body = TRUE]]
    /\ UNCHANGED <<index, circ, store, life, env>>

Enter(r) ==
    /\ q[r].pc = "enter"
    /\ \/ CtxDone /\ Return(r, q[r].answer, "error", 0, FALSE)
       \/ ~CtxDone /\ q[r].kind = "unknown" /\ Return(r, q[r].answer, "error", 0, FALSE)
       \/ ~CtxDone /\ q[r].kind = "unguarded"
          /\ \/ up /\ Return(r, q[r].answer, "response", 1, FALSE)
             \/ ~up /\ Return(r, q[r].answer, "error", 0, FALSE)
       \/ ~CtxDone /\ q[r].kind \notin {"unknown", "unguarded"} /\ Goto(r, "lookup")
    /\ UNCHANGED <<index, circ, store, life, env>>

\* getEntry, with the read lock or the atomic pointer.  A circuit touched a moment
\* ago keeps its place.
Lookup(r) ==
    /\ q[r].pc = "lookup"
    /\ LET c == entries[q[r].to] IN
       IF c = None
         THEN Goto(r, "insert")
         ELSE \E l \in {"acquire"} \cup (IF q[r].to = Shared THEN {} ELSE {"touch"}) :
                q' = [q EXCEPT ![r].pc = l, ![r].via = c]
    /\ UNCHANGED <<index, circ, store, life, env>>

MoveToFront(c) == IF c \in ToSet(lru) THEN <<c>> \o Remove(lru, c) ELSE lru

\* The circuit may have been evicted since Lookup.
Touch(r) ==
    /\ q[r].pc = "touch"
    /\ lru' = MoveToFront(q[r].via)
    /\ Goto(r, "acquire")
    /\ UNCHANGED <<entries, circ, store, life, env>>

\* The least recently used circuit, but a closed one among the last Scan if there is.
Victim ==
    LET near == {i \in 1..Len(lru) : i > Len(lru) - Scan}
        calm == {i \in near : circ[lru[i]].state = "closed"}
    IN lru[IF calm = {} THEN Len(lru) ELSE CHOOSE i \in calm : \A j \in calm : j <= i]

\* Mutant: no second look.
FoundNever(t) == None

\* The second look, under the lock.
Found(t) == entries[t]

\* getEntry, with the lock: someone else may have made the circuit; else it is made
\* here, and one of a full shard is evicted.
Insert(r) ==
    LET t == q[r].to
        found == Found(t) # None
        c == IF found THEN Found(t)
             ELSE CHOOSE n \in Circuits \ Referred : \A m \in Circuits \ Referred : n <= m
        out == IF t # Shared /\ ~found /\ Len(lru) >= setup.max THEN {Victim} ELSE {}
        missed == IF t = Shared THEN {"shared", "listed", "done"} ELSE {"listed", "done"}
    IN /\ q[r].pc = "insert" /\ Circuits \ Referred # {}
       /\ q' = [q EXCEPT ![r].pc = "acquire", ![r].via = c]
       /\ entries' = [e \in Targets |-> IF e = t THEN c
                                        ELSE IF entries[e] \in out THEN None ELSE entries[e]]
       /\ lru' = IF t = Shared THEN lru
                 ELSE IF found THEN MoveToFront(c)
                 ELSE <<c>> \o SelectSeq(lru, LAMBDA d : d \notin out)
       /\ UNCHANGED <<store, closing, listed, janitor, env>>
       /\ Retire(out, IF found THEN circ
                      ELSE [circ EXCEPT ![c] = [NewCircuit EXCEPT !.late = closing \in missed]])

\* guarded: breaker.Acquire.
Acquire(r) ==
    LET c == circ[q[r].via]
        admits == /\ c.state = "closed" \/ (c.state = "half" /\ c.inflight = 0)
                  /\ c.inflight < MaxInflight
    IN /\ q[r].pc = "acquire"
       /\ IF admits
            THEN /\ q' = [q EXCEPT ![r].pc = "send", ![r].permit = "held"]
                 /\ circ' = [circ EXCEPT ![q[r].via].inflight = @ + 1]
            ELSE Goto(r, "refused") /\ UNCHANGED circ
       /\ UNCHANGED <<index, store, life, env>>

\* Mutant: a response in hand is forgotten.
LeaveOpen(n) == n

\* closeResponse: the responses of a request still open after it, n before.
CloseResponse(n) == IF n > 0 THEN n - 1 ELSE 0

\* permit.Success.
Succeed(r, answer, opened) ==
    /\ Return(r, answer, "response", opened, FALSE)
    /\ Finish(r, IF circ[q[r].via].state = "half" THEN "closed" ELSE circ[q[r].via].state)

\* permit.Failure, which comes before the request is saved.
Fail(r, answer, opened) ==
    /\ q' = [q EXCEPT ![r].pc = "defer", ![r].permit = "done", ![r].answer = answer,
                      ![r].open = opened, ![r].body = FALSE]
    /\ \E s \in FailureStates(q[r].via) : Finish(r, s)

\* One attempt.  The underlying transport closes the request body.  While the service
\* is up it answers, perhaps too slowly; while it is down it answers 503 or the attempt
\* times out, and may be made again.
Answers == IF up THEN {"ok", "no", "slow"} ELSE {"bad", "err"}

Send(r) ==
    /\ q[r].pc = "send"
    /\ UNCHANGED <<index, store, life, env>>
    /\ \E a \in Answers :
         LET opened == IF a = "err" THEN q[r].open ELSE q[r].open + 1 IN
         \/ a \in {"ok", "no"} /\ Succeed(r, a, opened)
         \/ a \notin {"ok", "no"} /\ Fail(r, a, opened)
         \/ /\ a \in {"bad", "err"} /\ q[r].kind # "stream" /\ q[r].tries < setup.retries
            /\ q' = [q EXCEPT ![r].pc = "backoff", ![r].answer = a, ![r].open = opened,
                              ![r].body = FALSE, ![r].tries = @ + 1]
            /\ UNCHANGED circ

\* The caller gave up while the attempt ran.
Abandon(r) ==
    /\ q[r].pc = "send" /\ r \in Callers
    /\ Return(r, q[r].answer, "error", q[r].open, FALSE)
    /\ UNCHANGED <<index, store, life, env>>
    /\ Finish(r, circ[q[r].via].state)

\* After the wait the request is sent again.  It is not if the caller gave up or its
\* body cannot be had again: what the attempt returned is its outcome.
Backoff(r) ==
    /\ q[r].pc = "backoff"
    /\ UNCHANGED <<index, store, life, env>>
    /\ \/ /\ q' = [q EXCEPT ![r].pc = "send", ![r].body = TRUE, ![r].open = CloseResponse(@)]
          /\ UNCHANGED circ
       \/ Fail(r, q[r].answer, q[r].open)

\* tryDefer saves what may be saved.  A replay is not.
Savable(r) == q[r].kind = "keyed" /\ r # Replayer

\* Mutant: an error of the store is overlooked.
OverlooksError(r) == IF Savable(r) THEN "deferred" ELSE "error"

\* What the caller gets if it is not, or if Append says that it is not.
Undeferred(r) == IF q[r].permit = "none" THEN "refused"
                 ELSE IF q[r].open > 0 THEN "response" ELSE "error"

\* Append, the first half: the record is in the store, and may be leased, before Append knows that it
\* is on stable storage.
Save(r) ==
    /\ q[r].pc \in {"refused", "defer"} /\ Savable(r)
    /\ saved' = saved \cup {r}
    /\ Goto(r, "appended")
    /\ UNCHANGED <<index, circ, sent, aside, job, life, env>>

\* The rest of tryDefer.  Nothing was to be saved, the store refused it, or Append
\* returns: with an error too, of the fsync or of waiting for it (waitDurable), which
\* does not take the record out again.  A WALStore fails closed then; the record is
\* replayed once it is opened again.
TryDefer(r) ==
    /\ \/ /\ q[r].pc = "appended"
          /\ Return(r, q[r].answer, "deferred", CloseResponse(q[r].open), FALSE)
       \/ /\ q[r].pc \in {"refused", "defer", "appended"}
          /\ Return(r, q[r].answer, Undeferred(r), q[r].open, FALSE)
    /\ UNCHANGED <<index, store, life, env>>
    /\ Keep(circ)

\* The underlying transport panics, or a callback: IsFailure with a response in hand,
\* RetryBackoff, Enabled or OrderKey while the request is being saved.
Panic(r) ==
    /\ setup.panic /\ r \in Callers
    /\ q[r].pc \in {"send", "backoff", "refused", "defer"}
    /\ \E n \in 0..(IF q[r].pc = "send" THEN 1 ELSE 0) : Return(r, q[r].answer, "panic", q[r].open + n, q[r].body)
    /\ UNCHANGED <<index, store, life, env>>
    /\ \E s \in FailureStates(q[r].via) : Finish(r, s)

-----------------------------------------------------------------------------
(* ReplayHandler, run by the redriver.                                       *)

\* Mutant: a circuit that waits for a canary is left alone too.
RefusingCanary(t) == entries[t] # None /\ circ[entries[t]].state # "closed"

\* The redriver leaves records alone whose circuit, as Breakers lists it, refuses.
Refusing(t) == entries[t] # None /\ circ[entries[t]].state = "open"

Replay ==
    /\ q[Replayer].pc = "idle"
    /\ \E r \in saved :
         /\ ~Refusing(q[r].to)
         /\ job' = r
         /\ q' = [q EXCEPT ![Replayer] = [Fresh EXCEPT !.pc = "enter", !.to = q[r].to, !.body = TRUE]]
    /\ UNCHANGED <<index, circ, saved, sent, aside, life, env>>

\* An answer finishes the record, or parks it if sending it again cannot help; after
\* anything else it waits.  The handler closes the response.
Settle ==
    LET answered == q[Replayer].result = "response" /\ q[Replayer].answer \in {"ok", "slow", "no"}
    IN /\ q[Replayer].pc = "done"
       /\ saved' = IF answered THEN saved \ {job} ELSE saved
       /\ sent' = IF answered /\ q[Replayer].answer # "no" THEN sent \cup {job} ELSE sent
       /\ aside' = IF answered /\ q[Replayer].answer = "no" THEN aside \cup {job} ELSE aside
       /\ job' = Replayer
       /\ q' = [q EXCEPT ![Replayer] = Fresh]
       /\ UNCHANGED <<index, circ, life, env>>

-----------------------------------------------------------------------------
(* Background work, and Close.                                               *)

\* pruneIdle: circuits unused for long, from the back, one after the other.
Prune ==
    /\ janitor /\ lru # <<>>
    /\ lru' = Front(lru)
    /\ entries' = [t \in Targets |-> IF entries[t] = Last(lru) THEN None ELSE entries[t]]
    /\ UNCHANGED <<q, store, closing, listed, janitor, env>>
    /\ Retire({Last(lru)}, circ)

StopBreaker(c) == Keep([circ EXCEPT ![c].stopped = TRUE])

RetireDone(c) ==
    /\ c \in workers
    /\ workers' = workers \ {c}
    /\ UNCHANGED <<index, q, store, closing, listed, janitor, env>>
    /\ StopBreaker(c)

\* Mutant: the context is cancelled after the wait.
JanitorStopsLate ==
    /\ janitor /\ closing = "done"
    /\ janitor' = FALSE
    /\ UNCHANGED <<index, circ, q, store, closing, listed, workers, env>>

JanitorStops ==
    /\ janitor /\ CtxDone
    /\ janitor' = FALSE
    /\ UNCHANGED <<index, circ, q, store, closing, listed, workers, env>>

\* The steps of Close: the flag, the context, the shared circuits, the shards, each
\* circuit found, and the wait for the workers.
CloseStep ==
    \/ /\ setup.close /\ closing = "no" /\ closing' = "flag"
       /\ UNCHANGED <<circ, listed>>
    \/ /\ closing = "flag" /\ closing' = "cancelled"
       /\ UNCHANGED <<circ, listed>>
    \/ /\ closing = "cancelled" /\ closing' = "shared"
       /\ listed' = {entries[Shared]} \ {None}
       /\ UNCHANGED circ
    \/ /\ closing = "shared" /\ closing' = "listed"
       /\ listed' = listed \cup ({entries[t] : t \in Hosts} \ {None})
       /\ UNCHANGED circ
    \/ /\ closing = "listed"
       /\ \E c \in listed : listed' = listed \ {c} /\ StopBreaker(c)
       /\ UNCHANGED closing
    \/ /\ closing = "listed" /\ listed = {} /\ workers = {} /\ ~janitor
       /\ closing' = "done"
       /\ UNCHANGED <<circ, listed>>

Close == UNCHANGED <<index, q, store, janitor, workers, env>> /\ CloseStep

\* The prober of a circuit: canaries while the service is healthy.
Probe(c) ==
    /\ c \in Referred /\ ~circ[c].stopped
    /\ \/ circ[c].state = "open" /\ up /\ circ' = [circ EXCEPT ![c].state = "half"]
       \/ circ[c].state = "half" /\ ~up /\ circ' = [circ EXCEPT ![c].state = "open"]
    /\ UNCHANGED <<index, q, store, life, env>>

Outage == up /\ outages < setup.outages /\ up' = FALSE /\ outages' = outages + 1
          /\ UNCHANGED <<index, circ, q, store, life, setup>>

Restore == ~up /\ up' = TRUE /\ UNCHANGED <<index, circ, q, store, life, outages, setup>>

RoundTrip(r) ==
    \/ Enter(r) \/ Lookup(r) \/ Touch(r) \/ Insert(r) \/ Acquire(r) \/ Send(r) \/ Abandon(r)
    \/ Backoff(r) \/ Save(r) \/ TryDefer(r)

Next ==
    \/ \E r \in Requests : Start(r) \/ RoundTrip(r) \/ Panic(r)
    \/ Replay \/ Settle
    \/ \E c \in Circuits : RetireDone(c) \/ Probe(c)
    \/ Prune \/ JanitorStops \/ Close
    \/ Outage \/ Restore

Spec == Init /\ [][Next]_vars

\* Goroutines run; attempts end (RequestTimeout, ResponseHeaderTimeout); Append answers
\* (its fsync ends, or SyncTimeout passes) and a store that failed is opened again; the
\* service comes back and its probers notice; Close goes on once it has begun.
Fairness ==
    /\ \A r \in Callers : WF_vars(RoundTrip(r))
    /\ WF_vars(Replay \/ RoundTrip(Replayer) \/ Settle)
    /\ WF_vars(\E c \in Circuits : RetireDone(c)) /\ WF_vars(\E c \in Circuits : Probe(c))
    /\ WF_vars(JanitorStops) /\ WF_vars(Restore)
    /\ WF_vars(Close /\ closing # "no")

FairSpec == Spec /\ Fairness

-----------------------------------------------------------------------------
(* Properties.                                                               *)

(* The map, the LRU list and the bound agree under concurrent lookups,        *)
(* insertions, evictions and pruning: the list holds exactly the circuits of  *)
(* the hosts, each once, no more than MaxBreakers, and no two targets share   *)
(* one (getEntry's second look under the lock, pruneIdle).                    *)
IndexAgrees ==
    /\ ToSet(lru) = {entries[t] : t \in Hosts} \ {None}
    /\ IsInjective(lru) /\ Len(lru) <= setup.max
    /\ \A t1, t2 \in Targets : t1 # t2 /\ entries[t1] # None => entries[t1] # entries[t2]

(* Every way out of RoundTrip settles its accounts: the permit is given back, *)
(* to the circuit that issued it even if that was evicted meanwhile; the      *)
(* request body is closed; and exactly the response that is returned is left  *)
(* open.  After a panic only the permit is promised.                          *)
NothingLeaks ==
    /\ \A c \in Circuits :
         circ[c].inflight = Cardinality({r \in Requests : q[r].via = c /\ q[r].permit = "held"})
    /\ \A r \in Requests : q[r].pc = "done" =>
         /\ q[r].permit # "held"
         /\ q[r].result # "panic" =>
              ~q[r].body /\ q[r].open = (IF q[r].result = "response" THEN 1 ELSE 0)

(* A caller that is told its request was deferred can rely on it: the request *)
(* is in the store until a replay was answered, which finished or parked it,  *)
(* also when the replay began before Append had returned (tryDefer,           *)
(* ReplayHandler).  The converse does not hold: Append may report an error    *)
(* for a record that stays in the store and is sent later.                    *)
DeferredIsKept ==
    \A r \in Callers : q[r].result = "deferred" => r \in saved \cup sent \cup aside

(* When Close has returned no worker runs, and every circuit that a request   *)
(* or the index still has is stopped, evicted ones included; except circuits  *)
(* made after Close looked for them, which nothing stops.                     *)
CloseStopsAll ==
    closing = "done" =>
        /\ workers = {} /\ ~janitor
        /\ \A c \in Referred : circ[c].stopped \/ circ[c].late

(* Every RoundTrip returns, and so does Close, each being called once: in the *)
(* end nobody is inside one of them.                                          *)
Returns ==
    <>[](/\ \A r \in Callers : q[r].pc \in {"idle", "done"}
         /\ closing \in {"no", "done"})

(* Every saved request is eventually sent or set aside while the transport is *)
(* in use: whatever the circuits went through, evictions included, a replay   *)
(* gets through once the service is back.                                     *)
SavedIsSent == <>[](saved = {} \/ closing # "no")
=============================================================================
