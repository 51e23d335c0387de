------------------------------- MODULE Breaker -------------------------------
(***************************************************************************)
(* The circuit breaker (internal/breaker, breaker) and the health prober   *)
(* that may own its way out of the open state (health).  The breaker has no *)
(* lock: every step below is one atomic load, store or compare-and-swap of  *)
(* the code (or several that no other step can tell apart), and calls and   *)
(* probers interleave between them.                                         *)
(*                                                                          *)
(* A timestamp of the code is kept as its age, which Tick advances and      *)
(* which stops at MaxAge, past every duration it is compared with; a step   *)
(* that uses the clock reads it (the code does a few lines before).  The    *)
(* generation number of the prober is kept as whether it has changed.       *)
(* The rolling window is two counters that Forget empties.                  *)
(***************************************************************************)
EXTENDS Integers, FiniteSets

CONSTANTS
  Callers,          \* goroutines that make calls, one at a time each
  Leaky,            \* those that may never finish a Permit
  Impatient,        \* those that may cancel their calls
  Probers,          \* health prober goroutines
  CanWait, VIPs,    \* bulkhead: waiting, callers that bypass it
  MinSamples, FailureThreshold,    \* FailureThreshold in basis points
  SleepWindow, SuccessThreshold,
  DryRun,
  Setups,           \* the configurations and their users, see SetupsAssumption
  MaxCount,         \* bound: samples of one kind held by the window
  MaxAge            \* bound: where an age stops

ASSUME CallersAssumption == IsFiniteSet(Callers) /\ Leaky \subseteq Callers
                            /\ VIPs \subseteq Callers /\ Callers \cap Probers = {}
ASSUME LimitsAssumption == MinSamples \in Nat /\ SleepWindow \in Nat
                           /\ SuccessThreshold \in Nat \ {0}
                           /\ MaxCount \in Nat /\ MaxAge \in Nat /\ MaxAge > SleepWindow
                           /\ FailureThreshold \in Nat
(* Whether there is a health check, TrustHealth, MaxOpen (0: no fallback to  *)
(* the timer), MaxInflight (0: no limit), the callers there are, the values  *)
(* operators set the override to, whether breaker.Close may be called, and   *)
(* how often the dependency goes down, a bound.                              *)
ASSUME SetupsAssumption ==
  Setups \subseteq [gated : BOOLEAN, trust : BOOLEAN, maxOpen : 0..MaxAge, maxInflight : Nat,
                    callers : SUBSET Callers, overrides : SUBSET (0..2), closes : BOOLEAN,
                    maxOutages : Nat]

VARIABLES
  state,      \* "closed", "open" or "half"
  inflight, probing, override,
  setup,      \* what New was given, and who uses it
  failedAgo,  \* age of lastFailure
  probeAgo,   \* age of probeAt, Never while it is zero
  okCount, badCount,   \* the window
  pc,         \* where each caller and prober is
  running,    \* proberRunning
  closed,     \* breaker.Close has been called
  relapsed,   \* prober -> Generation differs from the one it counts for
  streak,     \* prober -> consecutive healthy probes
  up, outages     \* the dependency

circuit == <<state, probing, failedAgo, probeAgo>>
window == <<okCount, badCount>>
health == <<running, relapsed, streak>>
env == <<setup, override, closed, up, outages>>
vars == <<circuit, window, health, env, inflight, pc>>

Never == -1

(* A caller holds a slot of the bulkhead from acquire to its release.        *)
HoldsSlot == {"look", "open", "tohalf", "claim", "half", "stamp", "refuse",
              "admitted", "forced"}

Capped(n) == IF n < MaxAge THEN n + 1 ELSE n
Count(n) == IF n < MaxCount THEN n + 1 ELSE n

Goto(t, l) == pc' = [pc EXCEPT ![t] = l]

Init ==
  /\ state = "closed" /\ inflight = 0 /\ probing = FALSE /\ override = 0 /\ setup \in Setups
  /\ failedAgo = MaxAge /\ probeAgo = Never
  /\ okCount = 0 /\ badCount = 0
  /\ pc = [t \in Callers \cup Probers |-> IF t \in Callers THEN "idle" ELSE "off"]
  /\ running = FALSE /\ closed = FALSE
  /\ relapsed = [p \in Probers |-> FALSE]
  /\ streak = [p \in Probers |-> 0]
  /\ up = TRUE /\ outages = 0

-----------------------------------------------------------------------------
(* Admission: AllowEx.                                                       *)

Begin(t) ==
  /\ pc[t] = "idle" /\ t \in setup.callers
  /\ \/ override = 1 /\ UNCHANGED <<inflight, pc>>
     \/ override = 2 /\ inflight' = inflight + 1 /\ Goto(t, "forced")
     \/ override = 0 /\ Goto(t, "acquire") /\ UNCHANGED inflight
  /\ UNCHANGED <<circuit, window, health, env>>

(* Mutant: one call too many.                                                *)
HasRoomForOneMore(t) == setup.maxInflight = 0 \/ t \in VIPs \/ inflight <= setup.maxInflight

HasRoom(t) == setup.maxInflight = 0 \/ t \in VIPs \/ inflight < setup.maxInflight

(* acquire: a full bulkhead is tried once more after the wait, or given up   *)
(* when the caller's context ends.                                           *)
Acquire(t) ==
  /\ \/ /\ pc[t] \in {"acquire", "wait"} /\ HasRoom(t)
        /\ inflight' = inflight + 1 /\ Goto(t, "look")
     \/ /\ pc[t] = "acquire" /\ ~HasRoom(t)
        /\ Goto(t, IF CanWait THEN "wait" ELSE "idle") /\ UNCHANGED inflight
     \/ /\ pc[t] = "wait" /\ (~HasRoom(t) \/ t \in Impatient)
        /\ Goto(t, "idle") /\ UNCHANGED inflight
  /\ UNCHANGED <<circuit, window, health, env>>

Deny(t) == Goto(t, IF DryRun THEN "admitted" ELSE "refuse")

(* circuitAllows, its reading of the state.                                  *)
Look(t) ==
  /\ pc[t] = "look"
  /\ Goto(t, CASE state = "closed" -> "admitted" [] state = "open" -> "open" [] OTHER -> "half")
  /\ UNCHANGED <<circuit, window, health, env, inflight>>

(* The jitter is below a tenth of the sleep window.                          *)
Jitters == 0..(IF SleepWindow \div 10 > 0 THEN SleepWindow \div 10 - 1 ELSE 0)

OwnedByHealth == setup.gated /\ (setup.maxOpen = 0 \/ failedAgo < setup.maxOpen)

LookOpen(t) ==
  /\ pc[t] = "open"
  /\ \/ ~OwnedByHealth /\ (\E j \in Jitters : failedAgo > SleepWindow + j) /\ Goto(t, "tohalf")
     \/ (OwnedByHealth \/ \E j \in Jitters : failedAgo <= SleepWindow + j) /\ Deny(t)
  /\ UNCHANGED <<circuit, window, health, env, inflight>>

ToHalf(t) ==
  /\ pc[t] = "tohalf"
  /\ \/ /\ state = "open" /\ state' = "half" /\ Goto(t, "claim")
     \/ /\ state # "open" /\ Deny(t) /\ UNCHANGED state
  /\ UNCHANGED <<probing, failedAgo, probeAgo, window, health, env, inflight>>

Stamp(t) ==
  /\ pc[t] = "stamp"
  /\ probeAgo' = 0
  /\ Goto(t, "admitted")
  /\ UNCHANGED <<state, probing, failedAgo, window, health, env, inflight>>

(* Mutant: nobody takes over from a probe that never reports.                *)
ClaimOrWait(t) ==
  /\ \/ /\ pc[t] \in {"claim", "half"} /\ ~probing
        /\ probing' = TRUE /\ Goto(t, "stamp") /\ UNCHANGED probeAgo
     \/ /\ pc[t] \in {"claim", "half"} /\ probing
        /\ Deny(t) /\ UNCHANGED <<probing, probeAgo>>
  /\ UNCHANGED <<state, failedAgo, window, health, env, inflight>>

(* The caller that wins the probe slot is the canary.  One that finds it     *)
(* taken in a half-open circuit takes over from a probe that has not         *)
(* reported for a sleep window.                                              *)
Claim(t) ==
  /\ \/ /\ pc[t] \in {"claim", "half"} /\ ~probing
        /\ probing' = TRUE /\ Goto(t, "stamp") /\ UNCHANGED probeAgo
     \/ /\ pc[t] = "half" /\ probing
        /\ probeAgo # Never /\ probeAgo > SleepWindow
        /\ probeAgo' = 0
        /\ Goto(t, "admitted")
        /\ UNCHANGED probing
     \/ /\ probing
        /\ \/ pc[t] = "claim"
           \/ pc[t] = "half" /\ (probeAgo = Never \/ probeAgo <= SleepWindow)
        /\ Deny(t) /\ UNCHANGED <<probing, probeAgo>>
  /\ UNCHANGED <<state, failedAgo, window, health, env, inflight>>

(* A call the circuit refuses gives its slot back.                           *)
Refuse(t) ==
  /\ pc[t] = "refuse"
  /\ inflight' = inflight - 1 /\ Goto(t, "idle")
  /\ UNCHANGED <<circuit, window, health, env>>

-----------------------------------------------------------------------------
(* The end of a call: Permit.Success, Failure and Abandon.                   *)

Leave(t, l) ==
  /\ pc[t] \in {"admitted", "forced"}
  /\ inflight' = inflight - 1 /\ Goto(t, l)
  /\ UNCHANGED <<circuit, window, health, env>>

Succeed(t) == up /\ Leave(t, "ok")
Fail(t) == ~up /\ Leave(t, "bad")
Abandon(t) == t \in Impatient /\ Leave(t, "abandonLook")

(* Abandon frees the probe slot of a half-open circuit.                      *)
AbandonLook(t) ==
  /\ pc[t] = "abandonLook"
  /\ Goto(t, IF state = "half" THEN "free" ELSE "idle")
  /\ UNCHANGED <<circuit, window, health, env, inflight>>

FreeProbe(t) ==
  /\ pc[t] = "free"
  /\ probing' = FALSE /\ Goto(t, "idle")
  /\ UNCHANGED <<state, failedAgo, probeAgo, window, health, env, inflight>>

(* recordSuccess.                                                            *)
RecordOk(t) ==
  /\ pc[t] = "ok"
  /\ okCount' = Count(okCount) /\ Goto(t, "okClose")
  /\ UNCHANGED <<circuit, badCount, health, env, inflight>>

OkClose(t) ==
  /\ pc[t] = "okClose"
  /\ \/ state = "half" /\ state' = "closed" /\ Goto(t, "okReset")
     \/ state # "half" /\ Goto(t, "idle") /\ UNCHANGED state
  /\ UNCHANGED <<probing, failedAgo, probeAgo, window, health, env, inflight>>

Reset(t) ==
  /\ \/ pc[t] = "okReset" /\ Goto(t, "free")
     \/ pc[t] = "trustReset" /\ Goto(t, "pause")
  /\ okCount' = 0 /\ badCount' = 0
  /\ UNCHANGED <<circuit, health, env, inflight>>

(* recordFailure.                                                            *)
RecordBad(t) ==
  /\ pc[t] = "bad"
  /\ badCount' = Count(badCount) /\ Goto(t, "badStamp")
  /\ UNCHANGED <<circuit, okCount, health, env, inflight>>

BadStamp(t) ==
  /\ pc[t] = "badStamp"
  /\ failedAgo' = 0 /\ Goto(t, "badLook")
  /\ UNCHANGED <<state, probing, probeAgo, window, health, env, inflight>>

BadLook(t) ==
  /\ pc[t] = "badLook"
  /\ Goto(t, IF state = "half" THEN "badOpen" ELSE "badCount")
  /\ UNCHANGED <<circuit, window, health, env, inflight>>

(* FailureRateBps and the sample count.                                      *)
Tripping == okCount + badCount >= MinSamples /\ badCount > 0
            /\ (badCount * 10000) \div (okCount + badCount) >= FailureThreshold

BadCount(t) ==
  /\ pc[t] = "badCount"
  /\ Goto(t, IF Tripping THEN "trip" ELSE "idle")
  /\ UNCHANGED <<circuit, window, health, env, inflight>>

(* The transitions to open.                                                  *)
ToOpen(t) ==
  /\ \/ pc[t] = "badOpen" /\ state = "half" /\ Goto(t, "openedHalf")
     \/ pc[t] = "trip" /\ state = "closed" /\ Goto(t, "openedTrip")
     \/ pc[t] = "reopen" /\ state = "half" /\ Goto(t, "openedProbe")
  /\ state' = "open"
  /\ UNCHANGED <<probing, failedAgo, probeAgo, window, health, env, inflight>>

NotToOpen(t) ==
  /\ \/ pc[t] = "badOpen" /\ state # "half" /\ Goto(t, "idle")
     \/ pc[t] = "trip" /\ state # "closed" /\ Goto(t, "idle")
     \/ pc[t] = "reopen" /\ state # "half" /\ Goto(t, "pause")
  /\ UNCHANGED <<circuit, window, health, env, inflight>>

(* OnStateChange(_, StateOpen): count the opening, then startProber.         *)
Opened(t) ==
  /\ \/ pc[t] = "openedHalf" /\ Goto(t, "watchHalf")
     \/ pc[t] = "openedTrip" /\ Goto(t, "watchTrip")
     \/ pc[t] = "openedProbe" /\ Goto(t, "watchProbe")
  /\ relapsed' = [p \in Probers |-> TRUE]
  /\ UNCHANGED <<circuit, window, running, streak, env, inflight>>

After(l) == CASE l = "watchHalf" -> "free" [] l = "watchTrip" -> "idle" [] OTHER -> "restamp"

(* A new prober starts at the beginning of health.Run.                       *)
Launch(t, p) ==
  /\ pc[p] = "off"
  /\ pc' = [pc EXCEPT ![p] = "pause", ![t] = After(pc[t])]
  /\ running' = TRUE
  /\ relapsed' = [relapsed EXCEPT ![p] = FALSE]
  /\ streak' = [streak EXCEPT ![p] = 0]

(* Mutant: startProber ignores the flag.                                     *)
MayLaunchAgain == setup.gated /\ ~closed

MayLaunch == setup.gated /\ ~running /\ ~closed

StartProber(t) ==
  /\ pc[t] \in {"watchHalf", "watchTrip", "watchProbe"}
  /\ \/ MayLaunch /\ \E p \in Probers : Launch(t, p)
     \/ ~MayLaunch /\ Goto(t, After(pc[t])) /\ UNCHANGED health
  /\ UNCHANGED <<circuit, window, env, inflight>>

-----------------------------------------------------------------------------
(* The prober: health.Run with healthTarget as its target.                   *)

(* The pause ends: leave when the circuit is closed, otherwise probe, and    *)
(* count afresh when the circuit has opened since.                           *)
Wake(p) ==
  /\ pc[p] = "pause"
  /\ \/ /\ closed \/ state = "closed"
        /\ Goto(p, "release") /\ UNCHANGED <<relapsed, streak>>
     \/ /\ ~closed /\ state # "closed"
        /\ Goto(p, "probe")
        /\ relapsed' = [relapsed EXCEPT ![p] = FALSE]
        /\ streak' = [streak EXCEPT ![p] = IF relapsed[p] THEN 0 ELSE @]
  /\ UNCHANGED <<circuit, window, running, env, inflight>>

WhenHealthy(n) == IF n < SuccessThreshold THEN "pause" ELSE IF setup.trust THEN "trust" ELSE "begin"

Longer(n) == IF n < SuccessThreshold THEN n + 1 ELSE n

(* The check answers, and Result acts on the outcome.                        *)
Probe(p) ==
  /\ pc[p] = "probe"
  /\ \/ closed /\ Goto(p, "release") /\ UNCHANGED streak
     \/ /\ ~closed /\ up
        /\ streak' = [streak EXCEPT ![p] = Longer(@)]
        /\ Goto(p, WhenHealthy(Longer(streak[p])))
     \/ /\ ~closed /\ ~up
        /\ streak' = [streak EXCEPT ![p] = 0] /\ Goto(p, "reopen")
  /\ UNCHANGED <<circuit, window, running, relapsed, env, inflight>>

(* ReopenFromProbe restarts the open clock and frees the probe slot.         *)
Restamp(p) ==
  /\ pc[p] = "restamp"
  /\ failedAgo' = 0 /\ probing' = FALSE /\ Goto(p, "pause")
  /\ UNCHANGED <<state, probeAgo, window, health, env, inflight>>

(* BeginProbe and ResetClosed free the probe slot first.                     *)
FreeFirst(p) ==
  /\ \/ pc[p] = "begin" /\ Goto(p, "beginHalf")
     \/ pc[p] = "trust" /\ Goto(p, "trustHalf")
  /\ probing' = FALSE
  /\ UNCHANGED <<state, failedAgo, probeAgo, window, health, env, inflight>>

BeginHalf(p) ==
  /\ pc[p] = "beginHalf"
  /\ \/ state = "open" /\ state' = "half"
     \/ state # "open" /\ UNCHANGED state
  /\ Goto(p, "pause")
  /\ UNCHANGED <<probing, failedAgo, probeAgo, window, health, env, inflight>>

ResetClosed(p) ==
  /\ \/ /\ pc[p] = "trustHalf" /\ state = "half" /\ state' = "closed" /\ Goto(p, "trustReset")
     \/ /\ pc[p] = "trustHalf" /\ state # "half" /\ Goto(p, "trustOpen") /\ UNCHANGED state
     \/ /\ pc[p] = "trustOpen" /\ state = "open" /\ state' = "closed" /\ Goto(p, "trustReset")
     \/ /\ pc[p] = "trustOpen" /\ state # "open" /\ Goto(p, "pause") /\ UNCHANGED state
  /\ UNCHANGED <<probing, failedAgo, probeAgo, window, health, env, inflight>>

Release(p) ==
  /\ pc[p] = "release"
  /\ running' = FALSE /\ Goto(p, "recheck")
  /\ UNCHANGED <<circuit, window, relapsed, streak, env, inflight>>

(* Mutant: the prober ends without looking at the circuit again.             *)
RecheckNever(p) ==
  /\ pc[p] = "recheck" /\ Goto(p, "off")
  /\ UNCHANGED <<circuit, window, health, env, inflight>>

(* Having given up the flag, look again whether the circuit needs watching.  *)
Recheck(p) ==
  /\ pc[p] = "recheck"
  /\ Goto(p, IF closed \/ state = "closed" THEN "off" ELSE "again")
  /\ UNCHANGED <<circuit, window, health, env, inflight>>

Again(p) ==
  /\ pc[p] = "again"
  /\ \/ running /\ Goto(p, "off") /\ UNCHANGED health
     \/ /\ ~running /\ running' = TRUE /\ Goto(p, "pause")
        /\ relapsed' = [relapsed EXCEPT ![p] = FALSE]
        /\ streak' = [streak EXCEPT ![p] = 0]
  /\ UNCHANGED <<circuit, window, env, inflight>>

-----------------------------------------------------------------------------
(* The environment.                                                          *)

Older(n) == IF n = Never THEN n ELSE Capped(n)

Tick ==
  /\ failedAgo' = Capped(failedAgo) /\ probeAgo' = Older(probeAgo)
  /\ UNCHANGED <<state, probing, window, health, env, inflight, pc>>

(* The window moves on.                                                      *)
Forget ==
  /\ okCount + badCount > 0
  /\ okCount' = 0 /\ badCount' = 0
  /\ UNCHANGED <<circuit, health, env, inflight, pc>>

Outage ==
  /\ up /\ outages < setup.maxOutages
  /\ up' = FALSE /\ outages' = outages + 1
  /\ UNCHANGED <<circuit, window, health, setup, override, closed, inflight, pc>>

Repair ==
  /\ ~up /\ up' = TRUE
  /\ UNCHANGED <<circuit, window, health, setup, override, closed, outages, inflight, pc>>

SetOverride ==
  /\ override' \in setup.overrides \ {override}
  /\ UNCHANGED <<circuit, window, health, setup, closed, up, outages, inflight, pc>>

Close ==
  /\ setup.closes /\ ~closed /\ closed' = TRUE
  /\ UNCHANGED <<circuit, window, health, setup, override, up, outages, inflight, pc>>

Admit(t) == Begin(t) \/ Acquire(t) \/ Look(t) \/ LookOpen(t) \/ ToHalf(t) \/ Claim(t)
            \/ Stamp(t) \/ Refuse(t)

Finish(t) == Succeed(t) \/ Fail(t) \/ Abandon(t)

Record(t) == AbandonLook(t) \/ FreeProbe(t) \/ RecordOk(t) \/ OkClose(t)
             \/ RecordBad(t) \/ BadStamp(t) \/ BadLook(t) \/ BadCount(t)

Shared(t) == Reset(t) \/ ToOpen(t) \/ NotToOpen(t) \/ Opened(t) \/ StartProber(t)

Watch(p) == Wake(p) \/ Probe(p) \/ Restamp(p) \/ FreeFirst(p) \/ BeginHalf(p) \/ ResetClosed(p)
            \/ Release(p) \/ Recheck(p) \/ Again(p)

Next ==
  \/ Tick \/ Forget \/ Outage \/ Repair \/ SetOverride \/ Close
  \/ \E t \in Callers : Admit(t) \/ Finish(t) \/ Record(t) \/ Shared(t)
  \/ \E p \in Probers : Watch(p) \/ Shared(p)

Spec == Init /\ [][Next]_vars

(* Goroutines run, the clock advances, calls keep arriving, outages end, a   *)
(* caller that does not leak its Permit finishes it, and one that may cancel *)
(* does not cancel every call.                                               *)
Fairness ==
  /\ WF_vars(Tick) /\ WF_vars(Repair)
  /\ \A t \in Callers : WF_vars(Admit(t) \/ Record(t) \/ Shared(t))
  /\ \A t \in Callers \ Leaky : SF_vars(Succeed(t))
  /\ \A p \in Probers : WF_vars(Watch(p) \/ Shared(p))

FairSpec == Spec /\ Fairness

-----------------------------------------------------------------------------
(* Properties.                                                               *)

Holders == {t \in Callers : pc[t] \in HoldsSlot}

(* The bulkhead holds whatever way calls end: inflight counts exactly the    *)
(* calls between acquire and their one release, and those that went through  *)
(* the bulkhead never exceed MaxInflight (priority callers and calls         *)
(* admitted by an override do not go through it).                            *)
BulkheadHolds ==
  /\ inflight = Cardinality(Holders)
  /\ setup.maxInflight > 0 =>
       Cardinality({t \in Holders \ VIPs : pc[t] # "forced"}) <= setup.maxInflight

Running(p) == pc[p] \notin {"off", "recheck", "again"}

(* Never two probers in health.Run, and the flag says whether there is one.  *)
OneProber == /\ Cardinality({p \in Probers : Running(p)}) <= 1
             /\ running <=> \E p \in Probers : Running(p)

(* A health-gated circuit is never left open with nobody watching: a prober  *)
(* runs, or one is about to look again, or whoever opened the circuit has    *)
(* yet to start one.                                                         *)
NeverUnwatched ==
  setup.gated /\ ~closed /\ state # "closed" =>
    \/ \E p \in Probers : pc[p] # "off"
    \/ \E t \in Callers : pc[t] \in {"openedHalf", "openedTrip", "watchHalf", "watchTrip"}

(* No operator holds the circuit open, nobody closes the breaker, and leaked *)
(* permits do not fill the bulkhead.                                         *)
LeftAlone == setup.overrides = {} /\ ~setup.closes /\ setup.maxInflight = 0

(* After the last outage, which ends, the circuit closes and stays closed,   *)
(* whatever permits leaked, calls were cancelled and results came in late.   *)
Recovers == LeftAlone => <>[](state = "closed")

=============================================================================
