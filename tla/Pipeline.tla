------------------------------ MODULE Pipeline ------------------------------
(***************************************************************************)
(* One message in a pipeline of steps (pipeline/pipeline.go): a live run   *)
(* (Execute) that stores the message when a step cannot finish, runs that  *)
(* resume it from its stored checkpoint (Handler, called by a Redriver),   *)
(* sagas, and the operator's Redrive.  A crash may come between any two    *)
(* steps.  The store and the services behind the steps are modelled by     *)
(* what the pipeline relies on: a service does a request once per          *)
(* idempotency key.                                                        *)
(***************************************************************************)
EXTENDS Integers, Sequences, FiniteSets, FiniteSetsExt, Functions

CONSTANTS
    Versions,      \* the pipelines that may be deployed: sequences of step names
    Compensable,   \* steps with a Compensate function
    Retried,       \* steps with in-process retries
    Setups,        \* [saga, live, again]: the Saga option; whether the message arrives
                   \* in Execute or in the store; how often it is delivered once more
    MaxAttempts,   \* RedriveConfig.MaxAttempts
    MaxFaults,     \* bound: failed calls, failed saves, crashes
    MaxRewinds,    \* bound: calls of Redrive
    MaxDeploys     \* bound: deployments

ASSUME PipelineAssumption ==
    /\ Versions # {} /\ <<>> \notin Versions
    /\ Versions \subseteq Seq(UNION {Range(v) : v \in Versions})
    /\ \A s \in Setups : s.saga \in BOOLEAN /\ s.live \in BOOLEAN /\ s.again \in Nat
    /\ MaxAttempts \in Nat \ {0}
    /\ MaxFaults \in Nat /\ MaxRewinds \in Nat /\ MaxDeploys \in Nat

VARIABLES
    setup, deployed,
    rec,       \* the record of the message in the store
    runs,      \* the live run and the resumed one
    standing,  \* effects in force: pairs of a step and the epoch of its key
    seen,      \* keys the services have seen
    unsure,    \* history: steps undone without a checkpoint that says so
    unaware,   \* history: a step was undone and a copy of the message goes on that cannot know
    acked,     \* the message has been acknowledged
    again, faults, rewinds, deploys

vars == <<setup, deployed, rec, runs, standing, seen, unsure, unaware, acked, again, faults, rewinds, deploys>>
env == <<setup, deployed, again, rewinds, deploys>>

Kinds == {"live", "redrive"}
NoRun == [at |-> "none"]

Checkpoint(completed, phase, compensated, epoch) ==
    [completed |-> completed, phase |-> phase, compensated |-> compensated, epoch |-> epoch]
newCheckpoint == Checkpoint(<<>>, "forward", {}, 0)
NoRecord == [st |-> "none"]
Record(st, cp, attempts) == [st |-> st, cp |-> cp, attempts |-> attempts]
NewRecord(st, cp) == Record(st, cp, 0)

Init ==
    /\ setup \in Setups /\ deployed \in Versions
    /\ rec = IF setup.live THEN NoRecord ELSE NewRecord("pending", newCheckpoint)
    /\ runs = [r \in Kinds |-> NoRun]
    /\ standing = {} /\ seen = {} /\ unsure = {} /\ unaware = FALSE
    /\ acked = ~setup.live
    /\ again = 0 /\ faults = 0 /\ rewinds = 0 /\ deploys = 0

Fault == faults < MaxFaults /\ faults' = faults + 1

\* load: the completed steps are the first steps of the deployed pipeline.
Fits(cp) ==
    /\ Len(cp.completed) <= Len(deployed)
    /\ \A i \in DOMAIN cp.completed : cp.completed[i] = deployed[i]

(***************************************************************************)
(* A run: it calls the next step, saves its progress if it resumes a       *)
(* stored record, and so on; "at" is what it does next, or how it ends.    *)
(***************************************************************************)
Go(r, at, cp) == runs' = [runs EXCEPT ![r] = [at |-> at, cp |-> cp]]
Saving(r) == IF r = "redrive" THEN "save" ELSE "call"

\* A service does what it is asked unless it has seen the key.
Does(key) ==
    /\ seen' = seen \cup {key}
    /\ standing' = IF key \in seen THEN standing ELSE standing \cup {key}

Undoes(s) ==
    /\ standing' = {key \in standing : key[1] # s}
    /\ unsure' = unsure \cup {s}
    /\ UNCHANGED seen

\* There is another copy of the message than the one of run r: the record that an earlier
\* delivery stored, or a later delivery.
OtherCopy(r) == IF r = "live" THEN rec # NoRecord ELSE runs["live"] # NoRun

\* What call returns for a step that failed: with in-process retries the marker of
\* a permanent failure is gone.
Returned(s, res) == IF res = "permanent" /\ s \in Retried THEN "failed" ELSE res

\* "failed": the call was made and failed, or timed out after it took effect;
\* "refused": the circuit is open; "interrupted": the caller is shutting down.
Errors == {"failed", "refused", "permanent", "interrupted"}

classify(res) == IF res = "failed" THEN "blocked" ELSE res

anyCompensation(cp) == Range(cp.completed) \cap Compensable # {}

\* A mutant of failed: the decision to compensate is not saved first.
failedUnsaved(r, cp, res) ==
    IF res = "permanent" /\ setup.saga /\ anyCompensation(cp)
    THEN Go(r, "call", [cp EXCEPT !.phase = "compensating"])
    ELSE Go(r, classify(res), cp)

failed(r, cp, res) ==
    IF res = "permanent" /\ setup.saga /\ anyCompensation(cp)
    THEN Go(r, Saving(r), [cp EXCEPT !.phase = "compensating"])
    ELSE Go(r, classify(res), cp)

advance(r) ==
    LET cp == runs[r].cp
        s == deployed[Len(cp.completed) + 1]
        key == <<s, cp.epoch>>
    IN /\ runs[r].at = "call" /\ cp.phase = "forward" /\ Len(cp.completed) < Len(deployed)
       /\ \/ /\ Does(key)
             /\ Go(r, Saving(r), [cp EXCEPT !.completed = Append(@, s)])
             /\ UNCHANGED faults
          \/ \E res \in Errors :
             /\ Fault
             /\ \/ res \in {"failed", "interrupted"} /\ Does(key)
                \/ (res = "permanent" => key \notin seen) /\ UNCHANGED <<seen, standing>>
             /\ failed(r, cp, Returned(s, res))
       /\ UNCHANGED <<env, rec, acked, unsure, unaware>>

ToUndo(cp) ==
    {i \in DOMAIN cp.completed : cp.completed[i] \in Compensable \ cp.compensated}

compensate(r) ==
    LET cp == runs[r].cp
        s == cp.completed[Max(ToUndo(cp))]
    IN /\ runs[r].at = "call" /\ cp.phase = "compensating" /\ ToUndo(cp) # {}
       /\ \/ /\ Undoes(s) /\ unaware' = (unaware \/ OtherCopy(r))
             /\ Go(r, Saving(r), [cp EXCEPT !.compensated = @ \cup {s}])
             /\ UNCHANGED faults
          \/ \E res \in Errors :
             /\ Fault
             /\ \/ /\ res \in {"failed", "interrupted"}
                   /\ Undoes(s) /\ unaware' = (unaware \/ OtherCopy(r))
                \/ UNCHANGED <<seen, standing, unsure, unaware>>
             /\ Go(r, classify(Returned(s, res)), cp)
       /\ UNCHANGED <<env, rec, acked>>

\* Item.Checkpoint, through save.
save(r) ==
    LET cp == runs[r].cp
    IN /\ runs[r].at = "save"
       /\ \/ /\ rec' = [rec EXCEPT !.cp = cp]
             /\ unsure' = unsure \ cp.compensated
             /\ Go(r, "call", cp) /\ UNCHANGED faults
          \/ Fault /\ Go(r, "unsaved", cp) /\ UNCHANGED <<rec, unsure>>
       /\ UNCHANGED <<env, standing, seen, unaware, acked>>

\* No step is left to run, or to undo.
Finish(r) ==
    LET cp == runs[r].cp
    IN /\ runs[r].at = "call"
       /\ \/ cp.phase = "forward" /\ Len(cp.completed) = Len(deployed) /\ Go(r, "nil", cp)
          \/ cp.phase = "compensating" /\ ToUndo(cp) = {} /\ Go(r, "permanent", cp)
       /\ UNCHANGED <<env, rec, standing, seen, unsure, unaware, acked, faults>>

(***************************************************************************)
(* What becomes of the message.                                            *)
(***************************************************************************)

\* The store keeps the record it has already.
Stored(st, cp) ==
    IF rec = NoRecord THEN rec' = NewRecord(st, cp) /\ unsure' = unsure \ cp.compensated
    ELSE UNCHANGED <<rec, unsure>>

\* A mutant of store: a message that was refused is acknowledged too.
storeOrNot(st, cp) ==
    \/ Stored(st, cp) /\ acked' = TRUE /\ UNCHANGED faults
    \/ Fault /\ acked' = TRUE /\ UNCHANGED <<rec, unsure>>

\* It may refuse a new one, or report an error although it has it (waitDurable).
store(st, cp) ==
    \/ Stored(st, cp) /\ acked' = TRUE /\ UNCHANGED faults
    \/ Fault /\ UNCHANGED <<rec, unsure, acked>>
    \/ Fault /\ Stored(st, cp) /\ UNCHANGED acked

Execute ==
    LET run == runs["live"]
    IN /\ \/ run.at = "nil" /\ acked' = TRUE /\ UNCHANGED <<rec, unsure, faults>>
          \/ run.at \in {"refused", "blocked"} /\ store("pending", run.cp)
          \/ run.at = "permanent" /\ store("parked", run.cp)
          \/ run.at = "interrupted" /\ UNCHANGED <<rec, unsure, acked, faults>>
       /\ runs' = [runs EXCEPT !["live"] = NoRun]
       /\ UNCHANGED <<env, standing, seen, unaware>>

\* A mutant of settle: a record whose step is unavailable stays leased.
settleKeeping(how) ==
    CASE how = "nil" -> NoRecord
      [] how \in {"refused", "interrupted", "blocked", "unsaved"} -> rec
      [] how = "permanent" -> [rec EXCEPT !.st = "parked"]

\* Redriver.settle.
settle(how) ==
    CASE how = "nil" -> NoRecord
      [] how \in {"refused", "interrupted"} -> Record("pending", rec.cp, rec.attempts - 1)
      [] how \in {"blocked", "unsaved"} ->
           [rec EXCEPT !.st = IF rec.attempts >= MaxAttempts THEN "parked" ELSE "pending"]
      [] how = "permanent" -> [rec EXCEPT !.st = "parked"]

Settle ==
    /\ runs["redrive"].at \notin {"none", "call", "save"}
    /\ rec' = settle(runs["redrive"].at)
    /\ runs' = [runs EXCEPT !["redrive"] = NoRun]
    /\ UNCHANGED <<env, standing, seen, unsure, unaware, acked, faults>>

\* The message is delivered, until it is acknowledged and perhaps once more.  Execute starts
\* from the beginning, whatever a run before it has undone.
Deliver ==
    /\ setup.live /\ runs["live"] = NoRun
    /\ ~acked \/ again < setup.again
    /\ again' = IF acked THEN again + 1 ELSE again
    /\ Go("live", "call", newCheckpoint)
    /\ unaware' = (unaware \/ standing # seen)
    /\ UNCHANGED <<setup, deployed, rec, standing, seen, unsure, acked, faults, rewinds, deploys>>

\* Handler: the Redriver leases the record and resumes it.
Handler ==
    /\ rec.st = "pending" /\ runs["redrive"] = NoRun
    /\ IF rec.attempts < MaxAttempts
       THEN /\ rec' = Record("leased", rec.cp, rec.attempts + 1)
            /\ Go("redrive", IF Fits(rec.cp) THEN "call" ELSE "permanent", rec.cp)
       ELSE rec' = Record("parked", rec.cp, rec.attempts + 1) /\ UNCHANGED runs
    /\ UNCHANGED <<env, standing, seen, unsure, unaware, acked, faults>>

\* The process ends; a lease it held expires.
Halt ==
    /\ runs' = [r \in Kinds |-> NoRun]
    /\ rec' = IF rec.st = "leased" THEN [rec EXCEPT !.st = "pending"] ELSE rec
    /\ UNCHANGED <<setup, standing, seen, unsure, unaware, acked, again, rewinds>>

Crash == (\E r \in Kinds : runs[r] # NoRun) /\ Fault /\ Halt /\ UNCHANGED <<deployed, deploys>>

Deploy ==
    /\ deploys < MaxDeploys /\ deploys' = deploys + 1
    /\ deployed' \in Versions \ {deployed}
    /\ Halt /\ UNCHANGED faults

(***************************************************************************)
(* The operator.                                                           *)
(***************************************************************************)

\* The checkpoint that resumes after the first n steps.
After(cp, n) ==
    Checkpoint(SubSeq(cp.completed, 1, n), "forward", {},
               IF cp.compensated = {} THEN cp.epoch ELSE cp.epoch + 1)

Resumable(cp) == {n \in 0..Len(cp.completed) : n < Len(deployed)}

\* Mutants of Rewind: it may resume after a step that was undone; it keeps the list
\* of undone steps.
RewindAnywhere(cp) == {After(cp, n) : n \in Resumable(cp)}

\* Rewind, for every step it accepts.
Rewind(cp) ==
    {After(cp, n) : n \in {m \in Resumable(cp) : \A i \in 1..m : cp.completed[i] \notin cp.compensated}}

\* The record resumes where it stopped, or at a step of the operator's choice.
Redrive ==
    /\ rec.st = "parked"
    /\ rewinds < MaxRewinds /\ rewinds' = rewinds + 1
    /\ \E cp \in {rec.cp} \cup IF Fits(rec.cp) THEN Rewind(rec.cp) ELSE {} :
         rec' = NewRecord("pending", cp)
    /\ UNCHANGED <<setup, deployed, runs, standing, seen, unsure, unaware, acked, again, faults, deploys>>

Settled == acked /\ rec.st \in {"none", "parked"} /\ \A r \in Kinds : runs[r] = NoRun

Rest == Settled /\ UNCHANGED vars

RunStep(r) == advance(r) \/ compensate(r) \/ save(r) \/ Finish(r)

Next ==
    \/ \E r \in Kinds : RunStep(r)
    \/ Execute \/ Settle \/ Deliver \/ Handler \/ Crash \/ Deploy \/ Redrive \/ Rest

Spec == Init /\ [][Next]_vars

\* Runs go on, an unacknowledged message is delivered again, and the redriver polls.
FairSpec ==
    /\ Spec
    /\ \A r \in Kinds : WF_vars(RunStep(r))
    /\ WF_vars(Execute) /\ WF_vars(Settle) /\ WF_vars(Handler)
    /\ WF_vars(~acked /\ Deliver)

(***************************************************************************)
(* Properties.                                                             *)
(***************************************************************************)
Known == {rec.cp : x \in {rec} \ {NoRecord}} \cup {runs[r].cp : r \in {q \in Kinds : runs[q] # NoRun}}
stands(s) == \E e \in 0..MaxRewinds : <<s, e>> \in standing

\* A checkpoint, stored or in a run, tells the truth about the services: what it
\* has as completed and not undone is in force, and what it has as undone is not;
\* so no step runs before those it builds on.  Except where a compensation took
\* effect and its checkpoint was lost, and once a copy of a live saga
\* goes on that cannot know what was undone.
CheckpointTellsTruth ==
    unaware \/ \A cp \in Known : \A s \in Range(cp.completed) \ unsure :
                  stands(s) <=> s \notin cp.compensated

\* An acknowledged message is never lost: it is stored, or every step of a deployed
\* pipeline is in force.
NeverLost ==
    acked /\ rec = NoRecord /\ ~unaware =>
        \E v \in Versions : \A s \in Range(v) : stands(s) \/ s \in unsure

\* "each checkpointed so a crash or an outage mid-way resumes compensating instead of
\* repeating or skipping" (Saga): once a step has been undone no run goes forward, until
\* the operator says so.
ResumesUndo ==
    rewinds = 0 /\ standing # seen =>
        \A r \in Kinds : runs[r] # NoRun => runs[r].cp.phase = "compensating"

\* So it is for every saga that is resumed from the store, and for one that Execute runs
\* until it is delivered again after a step was undone, or while there are two copies.
UndoGoesOn == IF unaware THEN setup.saga /\ setup.live ELSE ResumesUndo

\* Every message is finished or parked for a human in the end, whatever fails on
\* the way.
Settles == <>[]Settled

\* "Steps that run again without having been compensated keep their keys": the
\* effect of a step is never in force twice.
InForceOnce == \A x, y \in standing : x[1] = y[1] => x = y
=============================================================================
