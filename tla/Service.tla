------------------------------ MODULE Service ------------------------------
(***************************************************************************)
(* The Kafka service (kafka/service.go): what NewService opens, Run, which   *)
(* runs the consumer and the redriver, and Close, with crashes and           *)
(* reconfigurations in between.  The consumer and the redriver are as Secure *)
(* has them: they use the store as long as they run.                         *)
(***************************************************************************)
EXTENDS Secure

CONSTANTS
    Owned,      \* sets of what the service opens itself; clients and breakers may be given
    MaxStarts   \* bound: how often NewService is called

ASSUME OwnedAssumption == \A o \in Owned : "store" \in o /\ o \subseteq {"breakers", "store", "client"}

\* In the order in which NewService opens them, and Close closes them.
Opening == <<"breakers", "store", "client">>
Closing == <<"breakers", "client", "store">>

VARIABLES
    owns,      \* chosen once: what this service opens itself
    opened,    \* what is open of it
    life,      \* the service: "down", "building", "built", "closing"
    step,      \* how far NewService or Close is
    run,       \* Run: "no", "running", "stopping", "done"
    stopped,   \* the context of Run is done
    parts,     \* which of the two are running
    starts

svcVars == <<owns, opened, life, step, run, stopped, parts, starts>>
vars == <<storeVars, secureVars, svcVars>>

Both == {"consumer", "redriver"}

Init ==
    /\ SecureInit
    /\ owns \in Owned
    /\ opened = {} /\ life = "down" /\ step = 1
    /\ run = "no" /\ stopped = FALSE /\ parts = {} /\ starts = 0

-----------------------------------------------------------------------------
(* NewService.                                                               *)

NewService(c, p) ==
    /\ life = "down" /\ starts < MaxStarts
    /\ Start(c, p)
    /\ life' = "building" /\ step' = 1 /\ starts' = starts + 1
    /\ run' = "no" /\ stopped' = FALSE
    /\ UNCHANGED <<owns, opened, parts>>

\* One part is opened, if the service is to open it; after the last NewService returns.
\* If it fails, here or in building the consumer and the redriver, it closes.
Build ==
    /\ life = "building"
    /\ \/ /\ step <= 3
          /\ opened' = opened \cup ({Opening[step]} \cap owns)
          /\ step' = step + 1
          /\ UNCHANGED life
       \/ /\ step = 4 /\ life' = "built" /\ step' = 1
          /\ UNCHANGED opened
       \/ /\ life' = "closing" /\ step' = 1
          /\ UNCHANGED opened
    /\ UNCHANGED <<storeVars, secureVars, owns, run, stopped, parts, starts>>

-----------------------------------------------------------------------------
(* Run.  Once Close has begun it is refused.                                 *)

Run ==
    /\ life = "built" /\ run = "no"
    /\ run' = "running" /\ parts' = Both
    /\ UNCHANGED <<storeVars, secureVars, owns, opened, life, step, stopped, starts>>

\* The caller's context ends.
CancelRun ==
    /\ run = "running" /\ ~stopped
    /\ stopped' = TRUE
    /\ UNCHANGED <<storeVars, secureVars, owns, opened, life, step, run, parts, starts>>

\* Mutant: the other one goes on.
FirstOnly == UNCHANGED <<stopped, run>>

\* Run after one of the two has stopped: stop() ends the other one.
StopOther == stopped' = TRUE /\ run' = "stopping"

\* The consumer stops, its messages unfinished, or the redriver, its record released;
\* because they were told to or with an error.  A consumer that hangs does not stop.
PartStops(x) ==
    /\ x \in parts /\ ~(x = "consumer" /\ Hung)
    /\ parts' = parts \ {x}
    /\ IF run = "running" THEN StopOther ELSE UNCHANGED <<stopped, run>>
    /\ \/ /\ x = "consumer"
          /\ source' = [p \in Sources |-> AtRest(source[p].next)]
          /\ UNCHANGED <<storeVars, job>>
       \/ /\ x = "redriver"
          /\ job' = NoJob
          /\ IF job.pc = "idle" THEN UNCHANGED storeVars ELSE Release(job.id, job.token)
          /\ UNCHANGED source
    /\ UNCHANGED <<config, sealedBy, finished, discarded, owns, opened, life, step, starts>>

RunReturns ==
    /\ run = "stopping" /\ parts = {}
    /\ run' = "done"
    /\ UNCHANGED <<storeVars, secureVars, owns, opened, life, step, stopped, parts, starts>>

-----------------------------------------------------------------------------
(* Close: the flag and the context, the wait for Run, then what was opened.  *)

CloseBegins ==
    /\ life = "built"
    /\ life' = "closing" /\ step' = 1
    /\ stopped' = TRUE
    /\ UNCHANGED <<storeVars, secureVars, owns, opened, run, parts, starts>>

\* Mutant: Close does not wait for Run.
NotAwaited == TRUE

RunAwaited == run \in {"no", "done"}

CloseStep ==
    /\ life = "closing" /\ RunAwaited
    /\ IF step <= 3
         THEN opened' = opened \ {Closing[step]} /\ step' = step + 1 /\ UNCHANGED life
         ELSE life' = "down" /\ step' = 1 /\ UNCHANGED opened
    /\ UNCHANGED <<storeVars, secureVars, owns, run, stopped, parts, starts>>

-----------------------------------------------------------------------------
\* The process dies, and with it everything that was open.
Crash ==
    /\ life # "down"
    /\ opened' = {} /\ life' = "down" /\ step' = 1
    /\ run' = "no" /\ parts' = {} /\ stopped' = FALSE
    /\ source' = [p \in Sources |-> AtRest(source[p].next)] /\ job' = NoJob
    /\ UNCHANGED <<storeVars, config, sealedBy, finished, discarded, owns, starts>>

ConsumerStep ==
    /\ ~Hung
    /\ \E p \in Sources :
         Fetch(p) \/ Ask(p) \/ Handle(p) \/ OrderKey(p) \/ Save(p) \/ Unstorable(p)
RedriverStep == (\E id \in Ids : LeaseSealed(id)) \/ OpenRecord \/ Finish

Work ==
    /\ \/ "consumer" \in parts /\ ConsumerStep
       \/ "redriver" \in parts /\ RedriverStep
       \/ \E id \in Ids : "store" \in opened /\ Operate(id)
    /\ UNCHANGED svcVars

Offline ==
    /\ life = "down" /\ starts < MaxStarts
    /\ \E c \in DOMAIN Configs : Reseal(c)
    /\ UNCHANGED svcVars

Next ==
    \/ \E c \in DOMAIN Configs, p \in Sources : NewService(c, p)
    \/ Build \/ Run \/ CancelRun \/ RunReturns
    \/ \E x \in Both : PartStops(x)
    \/ CloseBegins \/ CloseStep \/ Crash
    \/ Work \/ Offline

Spec == Init /\ [][Next]_vars

\* Consumer and redriver stop when told to, unless the consumer hangs; Run and Close go on.
Fairness ==
    /\ \A x \in Both : WF_vars(stopped /\ PartStops(x))
    /\ WF_vars(RunReturns) /\ WF_vars(CloseStep)

FairSpec == Spec /\ Fairness

-----------------------------------------------------------------------------
(* The service releases everything it opened and nothing while it is in use: *)
(* as long as the consumer or the redriver runs all of it is open, and when  *)
(* Close has returned, or NewService has failed at whatever step, nothing is *)
(* ("if it fails after that it closes what it opened", NewService).          *)
ReleasedLast ==
    /\ parts # {} => opened = owns
    /\ life = "down" => opened = {} /\ parts = {}

(* Close returns, and Run does once its context ends or one of its two parts *)
(* stopped ("When one stops the other is stopped too", Service.Run), unless  *)
(* the consumer hangs on a message behind one that could not be stored.      *)
Stops ==
    /\ life = "closing" ~> life = "down" \/ Hung
    /\ (run # "no" /\ parts # Both) ~> run \in {"no", "done"} \/ Hung
=============================================================================
