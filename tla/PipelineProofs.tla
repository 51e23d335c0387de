--------------------------- MODULE PipelineProofs ---------------------------
(***************************************************************************)
(* What a checkpoint says of the services is true, no acknowledged message  *)
(* is lost and a compensation goes on, for any pipelines, faults, crashes,   *)
(* deployments and interventions of an operator.                             *)
(***************************************************************************)
EXTENDS Pipeline, FiniteSetTheorems, WellFoundedInduction, TLAPS

\* A leaf goes to Zenon, or to Z3 where it says so.
USE ZenonT(20), SMTT(30)

-----------------------------------------------------------------------------
(* The inductive invariant.                                                  *)

Steps == UNION {Range(v) : v \in Versions}

Checkpoints ==
  [completed : Seq(Steps), phase : {"forward", "compensating"}, compensated : SUBSET Steps, epoch : Nat]
Records == [st : {"pending", "leased", "parked"}, cp : Checkpoints, attempts : Int]
Ends == {"unsaved", "nil", "blocked", "refused", "permanent", "interrupted"}
Runs == [at : {"call", "save"} \cup Ends, cp : Checkpoints]

Types ==
  /\ setup \in Setups /\ deployed \in Versions
  /\ rec \in Records \cup {NoRecord}
  /\ runs \in [Kinds -> Runs \cup {NoRun}]
  /\ standing \subseteq seen /\ seen \subseteq Steps \X (0..rewinds)
  /\ acked \in BOOLEAN /\ rewinds \in 0..MaxRewinds

\* The checkpoint knows what became of the keys it may use again.
Knows(cp) ==
  \A x \in seen :
    /\ x[2] <= cp.epoch
    /\ x[2] = cp.epoch /\ x[1] \notin cp.compensated => stands(x[1]) \/ x[1] \in unsure

Honest(cp) ==
  /\ cp.epoch <= rewinds
  /\ cp.phase = "forward" => cp.compensated = {}
  /\ \A s \in cp.compensated : ~stands(s)
  /\ \A s \in Range(cp.completed) \ cp.compensated : stands(s) \/ s \in unsure
  /\ Knows(cp)

\* Without sagas nothing is undone.
Plain == ~setup.saga => standing = seen /\ \A cp \in Known : cp.phase = "forward"

\* As long as nothing has been undone nobody says so, and all keys are the first ones.
Untouched ==
  standing = seen =>
    /\ unsure = {} /\ \A x \in seen : x[2] = 0
    /\ \A cp \in Known : cp.compensated = {} /\ cp.epoch = 0

\* Once something has been undone a live run is the one that undoes, and there is no record.
Alone ==
  runs["live"] # NoRun =>
    standing = seen \/ (rec = NoRecord /\ runs["live"].cp.phase = "compensating")

\* The record of a run that resumes it is leased, and is as the run saved it last.
Resumed ==
  LET run == runs["redrive"] IN
  run # NoRun =>
    /\ rec # NoRecord /\ rec.st = "leased"
    /\ run.cp.epoch = rec.cp.epoch
    /\ run.at = "call" => run.cp = rec.cp
    /\ rec.cp.phase = "compensating" => run.cp.phase = "compensating"

\* A live run is of a message that arrives in Execute, and saves nothing.
Live ==
  /\ runs["live"] # NoRun => setup.live
  /\ runs["live"].at # "save"

\* A run goes along the steps of the pipeline, and is done after the last.
OnCourse ==
  \A r \in Kinds :
    /\ runs[r].at \in {"call", "save", "nil"} => Fits(runs[r].cp)
    /\ runs[r].at = "nil" => runs[r].cp.phase = "forward" /\ Len(runs[r].cp.completed) = Len(deployed)

\* Once something was undone the record says so.
Undoing == rewinds = 0 /\ standing # seen /\ rec # NoRecord => rec.cp.phase = "compensating"

\* What NeverLost says while nobody is unaware.
Kept == acked /\ rec = NoRecord => \E v \in Versions : \A s \in Range(v) : stands(s) \/ s \in unsure

Inv ==
  /\ Types /\ Plain /\ Untouched /\ Alone /\ Resumed /\ Live /\ OnCourse /\ Undoing /\ Kept
  /\ \A cp \in Known : Honest(cp)

\* Only a saga that arrives in Execute can forget what it has undone.
Mindful == IF unaware THEN setup.saga /\ setup.live ELSE Inv

-----------------------------------------------------------------------------
(* Numbers.                                                                  *)

(* Every non-empty set of natural numbers has a least element.               *)
LEMMA Least ==
  ASSUME NEW S \in SUBSET Nat, S # {}
  PROVE  \E n \in S : \A m \in S : n <= m
<1>1. IsWellFoundedOn(OpToRel(<, Nat), Nat)
  BY NatLessThanWellFounded
<1>2. PICK n \in S : \A m \in S : ~(<<m, n>> \in OpToRel(<, Nat))
  BY <1>1, WFMin
<1>3. \A m \in S : ~(m < n)
  BY <1>2 DEF OpToRel
<1> QED  BY <1>3, SMTT(30)

(* A bounded set of numbers has a greatest one.                              *)
LEMMA Greatest ==
  ASSUME NEW n \in Nat, NEW S \in SUBSET (1..n), S # {}
  PROVE  Max(S) \in S
<1>. DEFINE T == {n - x : x \in S}
<1>0. \A x \in S : n - x \in Nat /\ x \in Nat
  BY SMTT(30)
<1>1. T \in SUBSET Nat /\ T # {}
  BY <1>0
<1>2. PICK d \in T : \A e \in T : d <= e
  <2>. HIDE DEF T
  <2> QED  BY <1>1, Least
<1>3. PICK x \in S : d = n - x
  OBVIOUS
<1>4. \A y \in S : n - x <= n - y
  BY <1>2, <1>3
<1>5. \A y \in S : x >= y
  BY <1>0, <1>4, SMTT(30)
<1> QED  BY <1>5 DEF Max

-----------------------------------------------------------------------------
(* Shapes.                                                                   *)

(* A pipeline is a sequence of steps.                                        *)
LEMMA VersionIs ==
  ASSUME NEW v \in Versions
  PROVE  /\ v \in Seq(Steps) /\ Len(v) \in Nat /\ DOMAIN v = 1..Len(v)
         /\ \A i \in 1..Len(v) : v[i] \in Steps
<1>1. v \in Seq(Steps)
  BY PipelineAssumption DEF Steps
<1> QED  BY <1>1, SMTT(30)

(* The fields of a checkpoint.                                               *)
LEMMA CheckpointIs ==
  ASSUME NEW cp \in Checkpoints
  PROVE  /\ cp.completed \in Seq(Steps) /\ Len(cp.completed) \in Nat
         /\ DOMAIN cp.completed = 1..Len(cp.completed)
         /\ \A i \in 1..Len(cp.completed) : cp.completed[i] \in Steps
         /\ cp.epoch \in Nat /\ cp.compensated \in SUBSET Steps
         /\ cp.phase \in {"forward", "compensating"}
BY SMTT(30) DEF Checkpoints

(* Checkpoint makes a checkpoint of its arguments.                           *)
LEMMA MadeCheckpoint ==
  ASSUME NEW completed \in Seq(Steps), NEW phase \in {"forward", "compensating"},
         NEW compensated \in SUBSET Steps, NEW epoch \in Nat, NEW cp,
         cp = Checkpoint(completed, phase, compensated, epoch)
  PROVE  /\ cp \in Checkpoints /\ cp.completed = completed /\ cp.phase = phase
         /\ cp.compensated = compensated /\ cp.epoch = epoch
BY SMTT(30) DEF Checkpoint, Checkpoints

(* Record makes a record of its arguments.                                   *)
LEMMA MadeRecord ==
  ASSUME NEW st \in {"pending", "leased", "parked"}, NEW cp \in Checkpoints, NEW n \in Int, NEW x,
         x = Record(st, cp, n)
  PROVE  x \in Records /\ x.st = st /\ x.cp = cp /\ x # NoRecord
BY SMTT(30) DEF Record, Records, NoRecord

(* The fields of a record.                                                   *)
LEMMA RecordIs ==
  ASSUME NEW x \in Records
  PROVE  /\ x # NoRecord /\ x.st \in {"pending", "leased", "parked"} /\ x.cp \in Checkpoints
         /\ x.attempts \in Int
BY SMTT(30) DEF Records, NoRecord

(* What a run is made of.                                                    *)
LEMMA MadeRun ==
  ASSUME NEW at \in {"call", "save"} \cup Ends, NEW cp \in Checkpoints, NEW x, x = [at |-> at, cp |-> cp]
  PROVE  x \in Runs /\ x.at = at /\ x.cp = cp /\ x # NoRun
BY SMTT(30) DEF Runs, NoRun, Ends

(* The fields of a run.                                                      *)
LEMMA RunIs ==
  ASSUME NEW x \in Runs
  PROVE  x # NoRun /\ x.at \in {"call", "save"} \cup Ends /\ x.cp \in Checkpoints /\ x.at # "none"
BY SMTT(30) DEF Runs, NoRun, Ends

(* What stands for no run and no record says so.                             *)
LEMMA NoneIs == NoRun.at = "none" /\ NoRecord.st = "none"
BY DEF NoRun, NoRecord

(* What is there has its type.                                               *)
LEMMA TypesAre ==
  ASSUME Types
  PROVE  /\ \A r \in Kinds : runs[r] # NoRun => runs[r] \in Runs /\ runs[r].cp \in Checkpoints
         /\ \A r \in Kinds : runs[r].at # "none" => runs[r] # NoRun
         /\ rec # NoRecord => rec \in Records /\ rec.cp \in Checkpoints
         /\ rec.st # "none" => rec # NoRecord
BY RunIs, RecordIs, NoneIs DEF Types

(* The checkpoints there are, before and after a step.                       *)
LEMMA KnownIs ==
  /\ \A cp : cp \in Known <=> \/ rec # NoRecord /\ cp = rec.cp
                              \/ \E r \in Kinds : runs[r] # NoRun /\ cp = runs[r].cp
  /\ \A cp : cp \in Known' <=> \/ rec' # NoRecord /\ cp = rec'.cp
                               \/ \E r \in Kinds : runs'[r] # NoRun /\ cp = runs'[r].cp
BY DEF Known, NoRun, NoRecord

(* All checkpoints there are have the type.                                  *)
LEMMA KnownTypes ==
  ASSUME Types
  PROVE  \A cp \in Known : cp \in Checkpoints
<1>1. SUFFICES ASSUME NEW cp \in Known PROVE cp \in Checkpoints
  OBVIOUS
<1>2. CASE rec # NoRecord /\ cp = rec.cp
  BY <1>2, TypesAre
<1>3. ASSUME NEW r \in Kinds, runs[r] # NoRun, cp = runs[r].cp PROVE cp \in Checkpoints
  BY <1>3, TypesAre
<1> QED  BY <1>2, <1>3, KnownIs

(* Go moves one run and leaves the other alone.                              *)
LEMMA GoIs ==
  ASSUME Types, NEW r \in Kinds, NEW at \in {"call", "save"} \cup Ends, NEW cp \in Checkpoints, Go(r, at, cp)
  PROVE  /\ runs' \in [Kinds -> Runs \cup {NoRun}]
         /\ runs'[r] # NoRun /\ runs'[r].at = at /\ runs'[r].cp = cp
         /\ \A q \in Kinds \ {r} : runs'[q] = runs[q]
<1>. DEFINE x == [at |-> at, cp |-> cp]
<1>1. x \in Runs /\ x.at = at /\ x.cp = cp /\ x # NoRun
  BY MadeRun
<1>2. runs' = [runs EXCEPT ![r] = x]
  BY DEF Go
<1>. HIDE DEF x
<1> QED  BY <1>1, <1>2 DEF Types

-----------------------------------------------------------------------------
(* What a step does to the services, and what checkpoints say after it.      *)

(* A checkpoint stays true when nothing happens at the services.             *)
LEMMA HonestSame ==
  ASSUME NEW cp, Honest(cp), UNCHANGED <<standing, seen, unsure, rewinds>>
  PROVE  Honest(cp)'
BY DEF Honest, Knows, stands

(* A service was asked to do something.                                      *)
LEMMA DoesIs ==
  ASSUME Types, NEW s \in Steps, NEW e \in Nat, e <= rewinds, Does(<<s, e>>), UNCHANGED rewinds
  PROVE  /\ standing \subseteq standing' /\ standing' \subseteq seen' /\ seen' = seen \cup {<<s, e>>}
         /\ seen' \subseteq Steps \X (0..rewinds')
         /\ standing = seen <=> standing' = seen'
         /\ <<s, e>> \notin seen => stands(s)'
         /\ \A t : stands(t) => stands(t)'
<1>1. e \in 0..rewinds /\ e \in 0..MaxRewinds
  BY PipelineAssumption, SMTT(30) DEF Types
<1>2. seen' = seen \cup {<<s, e>>} /\ standing' = IF <<s, e>> \in seen THEN standing ELSE standing \cup {<<s, e>>}
  BY DEF Does
<1>3. seen' \subseteq Steps \X (0..rewinds')
  BY <1>1, <1>2, SMTT(30) DEF Types
<1>4. <<s, e>> \notin seen => stands(s)'
  BY <1>1, <1>2 DEF stands
<1>5. \A t : stands(t) => stands(t)'
  BY <1>2 DEF stands
<1>6. standing = seen <=> standing' = seen'
  <2>1. CASE <<s, e>> \in seen
    <3>1. seen' = seen /\ standing' = standing
      BY <1>2, <2>1
    <3> QED  BY <3>1
  <2>2. CASE <<s, e>> \notin seen
    <3>1. standing' = standing \cup {<<s, e>>} /\ <<s, e>> \notin standing
      BY <1>2, <2>2 DEF Types
    <3> QED  BY <1>2, <2>2, <3>1
  <2> QED  BY <2>1, <2>2
<1> QED  BY <1>2, <1>3, <1>4, <1>5, <1>6 DEF Types

(* A checkpoint stays true when advance calls a step under its epoch and     *)
(* nothing was undone; the step is then in force.                            *)
LEMMA HonestDoes ==
  ASSUME Types, NEW cp \in Checkpoints, Honest(cp), cp.compensated = {}, NEW s \in Steps,
         Does(<<s, cp.epoch>>), UNCHANGED <<unsure, rewinds>>
  PROVE  Honest(cp)' /\ (stands(s)' \/ s \in unsure')
<1>1. cp.epoch \in Nat /\ cp.epoch <= rewinds /\ cp.compensated = {}
  BY CheckpointIs DEF Honest
<1>2. /\ seen' = seen \cup {<<s, cp.epoch>>}
      /\ <<s, cp.epoch>> \notin seen => stands(s)'
      /\ \A t : stands(t) => stands(t)'
  BY <1>1, DoesIs
<1>3. stands(s)' \/ s \in unsure'
  <2>1. CASE <<s, cp.epoch>> \in seen
    BY <1>1, <1>2, <2>1 DEF Honest, Knows
  <2> QED  BY <1>2, <2>1
<1>4. Knows(cp)'
  <2>1. ASSUME NEW x \in seen'
        PROVE  /\ x[2] <= cp.epoch
               /\ x[2] = cp.epoch /\ x[1] \notin cp.compensated => stands(x[1])' \/ x[1] \in unsure'
    <3>1. CASE x \in seen
      BY <1>2, <3>1 DEF Honest, Knows
    <3>2. CASE x = <<s, cp.epoch>>
      BY <1>1, <1>3, <3>2, SMTT(30)
    <3> QED  BY <1>2, <3>1, <3>2
  <2> QED  BY <2>1 DEF Knows
<1> QED  BY <1>1, <1>2, <1>3, <1>4 DEF Honest

(* Something was undone.                                                     *)
LEMMA UndoesIs ==
  ASSUME Types, NEW s, Undoes(s), UNCHANGED rewinds
  PROVE  /\ standing' \subseteq seen' /\ seen' = seen /\ unsure' = unsure \cup {s}
         /\ ~stands(s)'
         /\ \A t : t # s => (stands(t)' <=> stands(t))
<1>1. standing' = {key \in standing : key[1] # s} /\ seen' = seen /\ unsure' = unsure \cup {s}
  BY DEF Undoes
<1>. \A t, e : <<t, e>>[1] = t
  OBVIOUS
<1>2. ~stands(s)'
  BY <1>1 DEF stands
<1>3. \A t : t # s => (stands(t)' <=> stands(t))
  BY <1>1 DEF stands
<1> QED  BY <1>1, <1>2, <1>3 DEF Types

(* A checkpoint stays true when a step is undone.                            *)
LEMMA HonestUndoes ==
  ASSUME Types, NEW cp, Honest(cp), NEW s, Undoes(s), UNCHANGED rewinds
  PROVE  Honest(cp)'
<1>1. /\ seen' = seen /\ unsure' = unsure \cup {s} /\ ~stands(s)'
      /\ \A t : t # s => (stands(t)' <=> stands(t))
  BY UndoesIs
<1>2. Knows(cp)'
  BY <1>1 DEF Honest, Knows
<1>3. \A t \in cp.compensated : ~stands(t)'
  BY <1>1 DEF Honest
<1>4. \A t \in Range(cp.completed) \ cp.compensated : stands(t)' \/ t \in unsure'
  BY <1>1 DEF Honest
<1> QED  BY <1>2, <1>3, <1>4 DEF Honest

(* The progress of a run: a checkpoint that says what is true now.           *)
LEMMA HonestMore ==
  ASSUME NEW cp, NEW c, NEW s, Honest(cp)', c.epoch = cp.epoch, c.phase = cp.phase,
         c.compensated = cp.compensated, Range(c.completed) \subseteq Range(cp.completed) \cup {s},
         stands(s)' \/ s \in unsure'
  PROVE  Honest(c)'
BY DEF Honest, Knows

(* A checkpoint stays true when the saga turns to compensating.              *)
LEMMA HonestTurn ==
  ASSUME NEW cp, NEW c, Honest(cp)', c.epoch = cp.epoch, c.phase = "compensating",
         c.compensated = cp.compensated, c.completed = cp.completed
  PROVE  Honest(c)'
BY DEF Honest, Knows

(* A checkpoint that lists what is no longer in force as undone is true.     *)
LEMMA HonestLess ==
  ASSUME NEW cp, NEW c, NEW s, Honest(cp)', c.epoch = cp.epoch, c.phase = "compensating",
         c.compensated = cp.compensated \cup {s}, c.completed = cp.completed, ~stands(s)'
  PROVE  Honest(c)'
BY DEF Honest, Knows

(* What was undone is saved.                                                 *)
LEMMA HonestSaved ==
  ASSUME NEW cp, Honest(cp), unsure' = unsure \ cp.compensated, UNCHANGED <<standing, seen, rewinds>>
  PROVE  Honest(cp)'
BY DEF Honest, Knows, stands

(* No message is lost by a step that keeps the record and what is in force.  *)
LEMMA StaysFound ==
  ASSUME Kept, acked' /\ rec' = NoRecord => acked /\ rec = NoRecord,
         \A t : stands(t) \/ t \in unsure => stands(t)' \/ t \in unsure'
  PROVE  Kept'
BY DEF Kept

-----------------------------------------------------------------------------
(* A run.                                                                    *)

(* After a step the services agree with what everybody knew before it.       *)
Agrees ==
  /\ standing' \subseteq seen' /\ seen' \subseteq Steps \X (0..rewinds')
  /\ \A cp \in Known : Honest(cp)'
  /\ ~setup.saga => standing' = seen'
  /\ standing' = seen' => standing = seen /\ unsure' = {} /\ \A x \in seen' : x[2] = 0
  /\ runs["live"] # NoRun =>
       standing' = seen' \/ (rec = NoRecord /\ runs["live"].cp.phase = "compensating")
  /\ rewinds = 0 /\ standing' # seen' /\ rec # NoRecord =>
       standing # seen \/ rec.cp.phase = "compensating"
  /\ \A t : stands(t) \/ t \in unsure => stands(t)' \/ t \in unsure'

(* Run r may go on to "at" with checkpoint c.                                *)
Proper(r, at, c) ==
  /\ at \in {"call", "save"} \cup Ends /\ c \in Checkpoints
  /\ c.epoch = runs[r].cp.epoch
  /\ r = "redrive" => at # "call"
  /\ r = "live" => at # "save"
  /\ runs[r].cp.phase = "compensating" => c.phase = "compensating"
  /\ ~setup.saga => c.phase = "forward"
  /\ at \in {"call", "save", "nil"} => Fits(c)
  /\ at = "nil" => c.phase = "forward" /\ Len(c.completed) = Len(deployed)

(* A step of a run keeps the invariant if its new checkpoint is true and     *)
(* proper.                                                                   *)
LEMMA RunMoves ==
  ASSUME Inv, NEW r \in Kinds, runs[r] # NoRun, NEW at, NEW c, Go(r, at, c),
         UNCHANGED <<setup, deployed, rec, acked, rewinds>>, Agrees, Honest(c)', Proper(r, at, c),
         standing' = seen' => c.compensated = {}
  PROVE  Inv'
<1>1. /\ runs' \in [Kinds -> Runs \cup {NoRun}]
      /\ runs'[r] # NoRun /\ runs'[r].at = at /\ runs'[r].cp = c
      /\ \A q \in Kinds \ {r} : runs'[q] = runs[q]
  BY GoIs DEF Inv, Proper
<1>2. Types'
  BY <1>1 DEF Inv, Types, Agrees
<1>3. ASSUME NEW cp \in Known' PROVE cp = c \/ cp \in Known
  <2>1. CASE rec' # NoRecord /\ cp = rec'.cp
    BY <2>1, KnownIs
  <2>2. ASSUME NEW q \in Kinds, runs'[q] # NoRun, cp = runs'[q].cp PROVE cp = c \/ cp \in Known
    <3>1. CASE q = r
      BY <1>1, <2>2, <3>1
    <3>2. CASE q # r
      BY <1>1, <2>2, <3>2, KnownIs
    <3> QED  BY <3>1, <3>2
  <2> QED  BY <2>1, <2>2, KnownIs
<1>4. \A cp \in Known' : Honest(cp)'
  BY <1>3 DEF Agrees
<1>5. Plain'
  <2>1. CASE setup.saga
    BY <2>1 DEF Plain
  <2>2. CASE ~setup.saga
    BY <1>3, <2>2 DEF Inv, Plain, Agrees, Proper
  <2> QED  BY <2>1, <2>2
<1>6. Resumed'
  <2>1. CASE r = "redrive"
    BY <1>1, <2>1 DEF Inv, Resumed, Proper
  <2>2. CASE r # "redrive"
    <3>1. runs'["redrive"] = runs["redrive"]
      BY <1>1, <2>2 DEF Kinds
    <3> QED  BY <3>1 DEF Inv, Resumed
  <2> QED  BY <2>1, <2>2
<1>7. Live'
  <2>1. CASE r = "live"
    BY <1>1, <2>1 DEF Inv, Live, Proper
  <2>2. CASE r # "live"
    <3>1. runs'["live"] = runs["live"]
      BY <1>1, <2>2 DEF Kinds
    <3> QED  BY <3>1 DEF Inv, Live
  <2> QED  BY <2>1, <2>2
<1>8. OnCourse'
  <2>1. ASSUME NEW q \in Kinds
        PROVE  /\ runs'[q].at \in {"call", "save", "nil"} => Fits(runs[q].cp)'
               /\ runs'[q].at = "nil" =>
                    runs'[q].cp.phase = "forward" /\ Len(runs'[q].cp.completed) = Len(deployed')
    <3>1. CASE q = r
      BY <1>1, <3>1 DEF Fits, Proper
    <3>2. CASE q # r
      <4>1. runs'[q] = runs[q] /\ OnCourse /\ deployed' = deployed
        BY <1>1, <3>2 DEF Inv
      <4> QED  BY ONLY <4>1, q \in Kinds, Zenon DEF OnCourse, Fits
    <3> QED  BY <3>1, <3>2
  <2> QED  BY <2>1 DEF OnCourse
<1>9. Undoing'
  BY DEF Inv, Undoing, Agrees
<1>10. Kept'
  BY StaysFound DEF Inv, Agrees
<1>11. Untouched'
  <2>1. ASSUME standing' = seen' PROVE c.compensated = {} /\ c.epoch = 0
    <3>1. runs[r].cp \in Known /\ standing = seen
      BY <2>1, KnownIs DEF Agrees
    <3> QED  BY <2>1, <3>1 DEF Inv, Untouched, Proper
  <2> QED  BY <1>3, <2>1 DEF Inv, Untouched, Agrees
<1>12. Alone'
  <2>1. CASE r = "live"
    BY <1>1, <2>1 DEF Alone, Agrees, Proper
  <2>2. CASE r # "live"
    <3>1. runs'["live"] = runs["live"]
      BY <1>1, <2>2 DEF Kinds
    <3> QED  BY <3>1 DEF Alone, Agrees
  <2> QED  BY <2>1, <2>2
<1> QED  BY <1>2, <1>4, <1>5, <1>6, <1>7, <1>8, <1>9, <1>10, <1>11, <1>12 DEF Inv

(* While a run goes forward nobody has undone anything under its epoch.      *)
LEMMA AllForward ==
  ASSUME Inv, NEW r \in Kinds, runs[r].at = "call", runs[r].cp.phase = "forward"
  PROVE  \A cp \in Known : cp.compensated = {} /\ cp.epoch = runs[r].cp.epoch
<1>1. runs[r] # NoRun /\ runs[r].cp \in Known /\ runs[r].cp.compensated = {}
  <2>1. runs[r] # NoRun
    BY NoneIs
  <2> QED  BY <2>1, KnownIs DEF Inv, Honest
<1>2. CASE runs["live"] # NoRun
  <2>1. standing = seen
    <3>1. CASE r = "live"
      BY <1>2, <3>1 DEF Inv, Alone
    <3>2. CASE r = "redrive"
      BY <1>1, <1>2, <3>2 DEF Inv, Alone, Resumed
    <3> QED  BY <3>1, <3>2 DEF Kinds
  <2> QED  BY <1>1, <2>1 DEF Inv, Untouched
<1>3. CASE runs["live"] = NoRun
  <2>1. r = "redrive"
    BY <1>1, <1>3 DEF Kinds
  <2>2. rec # NoRecord /\ runs["redrive"].cp = rec.cp
    BY <1>1, <2>1 DEF Inv, Resumed
  <2>3. \A cp \in Known : cp = runs[r].cp
    BY <1>3, <2>1, <2>2, KnownIs DEF Kinds
  <2> QED  BY <1>1, <2>3
<1> QED  BY <1>2, <1>3

(* One more step.                                                            *)
LEMMA RangeAppend ==
  ASSUME NEW q \in Seq(Steps), NEW s
  PROVE  Range(Append(q, s)) \subseteq Range(q) \cup {s}
<1>1. ASSUME NEW i \in DOMAIN Append(q, s)
      PROVE  Append(q, s)[i] \in Range(q) \cup {s}
  <2>1. CASE i = Len(q) + 1
    BY <2>1, SMTT(30)
  <2>2. CASE i # Len(q) + 1
    <3>1. i \in DOMAIN q /\ Append(q, s)[i] = q[i]
      BY <2>2, SMTT(30)
    <3> QED  BY <3>1 DEF Range
  <2> QED  BY <2>1, <2>2
<1> QED  BY <1>1 DEF Range

(* The checkpoint turned round, or with one step less.                       *)
LEMMA Turned ==
  ASSUME NEW cp \in Checkpoints, NEW c, c = [cp EXCEPT !.phase = "compensating"]
  PROVE  /\ c \in Checkpoints /\ c.completed = cp.completed /\ c.phase = "compensating"
         /\ c.compensated = cp.compensated /\ c.epoch = cp.epoch
BY SMTT(30) DEF Checkpoints

(* The checkpoint after one compensation.                                    *)
LEMMA OneLess ==
  ASSUME NEW cp \in Checkpoints, NEW s \in Steps, NEW c, c = [cp EXCEPT !.compensated = @ \cup {s}]
  PROVE  /\ c \in Checkpoints /\ c.completed = cp.completed /\ c.phase = cp.phase
         /\ c.compensated = cp.compensated \cup {s} /\ c.epoch = cp.epoch
BY SMTT(30) DEF Checkpoints

(* What a run has in its hands.                                              *)
LEMMA AtCall ==
  ASSUME Inv, NEW r \in Kinds, runs[r].at \in {"call", "save"}
  PROVE  /\ runs[r] # NoRun /\ runs[r].cp \in Checkpoints /\ runs[r].cp \in Known
         /\ Honest(runs[r].cp) /\ Fits(runs[r].cp)
<1>1. runs[r] # NoRun
  BY NoneIs
<1>2. runs[r].cp \in Known
  BY <1>1, KnownIs
<1>3. Fits(runs[r].cp)
  BY DEF Inv, OnCourse
<1> QED  BY <1>1, <1>2, <1>3, KnownTypes DEF Inv

(* A resumed run saves, a live one goes on.                                  *)
LEMMA SavingIs ==
  ASSUME NEW r \in Kinds
  PROVE  Saving(r) \in {"call", "save"} /\ (r = "redrive" => Saving(r) = "save") /\ (r = "live" => Saving(r) = "call")
BY DEF Saving, Kinds

(* An error of a step ends the run.                                          *)
LEMMA ErrorEnds ==
  ASSUME NEW s, NEW res \in Errors
  PROVE  /\ Returned(s, res) \in Errors
         /\ classify(Returned(s, res)) \in Ends \ {"nil"}
         /\ classify(Returned(s, res)) \notin {"call", "save", "nil"}
BY DEF Returned, Errors, classify, Ends

(* A step was called, or was not reached.                                    *)
LEMMA Served ==
  ASSUME Inv, NEW r \in Kinds, runs[r].at = "call", runs[r].cp.phase = "forward", NEW cp, cp = runs[r].cp,
         NEW s \in Steps, Does(<<s, cp.epoch>>) \/ UNCHANGED <<seen, standing>>, UNCHANGED <<unsure, rewinds>>
  PROVE  Agrees /\ Honest(cp)' /\ (Does(<<s, cp.epoch>>) => stands(s)' \/ s \in unsure')
<1>1. cp \in Checkpoints /\ Honest(cp) /\ cp \in Known /\ cp.epoch \in Nat /\ cp.epoch <= rewinds
  BY AtCall, CheckpointIs DEF Honest
<1>0. SUFFICES /\ standing' \subseteq seen' /\ seen' \subseteq Steps \X (0..rewinds')
               /\ standing = seen <=> standing' = seen'
               /\ \A x \in seen' : x \in seen \/ x[2] = cp.epoch
               /\ \A t : stands(t) => stands(t)'
               /\ \A c \in Known : Honest(c)'
               /\ Does(<<s, cp.epoch>>) => stands(s)' \/ s \in unsure'
  BY <1>1 DEF Agrees, Inv, Plain, Untouched, Alone
<1>2. CASE Does(<<s, cp.epoch>>)
  <2>1. /\ standing' \subseteq seen' /\ seen' = seen \cup {<<s, cp.epoch>>}
        /\ seen' \subseteq Steps \X (0..rewinds')
        /\ standing = seen <=> standing' = seen'
        /\ \A t : stands(t) => stands(t)'
    BY <1>1, <1>2, DoesIs DEF Inv
  <2>2. \A x \in seen' : x \in seen \/ x[2] = cp.epoch
    BY <2>1, SMTT(30)
  <2>3. ASSUME NEW c \in Known PROVE Honest(c)' /\ (stands(s)' \/ s \in unsure')
    <3>1. c \in Checkpoints /\ Honest(c) /\ c.compensated = {} /\ c.epoch = cp.epoch
      BY AllForward, KnownTypes DEF Inv
    <3> QED  BY <1>2, <3>1, HonestDoes DEF Inv
  <2>4. cp \in Known
    BY AtCall
  <2> QED  BY <2>1, <2>2, <2>3, <2>4
<1>3. CASE UNCHANGED <<seen, standing>> /\ ~Does(<<s, cp.epoch>>)
  <2>1. \A c \in Known : Honest(c)'
    BY <1>3, HonestSame DEF Inv
  <2>2. \A t : stands(t) => stands(t)'
    BY <1>3 DEF stands
  <2> QED  BY <1>3, <2>1, <2>2 DEF Inv, Types
<1> QED  BY <1>2, <1>3

(* advance keeps the invariant.                                              *)
LEMMA AdvanceInv ==
  ASSUME Inv, NEW r \in Kinds, advance(r)
  PROVE  Inv'
<1>1. PICK cp : cp = runs[r].cp
  OBVIOUS
<1>2. PICK s : s = deployed[Len(cp.completed) + 1]
  OBVIOUS
<1>3. /\ runs[r].at = "call" /\ cp.phase = "forward" /\ Len(cp.completed) < Len(deployed)
      /\ UNCHANGED <<setup, deployed, rec, acked, rewinds, unsure>>
  BY <1>1 DEF advance, env
<1>4. /\ runs[r] # NoRun /\ cp \in Checkpoints /\ cp \in Known /\ Honest(cp) /\ Fits(cp)
      /\ cp.compensated = {}
  BY <1>1, <1>3, AtCall DEF Honest
<1>5. s \in Steps
  <2>1. Len(cp.completed) + 1 \in 1..Len(deployed)
    BY <1>3, <1>4, CheckpointIs, VersionIs, SMTT(30) DEF Inv, Types
  <2> QED  BY <1>2, <2>1, VersionIs DEF Inv, Types
<1>6. ASSUME Does(<<s, cp.epoch>>) \/ UNCHANGED <<seen, standing>>, NEW at, NEW c,
             Go(r, at, c), Proper(r, at, c), Honest(c)', c.compensated = {}
      PROVE  Inv'
  <2>1. Agrees
    BY <1>1, <1>3, <1>5, <1>6, Served
  <2> QED  BY <1>3, <1>4, <1>6, <2>1, RunMoves
<1>7. CASE Does(<<s, cp.epoch>>) /\ Go(r, Saving(r), [cp EXCEPT !.completed = Append(@, s)])
  <2>1. PICK c : c = [cp EXCEPT !.completed = Append(@, s)]
    OBVIOUS
  <2>2. /\ c \in Checkpoints /\ c.completed = Append(cp.completed, s) /\ c.phase = cp.phase
        /\ c.compensated = cp.compensated /\ c.epoch = cp.epoch
    <3>1. PICK q : q = Append(cp.completed, s)
      OBVIOUS
    <3>2. q \in Seq(Steps)
      BY <1>4, <1>5, <3>1, CheckpointIs, SMTT(30)
    <3>3. c = [cp EXCEPT !.completed = q]
      BY <2>1, <3>1
    <3>4. /\ c \in Checkpoints /\ c.completed = q /\ c.phase = cp.phase
          /\ c.compensated = cp.compensated /\ c.epoch = cp.epoch
      BY <1>4, <3>2, <3>3, SMTT(30) DEF Checkpoints
    <3> QED  BY <3>1, <3>4
  <2>3. Honest(cp)' /\ (stands(s)' \/ s \in unsure')
    BY <1>1, <1>3, <1>4, <1>5, <1>7, Served
  <2>4. Honest(c)'
    <3>1. Range(c.completed) \subseteq Range(cp.completed) \cup {s}
      BY <1>4, <2>2, CheckpointIs, RangeAppend
    <3> QED  BY <2>2, <2>3, <3>1, HonestMore
  <2>5. Fits(c)
    <3>1. Len(deployed) \in Nat
      BY VersionIs DEF Inv, Types
    <3>2. Len(c.completed) = Len(cp.completed) + 1 /\ Len(c.completed) <= Len(deployed)
      BY <1>3, <1>4, <2>2, <3>1, CheckpointIs, SMTT(30)
    <3>3. ASSUME NEW i \in DOMAIN c.completed PROVE c.completed[i] = deployed[i]
      <4>1. CASE i = Len(cp.completed) + 1
        BY <1>2, <1>4, <2>2, <4>1, CheckpointIs, SMTT(30)
      <4>2. CASE i # Len(cp.completed) + 1
        <5>1. i \in DOMAIN cp.completed /\ c.completed[i] = cp.completed[i]
          BY <1>4, <2>2, <4>2, CheckpointIs, SMTT(30)
        <5> QED  BY <1>4, <5>1 DEF Fits
      <4> QED  BY <4>1, <4>2
    <3> QED  BY <3>2, <3>3 DEF Fits
  <2>6. Go(r, Saving(r), c)
    BY <1>7, <2>1
  <2>7. Proper(r, Saving(r), c)
    BY <1>1, <1>3, <2>2, <2>5, SavingIs DEF Proper
  <2> QED  BY <1>4, <1>6, <1>7, <2>2, <2>4, <2>6, <2>7
<1>8. ASSUME NEW res \in Errors, Does(<<s, cp.epoch>>) \/ UNCHANGED <<seen, standing>>,
             failed(r, cp, Returned(s, res))
      PROVE  Inv'
  <2>1. Honest(cp)'
    BY <1>1, <1>3, <1>4, <1>5, <1>8, Served
  <2>2. CASE setup.saga /\ Go(r, Saving(r), [cp EXCEPT !.phase = "compensating"])
    <3>1. PICK c : c = [cp EXCEPT !.phase = "compensating"]
      OBVIOUS
    <3>2. /\ c \in Checkpoints /\ c.completed = cp.completed /\ c.phase = "compensating"
          /\ c.compensated = cp.compensated /\ c.epoch = cp.epoch
      BY <1>4, <3>1, Turned
    <3>3. Honest(c)' /\ Fits(c)
      BY <1>4, <2>1, <3>2, HonestTurn DEF Fits
    <3>4. Go(r, Saving(r), c)
      BY <2>2, <3>1
    <3>5. Proper(r, Saving(r), c)
      BY <1>1, <2>2, <3>2, <3>3, SavingIs DEF Proper
    <3> QED  BY <1>4, <1>6, <1>8, <3>2, <3>3, <3>4, <3>5
  <2>3. CASE Go(r, classify(Returned(s, res)), cp)
    <3>1. PICK at : at = classify(Returned(s, res))
      OBVIOUS
    <3>2. at \in Ends /\ at \notin {"call", "save", "nil"}
      BY <3>1, ErrorEnds
    <3>3. Go(r, at, cp)
      BY <2>3, <3>1
    <3>4. Proper(r, at, cp)
      BY <1>1, <1>3, <1>4, <3>2 DEF Proper
    <3> QED  BY <1>4, <1>6, <1>8, <2>1, <3>3, <3>4
  <2> QED  BY <1>8, <2>2, <2>3 DEF failed
<1> QED  BY <1>1, <1>2, <1>7, <1>8 DEF advance

(* Checkpoints and services agree when neither changes.                      *)
LEMMA AgreesSame ==
  ASSUME Inv, UNCHANGED <<standing, seen, unsure, rewinds>>
  PROVE  Agrees
<1>1. \A cp \in Known : Honest(cp)'
  BY HonestSame DEF Inv
<1>2. \A t : stands(t) => stands(t)'
  BY DEF stands
<1> QED  BY <1>1, <1>2 DEF Inv, Types, Plain, Untouched, Alone, Agrees

(* compensate keeps the invariant, unless there is another copy.             *)
LEMMA CompensateInv ==
  ASSUME Inv, NEW r \in Kinds, compensate(r), ~unaware'
  PROVE  Inv'
<1>1. PICK cp : cp = runs[r].cp
  OBVIOUS
<1>2. PICK s : s = cp.completed[Max(ToUndo(cp))]
  OBVIOUS
<1>3. /\ runs[r].at = "call" /\ cp.phase = "compensating" /\ ToUndo(cp) # {}
      /\ UNCHANGED <<setup, deployed, rec, acked, rewinds>>
  BY <1>1 DEF compensate, env
<1>4. /\ runs[r] # NoRun /\ cp \in Checkpoints /\ cp \in Known /\ Honest(cp) /\ Fits(cp)
  BY <1>1, <1>3, AtCall
<1>5. s \in Steps
  <2>1. ToUndo(cp) \in SUBSET (1..Len(cp.completed)) /\ Len(cp.completed) \in Nat
    BY <1>4, CheckpointIs DEF ToUndo
  <2>2. Max(ToUndo(cp)) \in ToUndo(cp)
    BY <1>3, <2>1, Greatest
  <2> QED  BY <1>2, <1>4, <2>1, <2>2, CheckpointIs
<1>6. /\ setup.saga
      /\ r = "redrive" => rec # NoRecord /\ cp = rec.cp
  BY <1>1, <1>3, <1>4 DEF Inv, Plain, Resumed
<1>7. ASSUME Undoes(s), ~OtherCopy(r)
      PROVE  Agrees /\ ~stands(s)' /\ Honest(cp)' /\ standing' # seen'
  <2>1. /\ standing' \subseteq seen' /\ seen' = seen /\ unsure' = unsure \cup {s}
        /\ ~stands(s)'
        /\ \A t : t # s => (stands(t)' <=> stands(t))
    BY <1>3, <1>7, UndoesIs DEF Inv
  <2>2. \A c \in Known : Honest(c)'
    BY <1>3, <1>7, HonestUndoes DEF Inv
  <2>3. \A t : stands(t) \/ t \in unsure => stands(t)' \/ t \in unsure'
    BY <2>1
  <2>4. seen' \subseteq Steps \X (0..rewinds')
    BY <1>3, <2>1 DEF Inv, Types
  <2>5. standing' # seen'
    <3>1. Max(ToUndo(cp)) \in ToUndo(cp)
      BY <1>3, <1>4, CheckpointIs, Greatest DEF ToUndo
    <3>2. s \in Range(cp.completed) \ cp.compensated
      BY <1>2, <3>1 DEF ToUndo, Range
    <3>3. CASE stands(s)
      <4>1. PICK e \in 0..MaxRewinds : <<s, e>> \in standing
        BY <3>3 DEF stands
      <4>2. <<s, e>> \in seen' /\ <<s, e>> \notin standing'
        BY <1>3, <2>1, <4>1 DEF Inv, Types, stands
      <4> QED  BY <4>2
    <3>4. CASE s \in unsure
      <4>1. standing # seen /\ standing \subseteq seen
        BY <3>4 DEF Inv, Untouched, Types
      <4>2. standing' \subseteq standing
        BY <1>7 DEF Undoes
      <4> QED  BY <2>1, <4>1, <4>2
    <3> QED  BY <1>4, <3>2, <3>3, <3>4 DEF Honest
  <2>6. runs["live"] # NoRun => rec = NoRecord /\ runs["live"].cp.phase = "compensating"
    BY <1>1, <1>3, <1>7 DEF OtherCopy, Kinds
  <2>7. rec # NoRecord => rec.cp.phase = "compensating"
    BY <1>3, <1>6, <1>7 DEF OtherCopy, Kinds
  <2> QED  BY <1>3, <1>4, <1>6, <2>1, <2>2, <2>3, <2>4, <2>5, <2>6, <2>7 DEF Agrees
<1>8. CASE Undoes(s) /\ ~OtherCopy(r) /\ Go(r, Saving(r), [cp EXCEPT !.compensated = @ \cup {s}])
  <2>1. PICK c : c = [cp EXCEPT !.compensated = @ \cup {s}]
    OBVIOUS
  <2>2. /\ c \in Checkpoints /\ c.completed = cp.completed /\ c.phase = cp.phase
        /\ c.compensated = cp.compensated \cup {s} /\ c.epoch = cp.epoch
    BY <1>4, <1>5, <2>1, OneLess
  <2>3. Honest(c)' /\ Fits(c)
    BY <1>3, <1>4, <1>7, <1>8, <2>2, HonestLess DEF Fits
  <2>4. Proper(r, Saving(r), c)
    BY <1>1, <1>3, <1>6, <2>2, <2>3, SavingIs DEF Proper
  <2> QED  BY <1>3, <1>4, <1>7, <1>8, <2>1, <2>3, <2>4, RunMoves
<1>9. ASSUME NEW res \in Errors, (Undoes(s) /\ ~OtherCopy(r)) \/ UNCHANGED <<seen, standing, unsure>>,
             Go(r, classify(Returned(s, res)), cp)
      PROVE  Inv'
  <2>1. PICK at : at = classify(Returned(s, res))
    OBVIOUS
  <2>2. Proper(r, at, cp)
    BY <1>1, <1>4, <1>6, <2>1, ErrorEnds DEF Proper
  <2>3. Agrees /\ Honest(cp)' /\ (standing' = seen' => cp.compensated = {})
    <3>1. CASE Undoes(s) /\ ~OtherCopy(r)
      BY <1>7, <3>1
    <3>2. CASE UNCHANGED <<seen, standing, unsure>>
      BY <1>3, <1>4, <3>2, AgreesSame, HonestSame DEF Inv, Untouched
    <3> QED  BY <1>9, <3>1, <3>2
  <2> QED  BY <1>3, <1>4, <1>9, <2>1, <2>2, <2>3, RunMoves
<1> QED  BY <1>1, <1>2, <1>8, <1>9 DEF compensate

(* A run that is finished keeps the invariant.                               *)
LEMMA FinishInv ==
  ASSUME Inv, NEW r \in Kinds, Finish(r)
  PROVE  Inv'
<1>1. PICK cp : cp = runs[r].cp
  OBVIOUS
<1>2. runs[r].at = "call" /\ UNCHANGED <<setup, deployed, rec, acked, rewinds, standing, seen, unsure>>
  BY DEF Finish, env
<1>3. /\ runs[r] # NoRun /\ cp \in Checkpoints /\ cp \in Known /\ Honest(cp) /\ Fits(cp)
  BY <1>1, <1>2, AtCall
<1>4. Agrees /\ Honest(cp)' /\ (standing' = seen' => cp.compensated = {})
  BY <1>2, <1>3, AgreesSame, HonestSame DEF Inv, Untouched
<1>5. ~setup.saga => cp.phase = "forward"
  BY <1>3 DEF Inv, Plain
<1>6. PICK at \in {"nil", "permanent"} :
        Go(r, at, cp) /\ (at = "nil" => cp.phase = "forward" /\ Len(cp.completed) = Len(deployed))
  BY <1>1 DEF Finish
<1>7. Proper(r, at, cp)
  BY <1>1, <1>3, <1>5, <1>6 DEF Proper, Ends
<1> QED  BY <1>2, <1>3, <1>4, <1>6, <1>7, RunMoves

(* The run saves its checkpoint, and goes on from there.                     *)
LEMMA SaveInv ==
  ASSUME Inv, NEW r \in Kinds, save(r)
  PROVE  Inv'
<1>1. PICK cp : cp = runs[r].cp
  OBVIOUS
<1>2. runs[r].at = "save" /\ UNCHANGED <<setup, deployed, rewinds, standing, seen, acked>>
  BY DEF save, env
<1>3. /\ runs[r] # NoRun /\ cp \in Checkpoints /\ cp \in Known /\ Honest(cp) /\ Fits(cp)
  BY <1>1, <1>2, AtCall
<1>4. r = "redrive"
  BY <1>2 DEF Inv, Live, Kinds
<1>5. ~setup.saga => cp.phase = "forward"
  BY <1>3 DEF Inv, Plain
<1>6. CASE Go(r, "unsaved", cp) /\ UNCHANGED <<rec, unsure>>
  <2>1. Agrees /\ Honest(cp)' /\ (standing' = seen' => cp.compensated = {})
    BY <1>2, <1>3, <1>6, AgreesSame, HonestSame DEF Inv, Untouched
  <2>2. Proper(r, "unsaved", cp)
    BY <1>1, <1>3, <1>4, <1>5 DEF Proper, Ends
  <2> QED  BY <1>2, <1>3, <1>6, <2>1, <2>2, RunMoves
<1>7. CASE rec' = [rec EXCEPT !.cp = cp] /\ unsure' = unsure \ cp.compensated /\ Go(r, "call", cp)
  <2>1. /\ rec # NoRecord /\ rec \in Records /\ rec.st = "leased" /\ cp.epoch = rec.cp.epoch
        /\ rec.cp.phase = "compensating" => cp.phase = "compensating"
    BY <1>1, <1>3, <1>4, TypesAre DEF Inv, Resumed
  <2>2. rec' \in Records /\ rec'.st = "leased" /\ rec'.cp = cp /\ rec' # NoRecord
    BY <1>3, <1>7, <2>1, SMTT(30) DEF Records, NoRecord
  <2>3. /\ runs' \in [Kinds -> Runs \cup {NoRun}]
        /\ runs'["redrive"] # NoRun /\ runs'["redrive"].at = "call" /\ runs'["redrive"].cp = cp
        /\ runs'["live"] = runs["live"]
    BY <1>3, <1>4, <1>7, GoIs DEF Inv, Kinds
  <2>4. Types'
    BY <1>2, <2>2, <2>3 DEF Inv, Types
  <2>5. Honest(cp)'
    BY <1>2, <1>3, <1>7, HonestSaved
  <2>6. runs["live"] # NoRun => standing = seen
    BY <2>1 DEF Inv, Alone
  <2>7. ASSUME NEW c \in Known' PROVE c = cp \/ (standing = seen /\ c \in Known)
    <3>1. CASE c # cp
      <4>1. runs["live"] # NoRun /\ c = runs["live"].cp
        BY <2>2, <2>3, <3>1, KnownIs, SMTT(30) DEF Kinds
      <4> QED  BY <2>6, <4>1, KnownIs DEF Kinds
    <3> QED  BY <3>1
  <2>8. /\ \A c \in Known' : Honest(c)'
        /\ Plain' /\ Untouched' /\ Alone'
    <3>1. ASSUME standing = seen PROVE unsure' = unsure
      BY <1>7, <3>1 DEF Inv, Untouched
    <3>2. ASSUME NEW c \in Known, standing = seen PROVE Honest(c)'
      BY <1>2, <3>1, <3>2, HonestSame DEF Inv
    <3>3. Plain'
      BY <1>2, <1>5, <2>7 DEF Inv, Plain
    <3>4. Untouched'
      BY <1>2, <1>3, <2>7, <3>1 DEF Inv, Untouched
    <3>5. Alone'
      BY <1>2, <2>3, <2>6 DEF Alone
    <3> QED  BY <2>5, <2>7, <3>2, <3>3, <3>4, <3>5
  <2>9. Resumed'
    BY <2>2, <2>3 DEF Resumed
  <2>10. Live'
    BY <1>2, <2>3 DEF Inv, Live
  <2>11. OnCourse'
    <3>1. Fits(cp)'
      BY <1>2, <1>3 DEF Fits
    <3>2. /\ runs'["redrive"].at \in {"call", "save", "nil"} => Fits(runs["redrive"].cp)'
          /\ runs'["redrive"].at # "nil"
      BY <2>3, <3>1 DEF Fits
    <3>3. /\ runs'["live"].at \in {"call", "save", "nil"} => Fits(runs["live"].cp)'
          /\ runs'["live"].at = "nil" =>
               runs'["live"].cp.phase = "forward" /\ Len(runs'["live"].cp.completed) = Len(deployed')
      BY <1>2, <2>3 DEF Inv, OnCourse, Fits, Kinds
    <3> QED  BY <3>2, <3>3 DEF OnCourse, Kinds
  <2>12. Undoing'
    BY <1>2, <2>1, <2>2 DEF Inv, Undoing
  <2>13. Kept'
    BY <2>2 DEF Kept
  <2> QED  BY <2>4, <2>8, <2>9, <2>10, <2>11, <2>12, <2>13 DEF Inv
<1> QED  BY <1>1, <1>6, <1>7 DEF save

-----------------------------------------------------------------------------
(* What becomes of the message.                                              *)

(* Nothing happens at the services, no checkpoint is made, and runs end.     *)
Ending ==
  /\ UNCHANGED <<setup, standing, seen, unsure, rewinds>>
  /\ rec' \in Records \cup {NoRecord} /\ acked' \in BOOLEAN /\ deployed' \in Versions
  /\ \A r \in Kinds : runs'[r] # NoRun => runs'[r] = runs[r] /\ deployed' = deployed
  /\ runs' \in [Kinds -> Runs \cup {NoRun}]
  /\ rec' # NoRecord => rec'.cp \in Known
  /\ acked => acked'
  /\ runs'["redrive"] # NoRun => rec' = rec
  /\ rec = NoRecord => rec' = NoRecord

(* A step that ends runs keeps the invariant if nothing is lost and the      *)
(* record says what is being undone.                                         *)
LEMMA EndingInv ==
  ASSUME Inv, Ending, Kept', Undoing'
  PROVE  Inv'
<1>1. Types'
  BY DEF Inv, Types, Ending
<1>2. ASSUME NEW cp \in Known' PROVE cp \in Known
  <2>1. CASE rec' # NoRecord /\ cp = rec'.cp
    BY <2>1 DEF Ending
  <2>2. ASSUME NEW q \in Kinds, runs'[q] # NoRun, cp = runs'[q].cp PROVE cp \in Known
    <3>1. runs'[q] = runs[q]
      BY <2>2 DEF Ending
    <3> QED  BY <2>2, <3>1, KnownIs
  <2> QED  BY <2>1, <2>2, KnownIs
<1>3. \A cp \in Known' : Honest(cp)'
  BY <1>2, HonestSame DEF Inv, Ending
<1>4. Plain'
  BY <1>2 DEF Inv, Plain, Ending
<1>5. Resumed'
  <2>1. CASE runs'["redrive"] = NoRun
    BY <2>1 DEF Resumed
  <2>2. CASE runs'["redrive"] # NoRun
    <3>1. runs'["redrive"] = runs["redrive"] /\ rec' = rec
      BY <2>2 DEF Ending, Kinds
    <3> QED  BY <3>1 DEF Inv, Resumed
  <2> QED  BY <2>1, <2>2
<1>6. Live'
  <2>1. runs'["live"] = NoRun \/ runs'["live"] = runs["live"]
    BY DEF Ending, Kinds
  <2> QED  BY <2>1, NoneIs DEF Inv, Live, Ending
<1>7. OnCourse'
  <2>1. ASSUME NEW q \in Kinds
        PROVE  /\ runs'[q].at \in {"call", "save", "nil"} => Fits(runs[q].cp)'
               /\ runs'[q].at = "nil" =>
                    runs'[q].cp.phase = "forward" /\ Len(runs'[q].cp.completed) = Len(deployed')
    <3>1. CASE runs'[q] = NoRun
      BY <3>1, NoneIs
    <3>2. CASE runs'[q] # NoRun
      <4>1. runs'[q] = runs[q] /\ OnCourse /\ deployed' = deployed
        BY <3>2 DEF Inv, Ending
      <4> QED  BY ONLY <4>1, q \in Kinds, Zenon DEF OnCourse, Fits
    <3> QED  BY <3>1, <3>2
  <2> QED  BY <2>1 DEF OnCourse
<1>8. Untouched'
  BY <1>2 DEF Inv, Untouched, Ending
<1>9. Alone'
  <2>1. runs'["live"] = NoRun \/ runs'["live"] = runs["live"]
    BY DEF Ending, Kinds
  <2> QED  BY <2>1 DEF Inv, Alone, Ending
<1> QED  BY <1>1, <1>3, <1>4, <1>5, <1>6, <1>7, <1>8, <1>9 DEF Inv

(* A run that is done has done every step of the pipeline.                   *)
LEMMA AllDone ==
  ASSUME Inv, NEW r \in Kinds, runs[r].at = "nil"
  PROVE  \A s \in Range(deployed) : stands(s) \/ s \in unsure
<1>1. PICK cp : cp = runs[r].cp
  OBVIOUS
<1>2. runs[r] # NoRun /\ cp \in Known
  BY <1>1, NoneIs, KnownIs
<1>3. /\ cp \in Checkpoints /\ Honest(cp) /\ cp.phase = "forward"
      /\ Len(cp.completed) = Len(deployed) /\ Fits(cp)
  BY <1>1, <1>2, KnownTypes DEF Inv, OnCourse
<1>4. DOMAIN cp.completed = DOMAIN deployed
  BY <1>3, CheckpointIs, VersionIs DEF Inv, Types
<1>5. Range(deployed) \subseteq Range(cp.completed)
  BY <1>3, <1>4 DEF Fits, Range
<1> QED  BY <1>3, <1>5 DEF Honest

(* What is in force does not change by itself.                               *)
LEMMA StandsSame ==
  ASSUME UNCHANGED <<standing, unsure>>
  PROVE  \A t : (stands(t) <=> stands(t)') /\ (t \in unsure <=> t \in unsure')
BY DEF stands

(* A message that Execute stores as a new record keeps the invariant.        *)
LEMMA StoreInv ==
  ASSUME Inv, NEW st \in {"pending", "parked"}, NEW cp, cp = runs["live"].cp,
         runs["live"] # NoRun, rec = NoRecord, rec' = NewRecord(st, cp),
         unsure' = unsure \ cp.compensated, acked' \in BOOLEAN,
         runs' = [runs EXCEPT !["live"] = NoRun],
         UNCHANGED <<setup, deployed, rewinds, standing, seen>>
  PROVE  Inv'
<1>1. cp \in Known /\ cp \in Checkpoints /\ Honest(cp)
  BY KnownIs, KnownTypes DEF Inv, Kinds
<1>2. rec' \in Records /\ rec'.cp = cp /\ rec' # NoRecord
  BY <1>1, MadeRecord, SMTT(30) DEF NewRecord
<1>3. /\ runs' \in [Kinds -> Runs \cup {NoRun}]
      /\ \A r \in Kinds : runs'[r] = NoRun
  BY DEF Inv, Types, Resumed, Kinds
<1>4. Types'
  BY <1>2, <1>3 DEF Inv, Types
<1>5. \A c \in Known' : c = cp
  BY <1>2, <1>3, KnownIs
<1>6. \A c \in Known' : Honest(c)'
  BY <1>1, <1>5, HonestSaved
<1>7. Plain' /\ Untouched'
  BY <1>1, <1>5 DEF Inv, Plain, Untouched
<1>8. Alone' /\ Resumed' /\ Live'
  BY <1>3, NoneIs DEF Alone, Resumed, Live, Kinds
<1>9. OnCourse'
  BY <1>3, NoneIs DEF OnCourse
<1>10. Undoing'
  BY <1>2 DEF Inv, Alone, Undoing
<1>11. Kept'
  BY <1>2 DEF Kept
<1> QED  BY <1>4, <1>6, <1>7, <1>8, <1>9, <1>10, <1>11 DEF Inv

(* The end of Execute, acknowledged or stored, keeps the invariant.          *)
LEMMA ExecuteInv ==
  ASSUME Inv, Execute
  PROVE  Inv'
<1>. DEFINE run == runs["live"]
<1>1. /\ run.at \in {"nil", "refused", "blocked", "permanent", "interrupted"}
      /\ UNCHANGED <<setup, deployed, rewinds, standing, seen>>
      /\ runs' = [runs EXCEPT !["live"] = NoRun]
  BY DEF Execute, store, env
<1>2. run # NoRun
  BY <1>1, NoneIs
<1>3. /\ runs' \in [Kinds -> Runs \cup {NoRun}] /\ runs'["live"] = NoRun
      /\ runs'["redrive"] = runs["redrive"]
  BY <1>1 DEF Inv, Types, Kinds
<1>4. ASSUME UNCHANGED <<rec, unsure>>, acked' \in BOOLEAN, acked => acked', Kept' PROVE Inv'
  <2>1. Undoing'
    BY <1>1, <1>4 DEF Inv, Undoing
  <2>2. Ending
    BY <1>1, <1>3, <1>4, KnownIs DEF Ending, Kinds, Inv, Types
  <2> QED  BY <1>4, <2>1, <2>2, EndingInv
<1>5. CASE run.at = "nil" /\ acked' = TRUE /\ UNCHANGED <<rec, unsure>>
  <2>1. deployed \in Versions /\ \A s \in Range(deployed) : stands(s) \/ s \in unsure
    BY <1>5, AllDone DEF Inv, Types, Kinds
  <2>2. Kept'
    BY <1>1, <1>5, <2>1, StandsSame DEF Kept
  <2>3. acked' \in BOOLEAN /\ (acked => acked')
    BY <1>5
  <2> QED  BY <1>4, <1>5, <2>2, <2>3
<1>6. CASE UNCHANGED <<rec, unsure, acked>>
  <2>1. Kept'
    BY <1>1, <1>6, StandsSame, StaysFound DEF Inv
  <2>2. acked' \in BOOLEAN /\ (acked => acked')
    BY <1>6 DEF Inv, Types
  <2> QED  BY <1>4, <1>6, <2>1, <2>2
<1>7. ASSUME NEW st \in {"pending", "parked"}, Stored(st, run.cp), acked' = TRUE \/ UNCHANGED acked
      PROVE  Inv'
  <2>1. acked' \in BOOLEAN /\ (acked => acked')
    <3>1. CASE acked' = TRUE
      BY <3>1
    <3>2. CASE UNCHANGED acked
      BY <3>2 DEF Inv, Types
    <3> QED  BY <1>7, <3>1, <3>2
  <2>2. CASE rec = NoRecord
    <3>1. rec' = NewRecord(st, run.cp) /\ unsure' = unsure \ run.cp.compensated
      BY <1>7, <2>2 DEF Stored
    <3> QED  BY <1>1, <1>2, <2>1, <2>2, <3>1, StoreInv
  <2>3. CASE rec # NoRecord
    <3>1. UNCHANGED <<rec, unsure>>
      BY <1>7, <2>3 DEF Stored
    <3>2. Kept'
      BY <2>3, <3>1 DEF Kept
    <3> QED  BY <1>4, <2>1, <3>1, <3>2
  <2> QED  BY <2>2, <2>3
<1> QED  BY <1>5, <1>6, <1>7 DEF Execute, store

(* The record in another state, with the checkpoint it had.                  *)
Restated(x) == x \in Records /\ x # NoRecord /\ x.cp = rec.cp

(* A record that only changes its state or attempts keeps its checkpoint.    *)
LEMMA RestatedIs ==
  ASSUME rec \in Records, NEW st \in {"pending", "leased", "parked"}
  PROVE  /\ \A n \in Int : Restated(Record(st, rec.cp, n)) /\ Record(st, rec.cp, n).st = st
         /\ Restated([rec EXCEPT !.st = st]) /\ [rec EXCEPT !.st = st].st = st
<1>1. \A n \in Int : Restated(Record(st, rec.cp, n)) /\ Record(st, rec.cp, n).st = st
  BY RecordIs, MadeRecord, SMTT(30) DEF Restated
<1>2. /\ [rec EXCEPT !.st = st] \in Records /\ [rec EXCEPT !.st = st].st = st
      /\ [rec EXCEPT !.st = st].cp = rec.cp
  BY SMTT(30) DEF Records
<1> QED  BY <1>1, <1>2, RecordIs DEF Restated

(* The redriver's settle keeps the invariant.                                *)
LEMMA SettleInv ==
  ASSUME Inv, Settle
  PROVE  Inv'
<1>. DEFINE run == runs["redrive"]
<1>1. /\ run.at \notin {"none", "call", "save"} /\ rec' = settle(run.at)
      /\ UNCHANGED <<setup, deployed, rewinds, standing, seen, unsure, acked>>
      /\ runs' = [runs EXCEPT !["redrive"] = NoRun]
  BY DEF Settle, env
<1>2. run # NoRun /\ run \in Runs /\ rec # NoRecord /\ rec \in Records /\ rec.cp \in Known
  BY <1>1, NoneIs, TypesAre, KnownIs DEF Inv, Resumed, Kinds
<1>3. run.at \in Ends
  BY <1>1, <1>2, RunIs
<1>4. /\ runs' \in [Kinds -> Runs \cup {NoRun}] /\ runs'["redrive"] = NoRun
      /\ runs'["live"] = runs["live"]
  BY <1>1 DEF Inv, Types, Kinds
<1>5. CASE run.at = "nil"
  <2>1. rec' = NoRecord
    BY <1>1, <1>5 DEF settle
  <2>2. Kept'
    <3>1. deployed \in Versions /\ \A s \in Range(deployed) : stands(s) \/ s \in unsure
      BY <1>5, AllDone DEF Inv, Types, Kinds
    <3> QED  BY <1>1, <3>1, StandsSame DEF Kept
  <2>3. Undoing' /\ Ending
    BY <1>1, <1>4, <2>1 DEF Undoing, Ending, Kinds, Inv, Types
  <2> QED  BY <2>2, <2>3, EndingInv
<1>6. CASE run.at # "nil"
  <2>1. Restated(rec')
    <3>1. rec.attempts - 1 \in Int
      BY <1>2, RecordIs, SMTT(30)
    <3>2. CASE run.at \in {"refused", "interrupted"}
      BY <1>1, <1>2, <3>1, <3>2, RestatedIs DEF settle
    <3>3. CASE run.at \in {"blocked", "unsaved"}
      BY <1>1, <1>2, <3>3, RestatedIs DEF settle
    <3>4. CASE run.at = "permanent"
      BY <1>1, <1>2, <3>4, RestatedIs DEF settle
    <3> QED  BY <1>3, <1>6, <3>2, <3>3, <3>4 DEF Ends
  <2>2. Kept' /\ Undoing'
    BY <1>1, <1>2, <2>1 DEF Kept, Undoing, Inv, Restated
  <2>3. Ending
    BY <1>1, <1>2, <1>4, <2>1 DEF Ending, Restated, Kinds, Inv, Types
  <2> QED  BY <2>2, <2>3, EndingInv
<1> QED  BY <1>5, <1>6

(* A crash and a deployment keep the invariant.                              *)
LEMMA HaltInv ==
  ASSUME Inv, Halt, deployed' \in Versions
  PROVE  Inv'
<1>1. /\ UNCHANGED <<setup, rewinds, standing, seen, unsure, acked>>
      /\ runs' = [r \in Kinds |-> NoRun]
  BY DEF Halt
<1>2. CASE rec.st = "leased"
  <2>1. rec # NoRecord /\ rec \in Records /\ rec.cp \in Known
    BY <1>2, NoneIs, TypesAre, KnownIs DEF Inv
  <2>2. Restated(rec')
    BY <1>2, <2>1, RestatedIs DEF Halt
  <2>3. Kept' /\ Undoing'
    BY <1>1, <2>1, <2>2 DEF Kept, Undoing, Inv, Restated
  <2>4. Ending
    BY <1>1, <2>1, <2>2 DEF Ending, Restated, Kinds, Inv, Types
  <2> QED  BY <2>3, <2>4, EndingInv
<1>3. CASE rec.st # "leased"
  <2>1. rec' = rec
    BY <1>3 DEF Halt
  <2>2. Kept' /\ Undoing'
    BY <1>1, <2>1, StandsSame, StaysFound DEF Undoing, Inv
  <2>3. Ending
    BY <1>1, <2>1, KnownIs DEF Ending, Kinds, Inv, Types
  <2> QED  BY <2>2, <2>3, EndingInv
<1> QED  BY <1>2, <1>3

(* Nothing happens at the services, and no checkpoint is made.               *)
LEMMA NoNews ==
  ASSUME Inv, UNCHANGED <<setup, rewinds, standing, seen, unsure>>, \A cp \in Known' : cp \in Known
  PROVE  Plain' /\ Untouched' /\ \A cp \in Known' : Honest(cp)'
<1>1. \A cp \in Known' : Honest(cp)'
  BY HonestSame DEF Inv
<1> QED  BY <1>1 DEF Inv, Plain, Untouched

(* Handler, which resumes a stored record, keeps the invariant.              *)
LEMMA HandlerInv ==
  ASSUME Inv, Handler
  PROVE  Inv'
<1>1. /\ UNCHANGED <<setup, deployed, rewinds, standing, seen, unsure, acked>>
      /\ rec.st = "pending" /\ runs["redrive"] = NoRun
  BY DEF Handler, env
<1>2. rec # NoRecord /\ rec \in Records /\ rec.cp \in Known /\ rec.cp \in Checkpoints /\ rec.attempts + 1 \in Int
  <2>1. rec # NoRecord /\ rec \in Records
    BY <1>1, NoneIs, TypesAre DEF Inv
  <2>2. rec.attempts + 1 \in Int
    BY <2>1, RecordIs, SMTT(30)
  <2> QED  BY <2>1, <2>2, RecordIs, KnownIs
<1>3. Restated(rec') => Kept' /\ Undoing'
  BY <1>1, <1>2 DEF Kept, Undoing, Inv, Restated
<1>4. CASE rec' = Record("parked", rec.cp, rec.attempts + 1) /\ UNCHANGED runs
  <2>1. Restated(rec')
    BY <1>2, <1>4, RestatedIs
  <2>2. Ending
    BY <1>1, <1>2, <1>4, <2>1 DEF Ending, Restated, Kinds, Inv, Types
  <2> QED  BY <1>3, <2>1, <2>2, EndingInv
<1>5. CASE /\ rec' = Record("leased", rec.cp, rec.attempts + 1)
           /\ Go("redrive", IF Fits(rec.cp) THEN "call" ELSE "permanent", rec.cp)
  <2>1. Restated(rec') /\ rec'.st = "leased"
    BY <1>2, <1>5, RestatedIs
  <2>2. PICK at \in {"call", "permanent"} : Go("redrive", at, rec.cp) /\ (at = "call" => Fits(rec.cp))
    BY <1>5
  <2>3. /\ runs' \in [Kinds -> Runs \cup {NoRun}]
        /\ runs'["redrive"] # NoRun /\ runs'["redrive"].at = at /\ runs'["redrive"].cp = rec.cp
        /\ runs'["live"] = runs["live"]
    BY <1>2, <2>2, GoIs DEF Inv, Kinds, Ends
  <2>4. Types'
    BY <1>1, <2>1, <2>3 DEF Inv, Types, Restated
  <2>5. \A cp \in Known' : cp \in Known
    BY <1>2, <2>1, <2>3, KnownIs, SMTT(30) DEF Restated, Kinds
  <2>6. Plain' /\ Untouched' /\ \A cp \in Known' : Honest(cp)'
    BY <1>1, <2>5, NoNews
  <2>7. Resumed' /\ Live' /\ Alone'
    BY <1>1, <1>2, <2>1, <2>3 DEF Resumed, Live, Alone, Inv, Restated
  <2>8. OnCourse'
    <3>1. /\ runs'["redrive"].at \in {"call", "save", "nil"} => Fits(runs["redrive"].cp)'
          /\ runs'["redrive"].at # "nil"
      BY <1>1, <2>2, <2>3 DEF Fits
    <3>2. /\ runs'["live"].at \in {"call", "save", "nil"} => Fits(runs["live"].cp)'
          /\ runs'["live"].at = "nil" =>
               runs'["live"].cp.phase = "forward" /\ Len(runs'["live"].cp.completed) = Len(deployed')
      BY <1>1, <2>3 DEF Inv, OnCourse, Fits, Kinds
    <3> QED  BY <3>1, <3>2 DEF OnCourse, Kinds
  <2> QED  BY <1>3, <2>1, <2>4, <2>6, <2>7, <2>8 DEF Inv
<1> QED  BY <1>4, <1>5 DEF Handler

(* The fields of a new checkpoint.                                           *)
LEMMA NewIs ==
  /\ newCheckpoint \in Checkpoints /\ newCheckpoint.completed = <<>>
  /\ newCheckpoint.phase = "forward" /\ newCheckpoint.compensated = {} /\ newCheckpoint.epoch = 0
<1>1. <<>> \in Seq(Steps) /\ 0 \in Nat
  BY SMTT(30)
<1> QED  BY <1>1, SMTT(30) DEF newCheckpoint, Checkpoint, Checkpoints

(* Nothing was done yet, or all that was seen is in force.                   *)
LEMMA HonestNew ==
  ASSUME Types, NEW cp, cp = newCheckpoint, standing = seen, \A x \in seen : x[2] = 0
  PROVE  Honest(cp)
<1>1. cp.completed = <<>> /\ cp.phase = "forward" /\ cp.compensated = {} /\ cp.epoch = 0
  BY NewIs
<1>2. Range(cp.completed) = {}
  <2>1. DOMAIN <<>> = {}
    BY SMTT(30)
  <2> QED  BY <1>1, <2>1 DEF Range
<1>3. 0 <= rewinds /\ 0 \in 0..MaxRewinds
  BY PipelineAssumption, SMTT(30) DEF Types
<1>4. ASSUME NEW x \in seen PROVE x[2] <= cp.epoch /\ stands(x[1])
  <2>1. x[2] = 0 /\ x = <<x[1], x[2]>>
    BY SMTT(30) DEF Types
  <2>2. x[2] <= cp.epoch
    BY <1>1, <2>1, SMTT(30)
  <2> QED  BY <1>3, <2>1, <2>2 DEF stands
<1> QED  BY <1>1, <1>2, <1>3, <1>4 DEF Honest, Knows

(* A delivery keeps the invariant, unless something has been undone.         *)
LEMMA DeliverInv ==
  ASSUME Inv, Deliver, ~unaware'
  PROVE  Inv'
<1>1. PICK cp : cp = newCheckpoint
  OBVIOUS
<1>2. /\ setup.live /\ Go("live", "call", cp)
      /\ UNCHANGED <<setup, deployed, rec, standing, seen, unsure, acked, rewinds>>
  BY <1>1 DEF Deliver
<1>3. standing = seen /\ unsure = {} /\ \A x \in seen : x[2] = 0
  BY DEF Deliver, Inv, Untouched
<1>4. /\ cp \in Checkpoints /\ cp.completed = <<>> /\ cp.phase = "forward"
      /\ cp.compensated = {} /\ cp.epoch = 0
  BY <1>1, NewIs
<1>5. /\ runs' \in [Kinds -> Runs \cup {NoRun}]
      /\ runs'["live"] # NoRun /\ runs'["live"].at = "call" /\ runs'["live"].cp = cp
      /\ runs'["redrive"] = runs["redrive"]
  BY <1>2, <1>4, GoIs DEF Inv, Kinds
<1>6. Types'
  BY <1>2, <1>5 DEF Inv, Types
<1>7. \A c \in Known' : c = cp \/ c \in Known
  BY <1>2, <1>5, KnownIs, SMTT(30) DEF Kinds
<1>8. Honest(cp)'
  <2>1. Honest(cp)
    BY <1>1, <1>3, HonestNew DEF Inv
  <2> QED  BY <1>2, <2>1, HonestSame
<1>9. \A c \in Known' : Honest(c)'
  BY <1>2, <1>7, <1>8, HonestSame DEF Inv
<1>10. Plain' /\ Untouched'
  BY <1>2, <1>3, <1>4, <1>7 DEF Inv, Plain, Untouched
<1>11. Resumed' /\ Live' /\ Alone'
  BY <1>2, <1>3, <1>5 DEF Inv, Resumed, Live, Alone
<1>12. OnCourse'
  <2>1. Fits(cp)'
    <3>1. Len(cp.completed) = 0 /\ DOMAIN cp.completed = {} /\ 0 <= Len(deployed')
      BY <1>4, <1>6, VersionIs, SMTT(30) DEF Types
    <3> QED  BY <3>1 DEF Fits
  <2>2. /\ runs'["live"].at \in {"call", "save", "nil"} => Fits(runs["live"].cp)'
        /\ runs'["live"].at # "nil"
    BY <1>5, <2>1 DEF Fits
  <2>3. /\ runs'["redrive"].at \in {"call", "save", "nil"} => Fits(runs["redrive"].cp)'
        /\ runs'["redrive"].at = "nil" =>
             runs'["redrive"].cp.phase = "forward" /\ Len(runs'["redrive"].cp.completed) = Len(deployed')
    BY <1>2, <1>5 DEF Inv, OnCourse, Fits, Kinds
  <2> QED  BY <2>2, <2>3 DEF OnCourse, Kinds
<1>13. Undoing' /\ Kept'
  BY <1>2, StandsSame, StaysFound DEF Inv, Undoing
<1> QED  BY <1>6, <1>9, <1>10, <1>11, <1>12, <1>13 DEF Inv

-----------------------------------------------------------------------------
(* The operator.                                                             *)

(* What Rewind returns says what is true: the steps it keeps are in force,   *)
(* and keys of its epoch are new if anything was undone.                     *)
LEMMA HonestRewound ==
  ASSUME Types, NEW cp \in Checkpoints, Honest(cp), NEW c \in Rewind(cp), rewinds' = rewinds + 1,
         UNCHANGED <<standing, seen, unsure>>
  PROVE  /\ c \in Checkpoints /\ Honest(c)' /\ c.phase = "forward" /\ c.compensated = {}
         /\ cp.compensated = {} => c.epoch = cp.epoch
<1>1. PICK n \in Resumable(cp) : c = After(cp, n) /\ \A i \in 1..n : cp.completed[i] \notin cp.compensated
  BY DEF Rewind
<1>2. /\ cp.completed \in Seq(Steps) /\ Len(cp.completed) \in Nat /\ cp.epoch \in Nat /\ rewinds \in Nat
      /\ cp.epoch <= rewinds /\ cp.compensated \in SUBSET Steps
      /\ DOMAIN cp.completed = 1..Len(cp.completed)
  BY CheckpointIs, SMTT(30) DEF Honest, Types
<1>3. n \in 0..Len(cp.completed)
  BY DEF Resumable
<1>. DEFINE q == SubSeq(cp.completed, 1, n)
            e == IF cp.compensated = {} THEN cp.epoch ELSE cp.epoch + 1
<1>4. q \in Seq(Steps) /\ DOMAIN q = 1..n /\ \A i \in 1..n : q[i] = cp.completed[i] /\ i \in DOMAIN cp.completed
  BY <1>2, <1>3, SMTT(30)
<1>5. e \in Nat /\ e <= rewinds + 1 /\ cp.epoch <= e
  BY <1>2, SMTT(30)
<1>6. c \in Checkpoints /\ c.completed = q /\ c.phase = "forward" /\ c.compensated = {} /\ c.epoch = e
  <2>. HIDE DEF q, e
  <2>1. c = Checkpoint(q, "forward", {}, e)
    BY <1>1 DEF After, q, e
  <2> QED  BY <1>4, <1>5, <2>1, MadeCheckpoint, SMTT(30)
<1>7. \A t : (stands(t) <=> stands(t)') /\ (t \in unsure <=> t \in unsure')
  BY StandsSame
<1>8. \A s \in Range(c.completed) : stands(s)' \/ s \in unsure'
  <2>1. ASSUME NEW i \in 1..n PROVE stands(q[i]) \/ q[i] \in unsure
    BY <1>1, <1>4 DEF Honest, Range
  <2> QED  BY <1>4, <1>6, <1>7, <2>1 DEF Range
<1>9. Knows(c)'
  <2>1. ASSUME NEW x \in seen
        PROVE  x[2] <= c.epoch /\ (x[2] = c.epoch => stands(x[1])' \/ x[1] \in unsure')
    <3>1. x[2] <= cp.epoch /\ x[2] \in Nat
      BY SMTT(30) DEF Honest, Knows, Types
    <3>2. x[2] <= c.epoch
      BY <1>2, <1>5, <1>6, <3>1, SMTT(30)
    <3>3. CASE cp.compensated = {}
      BY <1>6, <1>7, <3>2, <3>3 DEF Honest, Knows
    <3>4. CASE cp.compensated # {}
      <4>1. x[2] # c.epoch
        BY <1>2, <1>6, <3>1, <3>4, SMTT(30)
      <4> QED  BY <3>2, <4>1
    <3> QED  BY <3>3, <3>4
  <2> QED  BY <2>1 DEF Knows
<1>10. c.epoch <= rewinds'
  BY <1>5, <1>6
<1> QED  BY <1>6, <1>8, <1>9, <1>10 DEF Honest

(* A checkpoint stays true when the operator rewinds another.                *)
LEMMA HonestLater ==
  ASSUME Types, NEW cp \in Checkpoints, Honest(cp), rewinds' = rewinds + 1, UNCHANGED <<standing, seen, unsure>>
  PROVE  Honest(cp)'
<1>1. cp.epoch <= rewinds'
  BY CheckpointIs, SMTT(30) DEF Honest, Types
<1> QED  BY <1>1 DEF Honest, Knows, stands

(* Redrive and Rewind keep the invariant.                                    *)
LEMMA RedriveInv ==
  ASSUME Inv, Redrive
  PROVE  Inv'
<1>1. /\ rec.st = "parked" /\ rewinds < MaxRewinds /\ rewinds' = rewinds + 1
      /\ UNCHANGED <<setup, deployed, runs, standing, seen, unsure, acked>>
  BY DEF Redrive
<1>2. PICK old : old = rec.cp
  OBVIOUS
<1>3. rec # NoRecord /\ rec \in Records /\ old \in Known /\ old \in Checkpoints /\ Honest(old)
  <2>1. rec # NoRecord /\ rec \in Records
    BY <1>1, NoneIs, TypesAre DEF Inv
  <2> QED  BY <1>2, <2>1, RecordIs, KnownIs DEF Inv
<1>4. runs["redrive"] = NoRun
  BY <1>1 DEF Inv, Resumed
<1>5. PICK cp \in {old} \cup Rewind(old) : rec' = NewRecord("pending", cp)
  BY <1>2 DEF Redrive
<1>6. /\ cp \in Checkpoints /\ Honest(cp)'
      /\ ~setup.saga => cp.phase = "forward"
      /\ standing = seen => cp.compensated = {} /\ cp.epoch = 0
  <2>1. /\ ~setup.saga => old.phase = "forward"
        /\ standing = seen => old.epoch = 0 /\ old.compensated = {}
    BY <1>3 DEF Inv, Plain, Untouched
  <2>2. CASE cp = old
    BY <1>1, <1>3, <2>1, <2>2, HonestLater DEF Inv
  <2>3. CASE cp \in Rewind(old)
    BY <1>1, <1>3, <2>1, <2>3, HonestRewound DEF Inv
  <2> QED  BY <2>2, <2>3
<1>7. rec' \in Records /\ rec' # NoRecord /\ rec'.cp = cp
  BY <1>5, <1>6, MadeRecord, SMTT(30) DEF NewRecord
<1>8. Types'
  <2>1. rewinds' \in 0..MaxRewinds /\ 0..rewinds \subseteq 0..rewinds'
    BY <1>1, PipelineAssumption, SMTT(30) DEF Inv, Types
  <2>2. seen' \subseteq Steps \X (0..rewinds')
    BY <1>1, <2>1, SMTT(30) DEF Inv, Types
  <2> QED  BY <1>1, <1>7, <2>1, <2>2 DEF Inv, Types
<1>9. ASSUME NEW c \in Known' PROVE c = cp \/ c \in Known
  BY <1>1, <1>7, KnownIs, SMTT(30)
<1>10. \A c \in Known' : Honest(c)'
  <2>1. ASSUME NEW c \in Known PROVE Honest(c)'
    BY <1>1, <2>1, KnownTypes, HonestLater DEF Inv
  <2> QED  BY <1>6, <1>9, <2>1
<1>11. Plain' /\ Untouched'
  BY <1>1, <1>6, <1>9 DEF Inv, Plain, Untouched
<1>12. Resumed' /\ Live' /\ Kept' /\ Alone'
  BY <1>1, <1>3, <1>4, <1>7 DEF Inv, Resumed, Live, Kept, Alone
<1>13. OnCourse'
  BY <1>1 DEF Inv, OnCourse, Fits
<1>14. Undoing'
  <2>1. rewinds' # 0
    BY <1>1, SMTT(30) DEF Inv, Types
  <2> QED  BY <2>1 DEF Undoing
<1> QED  BY <1>8, <1>10, <1>11, <1>12, <1>13, <1>14 DEF Inv

-----------------------------------------------------------------------------
(* The invariant holds at the start.                                         *)
LEMMA InvStarts ==
  ASSUME Init
  PROVE  Inv
<1>1. PICK cp : cp = newCheckpoint
  OBVIOUS
<1>2. /\ setup \in Setups /\ deployed \in Versions /\ runs = [r \in Kinds |-> NoRun]
      /\ standing = {} /\ seen = {} /\ unsure = {} /\ acked = ~setup.live /\ rewinds = 0
      /\ rec = IF setup.live THEN NoRecord ELSE NewRecord("pending", cp)
  BY <1>1 DEF Init
<1>3. /\ cp \in Checkpoints /\ cp.completed = <<>> /\ cp.phase = "forward"
      /\ cp.compensated = {} /\ cp.epoch = 0
  BY <1>1, NewIs
<1>4. NewRecord("pending", cp) \in Records /\ NewRecord("pending", cp).cp = cp /\ NewRecord("pending", cp) # NoRecord
  BY <1>3, MadeRecord, SMTT(30) DEF NewRecord
<1>5. Types
  <2>1. 0 \in 0..MaxRewinds
    BY PipelineAssumption, SMTT(30)
  <2>2. setup.live \in BOOLEAN
    BY <1>2, PipelineAssumption
  <2>3. rec \in Records \cup {NoRecord}
    BY <1>2, <1>4
  <2> QED  BY <1>2, <2>1, <2>2, <2>3 DEF Types
<1>6. \A r \in Kinds : runs[r] = NoRun /\ runs[r].at = "none"
  BY <1>2, NoneIs
<1>7. \A c \in Known : c = cp
  BY <1>2, <1>4, <1>6, KnownIs
<1>8. Honest(cp)
  BY <1>1, <1>2, <1>5, HonestNew
<1>9. Plain /\ Untouched
  BY <1>2, <1>3, <1>7 DEF Plain, Untouched
<1>10. Resumed /\ Live /\ Alone
  BY <1>6 DEF Resumed, Live, Alone, Kinds
<1>11. OnCourse
  BY <1>6 DEF OnCourse
<1>12. Undoing /\ Kept
  BY <1>2, <1>4 DEF Undoing, Kept
<1> QED  BY <1>5, <1>7, <1>8, <1>9, <1>10, <1>11, <1>12 DEF Inv

(* The invariant holds on when nothing changes.                              *)
LEMMA InvStutters ==
  ASSUME Inv, UNCHANGED vars
  PROVE  Inv'
<1>1. UNCHANGED <<setup, deployed, rec, runs, standing, seen, unsure, acked, rewinds>>
  BY DEF vars
<1>2. Ending /\ Kept' /\ Undoing'
  BY <1>1, KnownIs, StandsSame, StaysFound DEF Ending, Inv, Types, Undoing
<1> QED  BY <1>2, EndingInv

(* Every step keeps the invariant, unless a copy goes on unaware.            *)
LEMMA InvSteps ==
  ASSUME Inv, [Next]_vars, ~unaware'
  PROVE  Inv'
<1>1. CASE Crash
  BY <1>1, HaltInv DEF Crash, Inv, Types
<1>2. CASE Deploy
  BY <1>2, HaltInv DEF Deploy
<1>3. CASE \E r \in Kinds : RunStep(r)
  BY <1>3, AdvanceInv, CompensateInv, SaveInv, FinishInv DEF RunStep
<1> QED  BY <1>1, <1>2, <1>3, ExecuteInv, SettleInv, DeliverInv, HandlerInv, RedriveInv, InvStutters
            DEF Next, Rest

-----------------------------------------------------------------------------
(* Who is unaware.                                                           *)

(* Only compensate and a delivery make a copy unaware, and none learns.      *)
LEMMA Learns ==
  ASSUME [Next]_vars
  PROVE  /\ UNCHANGED setup /\ (unaware => unaware')
         /\ unaware' => unaware \/ Deliver \/ \E r \in Kinds : compensate(r) /\ OtherCopy(r)
<1>1. CASE Deliver
  BY <1>1 DEF Deliver
<1>2. ASSUME NEW r \in Kinds, RunStep(r)
      PROVE  /\ UNCHANGED setup /\ (unaware => unaware')
             /\ unaware' => unaware \/ (compensate(r) /\ OtherCopy(r))
  <2>1. CASE compensate(r)
    <3>1. UNCHANGED setup
      BY <2>1 DEF compensate, env
    <3>2. UNCHANGED unaware \/ unaware' = (unaware \/ OtherCopy(r))
      BY <2>1 DEF compensate
    <3>3. CASE UNCHANGED unaware
      BY <3>1, <3>3
    <3>4. CASE unaware' = (unaware \/ OtherCopy(r))
      <4>1. CASE unaware \/ OtherCopy(r)
        <5>1. unaware' = TRUE
          BY ONLY <3>4, <4>1
        <5> QED  BY <2>1, <3>1, <4>1, <5>1
      <4>2. CASE ~unaware /\ ~OtherCopy(r)
        <5>1. unaware' = FALSE
          BY ONLY <3>4, <4>2
        <5> QED  BY <3>1, <4>2, <5>1
      <4> QED  BY <4>1, <4>2
    <3> QED  BY <3>2, <3>3, <3>4
  <2>2. CASE advance(r) \/ save(r) \/ Finish(r)
    BY <2>2 DEF advance, save, Finish, env
  <2> QED  BY <1>2, <2>1, <2>2 DEF RunStep
<1>3. CASE Execute \/ Settle \/ Handler \/ Redrive \/ Crash \/ Deploy \/ Rest \/ UNCHANGED vars
  BY <1>3 DEF Execute, Settle, Handler, Redrive, Crash, Deploy, Halt, Rest, env, vars
<1> QED  BY <1>1, <1>2, <1>3 DEF Next

(* Only a saga that arrives in Execute has a copy that is unaware.           *)
LEMMA Forgets ==
  ASSUME Inv
  PROVE  /\ Deliver /\ standing # seen => setup.saga /\ setup.live
         /\ \A r \in Kinds : compensate(r) /\ OtherCopy(r) => setup.saga /\ setup.live
<1>1. ASSUME NEW r \in Kinds, compensate(r), OtherCopy(r) PROVE setup.saga /\ setup.live
  <2>1. runs[r].at = "call" /\ runs[r].cp.phase = "compensating"
    BY <1>1 DEF compensate
  <2>2. runs[r] # NoRun /\ runs[r].cp \in Known
    BY <2>1, AtCall
  <2>3. runs["live"] # NoRun
    BY <1>1, <2>2 DEF OtherCopy, Kinds
  <2> QED  BY <2>1, <2>2, <2>3 DEF Inv, Plain, Live
<1> QED  BY <1>1 DEF Inv, Plain, Deliver

(* The invariant holds throughout, until a saga that arrived in Execute has  *)
(* undone a step and another copy of its message goes on (pipeline.go).      *)
THEOREM Invariant == Spec => []Mindful
<1>1. Init => Mindful
  BY InvStarts DEF Mindful, Init
<1>2. ASSUME Mindful, [Next]_vars PROVE Mindful'
  <2>1. CASE unaware
    BY <1>2, <2>1, Learns DEF Mindful
  <2>2. CASE ~unaware /\ ~unaware'
    BY <1>2, <2>2, InvSteps DEF Mindful
  <2>3. CASE ~unaware /\ unaware'
    <3>1. Inv
      BY <1>2, <2>3 DEF Mindful
    <3>2. \/ Deliver /\ standing # seen
          \/ \E r \in Kinds : compensate(r) /\ OtherCopy(r)
      BY <1>2, <2>3, Learns DEF Deliver
    <3> QED  BY <1>2, <2>3, <3>1, <3>2, Forgets, Learns DEF Mindful
  <2> QED  BY <2>1, <2>2, <2>3
<1> QED  BY <1>1, <1>2, PTL DEF Spec

(* A checkpoint, stored or in a run, tells the truth: what it has as         *)
(* completed and not undone is in force at the services, and what it has as  *)
(* undone is not, unless a compensation took effect and its checkpoint was   *)
(* lost, or a live saga has undone a step that another copy of its message   *)
(* does not know of (advance, compensate, save, Handler, Rewind).            *)
THEOREM TruthTold == Spec => []CheckpointTellsTruth
<1>1. Mindful => CheckpointTellsTruth
  BY DEF Mindful, Inv, Honest, CheckpointTellsTruth
<1> QED  BY <1>1, Invariant, PTL

(* An acknowledged message is stored, or every step of a deployed pipeline   *)
(* is in force, with the same exception (Execute, store, Redriver.settle).   *)
THEOREM NothingLost == Spec => []NeverLost
<1>1. Mindful => NeverLost
  BY DEF Mindful, Inv, Kept, NeverLost
<1> QED  BY <1>1, Invariant, PTL

(* Once a step of a saga has been undone no run goes forward until the       *)
(* operator says so, whatever crashes and deployments come between (save     *)
(* before the first compensation, load); only a saga that Execute runs, for  *)
(* which save does nothing, may start over.                                  *)
THEOREM UndoCompletes == Spec => []UndoGoesOn
<1>1. ASSUME Inv, rewinds = 0, standing # seen, NEW r \in Kinds, runs[r] # NoRun
      PROVE  runs[r].cp.phase = "compensating"
  <2>1. CASE r = "live"
    BY <1>1, <2>1 DEF Inv, Alone
  <2>2. CASE r = "redrive"
    BY <1>1, <2>2 DEF Inv, Resumed, Undoing
  <2> QED  BY <2>1, <2>2 DEF Kinds
<1>2. Mindful => UndoGoesOn
  BY <1>1 DEF Mindful, UndoGoesOn, ResumesUndo
<1> QED  BY <1>2, Invariant, PTL
=============================================================================
