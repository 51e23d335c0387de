--------------------------- MODULE ConsumerProofs ---------------------------
(***************************************************************************)
(* A message is never skipped, for every number of partitions, messages,   *)
(* workers and faults.  The invariant is that the claims of the consumer   *)
(* hold of everything it has accepted, and that a result that says "safe"  *)
(* is of a settled message.  Every step keeps it (... Inv).                *)
(***************************************************************************)
EXTENDS ConsumerMethods

\* A leaf goes to Zenon, or to Z3 where it says so.
USE ZenonT(20), SMTT(30)

-----------------------------------------------------------------------------
(* Everything the consumer has accepted and not forgotten.                   *)

\* What waits behind a message with the same key.
QueuedIn(s) == UNION {Range(s.keyQueues[l].tasks) : l \in Lines}
\* Everything accepted: on its way, and waiting in the backlog.
All == InFlight \cup Range(c.backlog)

(* Where the tasks are.                                                      *)
LEMMA AllHas ==
  /\ \A t \in running : t \in All
  /\ \A t \in Range(work) : t \in All
  /\ \A r \in Range(results) : r.task \in All
  /\ QueuedIn(c) \subseteq All
  /\ Range(c.backlog) \subseteq All
BY DEF All, InFlight, QueuedIn

(* The tasks are in a set if they are wherever they are kept.                *)
LEMMA AllWithin ==
  ASSUME NEW T, running \subseteq T, Range(work) \subseteq T, \A r \in Range(results) : r.task \in T,
         QueuedIn(c) \subseteq T, Range(c.backlog) \subseteq T
  PROVE  All \subseteq T
BY DEF All, InFlight, QueuedIn

(* The members of a sequence over a set.                                     *)
LEMMA RangeIn ==
  ASSUME NEW T, NEW s \in Seq(T)
  PROVE  Range(s) \subseteq T
<1>1. DOMAIN s = 1..Len(s) /\ \A i \in 1..Len(s) : s[i] \in T
  BY SMTT(30)
<1> QED  BY <1>1 DEF Range

(* What waits in a line is a task.                                           *)
LEMMA QueuedInTasks ==
  ASSUME NEW s \in Fields
  PROVE  QueuedIn(s) \subseteq Tasks
BY QueueIs, RangeIn DEF QueuedIn

\* One line changes, and holds nothing new.
LEMMA LineShrinks ==
  ASSUME NEW s \in Fields, NEW r, NEW l \in Lines, NEW q, r.keyQueues = [s.keyQueues EXCEPT ![l] = q],
         Range(q.tasks) \subseteq Range(s.keyQueues[l].tasks)
  PROVE  QueuedIn(r) \subseteq QueuedIn(s)
<1>1. s.keyQueues \in [Lines -> Queue]
  BY FieldsAre
<1>2. \A k \in Lines : Range(r.keyQueues[k].tasks) \subseteq Range(s.keyQueues[k].tasks)
  BY <1>1
<1> QED  BY <1>2, SMTT(30) DEF QueuedIn

(* The empty sequence has no members.                                        *)
LEMMA EmptyRange == Range(<<>>) = {}
BY SMTT(30) DEF Range

(* released and nextInLine only take the head of the line.                   *)
LEMMA ReleasedQueued ==
  ASSUME NEW s \in Fields, NEW t \in Tasks
  PROVE  /\ QueuedIn(released(s, t)) \subseteq QueuedIn(s)
         /\ nextInLine(s, t) \in Seq(Tasks) /\ Range(nextInLine(s, t)) \subseteq QueuedIn(s)
<1>. DEFINE l == line(t)
            ts == s.keyQueues[l].tasks
<1>1. l \in Lines /\ ts \in Seq(Tasks)
  BY TaskIs, QueueIs
<1>2. Range(ts) \subseteq QueuedIn(s)
  BY <1>1 DEF QueuedIn
<1>3. CASE keyed(t) /\ ts # <<>>
  <2>1. Head(ts) \in Tasks /\ Tail(ts) \in Seq(Tasks) /\ Range(ts) = Range(Tail(ts)) \cup {Head(ts)}
    BY <1>1, <1>3, Shrinks, ShrinksTo
  <2>2. nextInLine(s, t) = <<Head(ts)>>
    BY <1>3 DEF nextInLine
  <2>3. Range(<<Head(ts)>>) = {Head(ts)}
    BY SMTT(30) DEF Range
  <2>4. LineAfter(s.keyQueues[l]) = Busy(Tail(ts)) /\ Busy(Tail(ts)).tasks = Tail(ts)
    BY <1>3, <2>1, BusyIs DEF LineAfter
  <2>5. released(s, t).keyQueues = [s.keyQueues EXCEPT ![l] = Busy(Tail(ts))]
    BY <1>3, <2>4, ReleasedIs
  <2>6. Range(Busy(Tail(ts)).tasks) \subseteq Range(ts)
    BY <2>1, <2>4
  <2>7. QueuedIn(released(s, t)) \subseteq QueuedIn(s)
    <3>. DEFINE q == Busy(Tail(ts))
    <3>. HIDE DEF q
    <3> QED  BY <1>1, <2>5, <2>6, LineShrinks DEF q
  <2>8. nextInLine(s, t) \in Seq(Tasks)
    BY <2>1, <2>2, SMTT(30)
  <2> QED  BY <1>2, <2>1, <2>2, <2>3, <2>7, <2>8
<1>4. CASE keyed(t) /\ ts = <<>>
  <2>1. nextInLine(s, t) = <<>>
    BY <1>4 DEF nextInLine
  <2>2. LineAfter(s.keyQueues[l]) = Free
    BY <1>4 DEF LineAfter
  <2>3. released(s, t).keyQueues = [s.keyQueues EXCEPT ![l] = Free]
    BY <1>4, <2>2, ReleasedIs
  <2>4. Range(Free.tasks) \subseteq Range(ts)
    BY FreeIs, EmptyRange
  <2>5. QueuedIn(released(s, t)) \subseteq QueuedIn(s)
    BY <1>1, <2>3, <2>4, LineShrinks
  <2> QED  BY <2>1, <2>5, EmptyRange, SMTT(30)
<1>5. CASE ~keyed(t)
  <2>1. nextInLine(s, t) = <<>> /\ released(s, t) = s
    BY <1>5 DEF nextInLine, released
  <2> QED  BY <2>1, EmptyRange, SMTT(30)
<1> QED  BY <1>3, <1>4, <1>5

(* without adds nothing.                                                     *)
LEMMA WithoutRange ==
  ASSUME NEW T, NEW b \in Seq(T), NEW tp
  PROVE  Range(without(b, tp)) \subseteq Range(b)
<1>. DEFINE w == without(b, tp)
<1>1. w \in Seq(T) /\ Kept(b, tp, Len(b), w)
  BY WithoutIs
<1>. HIDE DEF w
<1>2. PICK h \in [1..Len(w) -> 1..Len(b)] : \A i \in 1..Len(w) : w[i] = b[h[i]] /\ w[i].tp # tp
  BY <1>1 DEF Kept
<1>3. DOMAIN w = 1..Len(w) /\ DOMAIN b = 1..Len(b)
  BY <1>1, SMTT(30)
<1>4. ASSUME NEW i \in DOMAIN w PROVE w[i] \in Range(b)
  BY <1>2, <1>3, SMTT(30) DEF Range
<1>5. Range(w) \subseteq Range(b)
  BY <1>4 DEF Range
<1> QED  BY <1>5 DEF w

-----------------------------------------------------------------------------
(* The inductive invariant behind CommittedIsSettled.                        *)

\* A result that says so is of a settled message.
Told(R, D) == \A r \in R : r.res = "safe" => <<r.task.tp, r.task.offset>> \in D

Inv ==
  /\ Types
  /\ Good(c, position, settled, All)
  /\ CommittedIsSettled
  /\ Told(Range(results), settled)

(* Everything in the consumer is a task.                                     *)
LEMMA AllTasks ==
  ASSUME Types
  PROVE  All \subseteq Tasks
<1>1. /\ c \in Fields /\ work \in Seq(Tasks) /\ running \subseteq Tasks
      /\ results \in Seq(Results)
  BY DEF Types
<1>2. \A r \in Range(results) : r.task \in Tasks
  <2>1. Range(results) \subseteq Results
    BY <1>1, RangeIn
  <2> QED  BY <2>1 DEF Results
<1>3. Range(work) \subseteq Tasks /\ Range(c.backlog) \subseteq Tasks
  <2>1. c.backlog \in Seq(Tasks)
    BY <1>1, FieldsAre
  <2> QED  BY <1>1, <2>1, RangeIn
<1>4. QueuedIn(c) \subseteq Tasks
  BY <1>1, QueuedInTasks
<1> QED  BY <1>1, <1>2, <1>3, <1>4, AllWithin

(* The same after a step.                                                    *)
LEMMA AllWithinNext ==
  ASSUME NEW T, running' \subseteq T, Range(work') \subseteq T, \A r \in Range(results') : r.task \in T,
         QueuedIn(c') \subseteq T, Range(c'.backlog) \subseteq T
  PROVE  All' \subseteq T
BY DEF All, InFlight, QueuedIn

\* The conclusion of a step, from what it does to the tasks.
LEMMA InvFrom ==
  ASSUME NEW T \in SUBSET Tasks, Good(c', position', settled', T), work' \in Seq(Tasks),
         running' \in SUBSET Tasks, results' \in Seq(Results),
         position' \in [Partitions -> Int], group' \in [Partitions -> Int], CommittedIsSettled',
         Told(Range(results'), settled'), running' \subseteq T, Range(work') \subseteq T,
         \A r \in Range(results') : r.task \in T, QueuedIn(c') \subseteq T,
         Range(c'.backlog) \subseteq T
  PROVE  Inv'
<1>1. All' \subseteq T
  BY AllWithinNext
<1>2. Good(c', position', settled', All')
  BY <1>1, FewerGood
<1>3. Good(c, position, settled, All)'
  BY <1>2 DEF Good, Entry, EntryOf, Seen, Below, current
<1>4. Types'
  <2>1. c' \in Fields
    BY DEF Good
  <2> QED  BY <2>1 DEF Types
<1>5. Told(Range(results), settled)'
  BY DEF Told
<1> QED  BY <1>3, <1>4, <1>5 DEF Inv

(* No change at all.                                                         *)
LEMMA KinRefl == \A s \in Fields : Kin(s, s)
BY DEF Kin

(* Reading a drained partition again keeps the claims, whether the seek
   succeeds or fails.                                                        *)
LEMMA AndRewindGood ==
  ASSUME NEW s, NEW D, NEW T \in SUBSET Tasks, Good(s, position, D, T),
         position \in [Partitions -> Int], NEW t \in Tasks, s.parts[t.tp] # Gone, NEW pc1,
         AndRewind(s, t, pc1)
  PROVE  /\ Good(c', position', D, T) /\ position' \in [Partitions -> Int]
         /\ QueuedIn(c') = QueuedIn(s) /\ Range(c'.backlog) \subseteq Range(s.backlog)
<1>0. s \in Fields /\ t.tp \in Partitions /\ s.backlog \in Seq(Tasks)
  BY TaskIs, FieldsAre DEF Good
<1>1. CASE c' = s /\ position' = position
  BY <1>1
<1>2. CASE /\ drained(s, t.tp) /\ c' = rewind(s, t.tp)
           /\ position' = [position EXCEPT ![t.tp] = s.parts[t.tp].frontier]
  <2>. DEFINE tp == t.tp
              r == rewind(s, tp)
              X == [position EXCEPT ![tp] = s.parts[tp].frontier]
  <2>1. s.parts[tp].failedAt >= 0
    BY <1>2 DEF drained
  <2>2. Good(r, X, D, T)
    <3>. HIDE DEF r
    <3> QED  BY <1>0, <2>1, RewindGood DEF r
  <2>3. r.keyQueues = s.keyQueues /\ r.backlog = without(s.backlog, tp)
    BY <1>0, RewindIs
  <2>4. X \in [Partitions -> Int]
    <3>1. s.parts[tp] \in Part
      BY <1>0, FieldsAre
    <3>2. s.parts[tp].frontier \in Int
      BY <3>1 DEF Part
    <3> QED  BY <1>0, <3>2
  <2>5. c' = r /\ position' = X
    BY <1>2
  <2>6. Range(without(s.backlog, tp)) \subseteq Range(s.backlog)
    BY <1>0, WithoutRange
  <2>. HIDE DEF r, X, tp
  <2> QED  BY <2>2, <2>3, <2>4, <2>5, <2>6 DEF QueuedIn
<1>3. CASE c' = [s EXCEPT !.backlog = without(@, t.tp)] /\ position' = position
  <2>. DEFINE b == without(s.backlog, t.tp)
              r == [s EXCEPT !.backlog = b]
  <2>1. b \in Seq(Tasks) /\ Range(b) \subseteq Range(s.backlog)
    BY <1>0, WithoutIs, WithoutRange
  <2>2. c' = r
    BY <1>3
  <2>. HIDE DEF b
  <2>3. /\ r \in Fields /\ r.backlog = b /\ r.parts = s.parts /\ r.safe = s.safe
        /\ r.gen = s.gen /\ r.keyQueues = s.keyQueues
    BY <1>0, <2>1, SetBacklog
  <2>. HIDE DEF r
  <2>4. Good(r, position, D, T)
    <3>1. Kin(s, r)
      BY <2>3, KinSame
    <3> QED  BY <3>1, KinGood
  <2>5. QueuedIn(r) = QueuedIn(s)
    BY <2>3 DEF QueuedIn
  <2>6. position' = position
    BY <1>3
  <2> QED  BY <2>1, <2>2, <2>3, <2>4, <2>5, <2>6
<1> QED  BY <1>1, <1>2, <1>3 DEF AndRewind

(* The members of two sequences, one after the other.                        *)
LEMMA RangeConcat ==
  ASSUME NEW T, NEW a \in Seq(T), NEW b \in Seq(T)
  PROVE  a \o b \in Seq(T) /\ Range(a \o b) \subseteq Range(a) \cup Range(b)
<1>1. /\ a \o b \in Seq(T) /\ Len(a) \in Nat /\ Len(b) \in Nat /\ Len(a \o b) = Len(a) + Len(b)
      /\ DOMAIN a = 1..Len(a) /\ DOMAIN b = 1..Len(b) /\ DOMAIN (a \o b) = 1..Len(a) + Len(b)
  BY SMTT(30)
<1>2. ASSUME NEW i \in 1..Len(a) + Len(b) PROVE (a \o b)[i] \in Range(a) \cup Range(b)
  <2>1. CASE i <= Len(a)
    <3>1. (a \o b)[i] = a[i] /\ i \in DOMAIN a
      BY <1>1, <2>1, SMTT(30)
    <3> QED  BY <3>1 DEF Range
  <2>2. CASE i > Len(a)
    <3>1. (a \o b)[i] = b[i - Len(a)] /\ i - Len(a) \in DOMAIN b
      BY <1>1, <2>2, SMTT(30)
    <3> QED  BY <3>1 DEF Range
  <2> QED  BY <1>1, <2>1, <2>2, SMTT(30)
<1> QED  BY <1>1, <1>2 DEF Range

(* A message that is settled and finished: markDone, released and the
   rewind together.                                                          *)
LEMMA FinishedGood ==
  ASSUME NEW s, NEW D, NEW T \in SUBSET Tasks, Good(s, position, D, T),
         position \in [Partitions -> Int], work \in Seq(Tasks), NEW t \in Tasks,
         s.parts[t.tp] # Gone, <<t.tp, t.offset>> \in D, NEW pc1, Finished(s, t, pc1)
  PROVE  /\ Good(c', position', D, T) /\ position' \in [Partitions -> Int]
         /\ QueuedIn(c') \subseteq QueuedIn(s) /\ Range(c'.backlog) \subseteq Range(s.backlog)
         /\ work' \in Seq(Tasks) /\ Range(work') \subseteq Range(work) \cup QueuedIn(s)
<1>. DEFINE m == markDone(s, t)
            r == released(m, t)
<1>1. s \in Fields /\ t.tp \in Partitions
  BY TaskIs DEF Good
<1>2. Good(m, position, D, T)
  BY MarkDoneGood
<1>3. m \in Fields /\ m.parts[t.tp] # Gone /\ m.backlog = s.backlog /\ m.keyQueues = s.keyQueues
  <2>1. m \in Fields
    BY <1>2 DEF Good
  <2>2. m.parts[t.tp] # Gone /\ m.backlog = s.backlog /\ m.keyQueues = s.keyQueues
    BY MarkDoneGood, SMTT(30)
  <2> QED  BY <2>1, <2>2
<1>. HIDE DEF m
<1>4. /\ r \in Fields /\ r.parts = m.parts /\ r.safe = m.safe /\ r.gen = m.gen
      /\ r.backlog = m.backlog
  BY <1>3, ReleasedIs
<1>5. QueuedIn(r) \subseteq QueuedIn(m) /\ QueuedIn(m) = QueuedIn(s)
  <2>1. QueuedIn(r) \subseteq QueuedIn(m)
    BY <1>3, ReleasedQueued
  <2>2. QueuedIn(m) = QueuedIn(s)
    BY <1>3 DEF QueuedIn
  <2> QED  BY <2>1, <2>2
<1>6. Good(r, position, D, T)
  <2>. HIDE DEF r
  <2>1. Kin(m, r)
    BY <1>4, KinSame
  <2> QED  BY <1>2, <2>1, KinGood
<1>7. nextInLine(s, t) \in Seq(Tasks) /\ Range(nextInLine(s, t)) \subseteq QueuedIn(s)
  BY <1>1, ReleasedQueued
<1>8. \E x : AndRewind(r, t, x) /\ work' = work \o nextInLine(s, t)
  BY DEF Finished, m
<1>9. PICK x : AndRewind(r, t, x)
  BY <1>8
<1>10. r.parts[t.tp] # Gone
  BY <1>3, <1>4
<1>. HIDE DEF r
<1>11. /\ Good(c', position', D, T) /\ position' \in [Partitions -> Int]
       /\ QueuedIn(c') = QueuedIn(r) /\ Range(c'.backlog) \subseteq Range(r.backlog)
  BY <1>6, <1>9, <1>10, AndRewindGood
<1>12. work' \in Seq(Tasks) /\ Range(work') \subseteq Range(work) \cup QueuedIn(s)
  <2>. DEFINE n == nextInLine(s, t)
  <2>1. work' = work \o n /\ n \in Seq(Tasks) /\ Range(n) \subseteq QueuedIn(s)
    BY <1>7, <1>8
  <2>. HIDE DEF n
  <2>2. work \o n \in Seq(Tasks) /\ Range(work \o n) \subseteq Range(work) \cup Range(n)
    BY <2>1, RangeConcat
  <2> QED  BY <2>1, <2>2
<1> QED  BY <1>3, <1>4, <1>5, <1>11, <1>12

(* The fields once the counters of complete are down.                        *)
LEMMA LessGood ==
  ASSUME NEW X, NEW D, NEW T \in SUBSET Tasks, Good(c, X, D, T), NEW t \in Tasks, NEW s0, s0 = Less(c)
  PROVE  /\ Good(s0, X, D, T) /\ s0.parts = c.parts /\ s0.backlog = c.backlog
         /\ s0.keyQueues = c.keyQueues
<1>1. c \in Fields /\ c.inflight \in Int
  BY FieldsAre DEF Good
<1>. DEFINE n == c.inflight - 1
<1>2. n \in Int /\ s0 = [c EXCEPT !.inflight = n]
  BY <1>1, SMTT(30) DEF Less
<1>. HIDE DEF n
<1>3. /\ s0 \in Fields /\ s0.parts = c.parts /\ s0.safe = c.safe /\ s0.gen = c.gen
      /\ s0.backlog = c.backlog /\ s0.keyQueues = c.keyQueues
  BY ONLY <1>1, <1>2, SetInflight, Zenon
<1>4. Kin(c, s0)
  BY <1>3, KinSame
<1> QED  BY <1>3, <1>4, KinGood

(* complete counts a message out.                                            *)
LEMMA PartLessGood ==
  ASSUME NEW s0, NEW X, NEW D, NEW T \in SUBSET Tasks, Good(s0, X, D, T), NEW t \in Tasks,
         s0.parts[t.tp] # Gone, NEW s, s = PartLess(s0, t.tp)
  PROVE  /\ Good(s, X, D, T) /\ s.parts[t.tp] # Gone /\ s.backlog = s0.backlog
         /\ s.parts[t.tp].next = s0.parts[t.tp].next /\ s.keyQueues = s0.keyQueues
<1>. DEFINE tp == t.tp
            p == s0.parts[tp]
            q == [p EXCEPT !.inflight = p.inflight - 1]
<1>1. s0 \in Fields /\ tp \in Partitions /\ s0.parts \in [Partitions -> Part \cup {Gone}]
  BY TaskIs, FieldsAre DEF Good
<1>2. /\ s \in Fields /\ q \in Part /\ s.parts = [s0.parts EXCEPT ![tp] = q] /\ s.safe = s0.safe
      /\ s.gen = s0.gen /\ s.backlog = s0.backlog /\ s.keyQueues = s0.keyQueues
  BY <1>1, PartLessIs
<1>3. p \in Part
  BY <1>1
<1>4. KinPart(p, q)
  <2>. HIDE DEF p
  <2> QED  BY <1>3 DEF KinPart, Part
<1>5. q # Gone /\ s.parts[tp] = q /\ q.next = p.next
  <2>1. q.next = p.next
    BY <1>4 DEF KinPart
  <2>. HIDE DEF q
  <2> QED  BY <1>1, <1>2, <2>1, GoneIs
<1>6. Kin(s0, s)
  <2>. HIDE DEF q
  <2> QED  BY <1>1, <1>2, <1>4, KinOne, SMTT(30)
<1>7. Good(s, X, D, T)
  BY <1>6, KinGood
<1> QED  BY <1>2, <1>5, <1>7

(* dropQueued keeps the claims.                                              *)
LEMMA DropGood ==
  ASSUME NEW s, NEW X, NEW D, NEW T \in SUBSET Tasks, Good(s, X, D, T), NEW t \in Tasks,
         s.parts[t.tp] # Gone, NEW r, r = dropQueued(s, t)
  PROVE  /\ Good(r, X, D, T) /\ r.parts[t.tp] # Gone /\ r.backlog = s.backlog
         /\ r.parts[t.tp].next = s.parts[t.tp].next /\ QueuedIn(r) \subseteq QueuedIn(s)
<1>1. CASE ~keyed(t)
  <2>1. r = s
    BY <1>1 DEF dropQueued
  <2> QED  BY <2>1
<1>2. CASE keyed(t)
  <2>. DEFINE tp == t.tp
              p == s.parts[tp]
              n == Len(s.keyQueues[line(t)].tasks)
              q == LessEntry(p, n)
  <2>1. /\ s \in Fields /\ tp \in Partitions /\ s.parts \in [Partitions -> Part \cup {Gone}]
        /\ line(t) \in Lines
    BY TaskIs, FieldsAre DEF Good
  <2>2. n \in Nat
    BY <2>1, QueueIs
  <2>3. /\ r \in Fields /\ r.safe = s.safe /\ r.gen = s.gen /\ q \in Part
        /\ r.parts = [s.parts EXCEPT ![tp] = q] /\ r.backlog = s.backlog
        /\ r.keyQueues = [s.keyQueues EXCEPT ![line(t)] = Free]
    <3>1. n = Len(s.keyQueues[line(t)].tasks) /\ q = LessEntry(s.parts[t.tp], n)
      OBVIOUS
    <3>. HIDE DEF n, q, p
    <3> QED  BY <1>2, <2>1, <2>2, <3>1, DropIs, SMTT(30)
  <2>4. p \in Part
    BY <2>1
  <2>5. KinPart(p, q)
    <3>. HIDE DEF p, n
    <3> QED  BY <2>4 DEF KinPart, Part, LessEntry
  <2>6. q # Gone /\ r.parts[tp] = q /\ q.next = p.next
    <3>1. q.next = p.next
      BY <2>5 DEF KinPart
    <3>. HIDE DEF q
    <3> QED  BY <2>1, <2>3, <3>1, GoneIs
  <2>7. Kin(s, r)
    <3>. HIDE DEF q
    <3> QED  BY <2>1, <2>3, <2>5, KinOne, SMTT(30)
  <2>8. Good(r, X, D, T)
    BY <2>7, KinGood
  <2>9. QueuedIn(r) \subseteq QueuedIn(s)
    <3>1. Range(Free.tasks) \subseteq Range(s.keyQueues[line(t)].tasks)
      BY FreeIs, EmptyRange
    <3> QED  BY <2>1, <2>3, <3>1, LineShrinks, SMTT(30)
  <2> QED  BY <2>3, <2>6, <2>8, <2>9
<1> QED  BY <1>1, <1>2

(* noteFailure keeps the claims of a partition that has accepted something.  *)
LEMMA NoteGood ==
  ASSUME NEW s, NEW X, NEW D, NEW T \in SUBSET Tasks, Good(s, X, D, T), NEW t \in Tasks,
         s.parts[t.tp] # Gone, s.parts[t.tp].next >= 0, NEW r, r = noteFailure(s, t)
  PROVE  /\ Good(r, X, D, T) /\ r.parts[t.tp] # Gone /\ r.backlog = s.backlog
         /\ QueuedIn(r) = QueuedIn(s)
<1>. DEFINE tp == t.tp
            p == s.parts[tp]
            at == IF p.failedAt < 0 \/ t.offset < p.failedAt THEN t.offset ELSE p.failedAt
            q == [p EXCEPT !.failedAt = at]
<1>1. s \in Fields /\ tp \in Partitions /\ s.parts \in [Partitions -> Part \cup {Gone}]
  BY TaskIs, FieldsAre DEF Good
<1>2. /\ r \in Fields /\ r.safe = s.safe /\ r.gen = s.gen /\ q \in Part
      /\ r.parts = [s.parts EXCEPT ![tp] = q] /\ r.backlog = s.backlog
      /\ r.keyQueues = s.keyQueues
  BY <1>1, NoteIs
<1>3. p \in Part
  BY <1>1
<1>4. KinPart(p, q)
  <2>1. p.next >= 0
    OBVIOUS
  <2>. HIDE DEF p, at
  <2> QED  BY <1>3, <2>1 DEF KinPart, Part
<1>. HIDE DEF q
<1>5. q # Gone /\ r.parts[tp] = q
  BY <1>1, <1>2, GoneIs
<1>6. Kin(s, r)
  BY <1>1, <1>2, <1>4, KinOne, SMTT(30)
<1>7. Good(r, X, D, T)
  BY <1>6, KinGood
<1> QED  BY <1>2, <1>5, <1>7, SMTT(30) DEF QueuedIn

\* What complete is about.
Applied(r, T) ==
  /\ T \in SUBSET Tasks /\ Good(c, position, settled, T) /\ position \in [Partitions -> Int]
  /\ work \in Seq(Tasks) /\ r.task \in T
  /\ r.res = "safe" => <<r.task.tp, r.task.offset>> \in settled
  /\ QueuedIn(c) \subseteq T /\ Range(work) \subseteq T /\ Range(c.backlog) \subseteq T

Completed(T) ==
  /\ Good(c', position', settled', T) /\ position' \in [Partitions -> Int]
  /\ work' \in Seq(Tasks) /\ settled \subseteq settled'
  /\ QueuedIn(c') \subseteq T /\ Range(work') \subseteq T /\ Range(c'.backlog) \subseteq T

(* complete keeps the claims, whatever the result.                           *)
LEMMA CompleteGood ==
  ASSUME NEW r, NEW T, Applied(r, T), NEW pc1, complete(r, pc1)
  PROVE  Completed(T)
<1>. DEFINE t == r.task
            s0 == Less(c)
            s == PartLess(s0, t.tp)
<1>1. /\ T \in SUBSET Tasks /\ Good(c, position, settled, T) /\ position \in [Partitions -> Int]
      /\ work \in Seq(Tasks) /\ t \in T /\ t \in Tasks
      /\ QueuedIn(c) \subseteq T /\ Range(work) \subseteq T /\ Range(c.backlog) \subseteq T
  BY DEF Applied
<1>2. /\ Good(s0, position, settled, T) /\ s0.parts = c.parts /\ s0.backlog = c.backlog
      /\ s0.keyQueues = c.keyQueues
  <2>. HIDE DEF t
  <2> QED  BY <1>1, LessGood, SMTT(30)
<1>3. QueuedIn(s0) = QueuedIn(c)
  BY <1>2 DEF QueuedIn
<1>4. ASSUME current(c, t)
      PROVE  /\ Good(s, position, settled, T) /\ s.parts[t.tp] # Gone /\ s.backlog = c.backlog
             /\ s.parts[t.tp].next >= 0 /\ QueuedIn(s) = QueuedIn(c)
  <2>1. s0.parts[t.tp] # Gone
    BY <1>2, <1>4 DEF current
  <2>. HIDE DEF t, s0
  <2>2. /\ Good(s, position, settled, T) /\ s.parts[t.tp] # Gone /\ s.backlog = s0.backlog
        /\ s.parts[t.tp].next = s0.parts[t.tp].next /\ s.keyQueues = s0.keyQueues
    BY <1>1, <1>2, <2>1, PartLessGood, SMTT(30)
  <2>3. c.parts[t.tp].next >= 0
    BY <1>1, <1>4 DEF Good, Seen
  <2> QED  BY <1>2, <1>3, <2>2, <2>3 DEF QueuedIn
<1>5. /\ s0 = [c EXCEPT !.inflight = @ - 1]
      /\ s = [[c EXCEPT !.inflight = @ - 1] EXCEPT !.parts[r.task.tp].inflight = @ - 1]
  BY DEF Less, PartLess
<1>6. CASE /\ ~current(c, t) /\ c' = s0 /\ work' = work /\ position' = position /\ settled' = settled
  BY <1>1, <1>2, <1>3, <1>6 DEF Completed
<1>7. CASE current(c, t) /\ r.res = "safe" /\ Finished(s, t, pc1) /\ settled' = settled
  <2>1. <<t.tp, t.offset>> \in settled
    BY <1>7 DEF Applied
  <2>. HIDE DEF s, t
  <2>2. /\ Good(c', position', settled, T) /\ position' \in [Partitions -> Int]
        /\ QueuedIn(c') \subseteq QueuedIn(s) /\ Range(c'.backlog) \subseteq Range(s.backlog)
        /\ work' \in Seq(Tasks) /\ Range(work') \subseteq Range(work) \cup QueuedIn(s)
    BY <1>1, <1>4, <1>7, <2>1, FinishedGood
  <2> QED  BY <1>1, <1>4, <1>7, <2>2 DEF Completed
<1>8. CASE current(c, t) /\ Finished(s, t, pc1) /\ settled' = settled \cup {<<t.tp, t.offset>>}
  <2>1. <<t.tp, t.offset>> \in settled' /\ settled \subseteq settled'
    BY <1>8
  <2>. HIDE DEF s, t
  <2>2. Good(s, position, settled', T)
    BY <1>4, <1>8, <2>1, MoreGood
  <2>3. /\ Good(c', position', settled', T) /\ position' \in [Partitions -> Int]
        /\ QueuedIn(c') \subseteq QueuedIn(s) /\ Range(c'.backlog) \subseteq Range(s.backlog)
        /\ work' \in Seq(Tasks) /\ Range(work') \subseteq Range(work) \cup QueuedIn(s)
    BY <1>1, <1>4, <1>8, <2>1, <2>2, FinishedGood
  <2> QED  BY <1>1, <1>4, <1>8, <2>1, <2>3 DEF Completed
<1>9. CASE current(c, t) /\ c' = s /\ work' = work /\ position' = position /\ settled' = settled
  <2>. HIDE DEF s, t
  <2> QED  BY <1>1, <1>4, <1>9 DEF Completed
<1>. DEFINE d == dropQueued(s, t)
<1>10. ASSUME current(c, t)
       PROVE  /\ Good(d, position, settled, T) /\ d.parts[t.tp] # Gone /\ d.backlog = c.backlog
              /\ d.parts[t.tp].next >= 0 /\ QueuedIn(d) \subseteq QueuedIn(c)
  <2>. HIDE DEF s, t
  <2>1. /\ Good(d, position, settled, T) /\ d.parts[t.tp] # Gone /\ d.backlog = s.backlog
        /\ d.parts[t.tp].next = s.parts[t.tp].next /\ QueuedIn(d) \subseteq QueuedIn(s)
    BY <1>1, <1>4, <1>10, DropGood
  <2> QED  BY <1>4, <1>10, <2>1
<1>11. CASE current(c, t) /\ c' = d /\ work' = work /\ position' = position /\ settled' = settled
  <2>. HIDE DEF d, s, t
  <2> QED  BY <1>1, <1>10, <1>11 DEF Completed
<1>12. CASE /\ current(c, t) /\ work' = work /\ settled' = settled
            /\ AndRewind(IF cancelled \/ stopping THEN d ELSE noteFailure(d, t), t, pc1)
  <2>. DEFINE e == IF cancelled \/ stopping THEN d ELSE noteFailure(d, t)
              n == noteFailure(d, t)
  <2>. HIDE DEF d, s, t
  <2>1. /\ Good(n, position, settled, T) /\ n.parts[t.tp] # Gone /\ n.backlog = d.backlog
        /\ QueuedIn(n) = QueuedIn(d)
    BY <1>1, <1>10, <1>12, NoteGood, SMTT(30)
  <2>2. e = d \/ e = n
    OBVIOUS
  <2>3. AndRewind(e, t, pc1)
    BY <1>12
  <2>. HIDE DEF e, n
  <2>4. /\ Good(e, position, settled, T) /\ e.parts[t.tp] # Gone /\ e.backlog = c.backlog
        /\ QueuedIn(e) \subseteq QueuedIn(c)
    BY <1>10, <1>12, <2>1, <2>2
  <2>5. /\ Good(c', position', settled, T) /\ position' \in [Partitions -> Int]
        /\ QueuedIn(c') = QueuedIn(e) /\ Range(c'.backlog) \subseteq Range(e.backlog)
    BY <1>1, <2>3, <2>4, AndRewindGood
  <2> QED  BY <1>1, <1>12, <2>4, <2>5 DEF Completed
<1> QED
  BY <1>6, <1>7, <1>8, <1>9, <1>11, <1>12 DEF complete, Less, PartLess

-----------------------------------------------------------------------------
(* The steps.                                                                *)

(* What the invariant gives.                                                 *)
LEMMA InvHas ==
  ASSUME Inv
  PROVE  /\ c \in Fields /\ work \in Seq(Tasks) /\ running \in SUBSET Tasks
         /\ results \in Seq(Results) /\ position \in [Partitions -> Int]
         /\ group \in [Partitions -> Int] /\ Good(c, position, settled, All)
         /\ All \in SUBSET Tasks /\ CommittedIsSettled /\ Told(Range(results), settled)
         /\ running \subseteq All /\ Range(work) \subseteq All /\ QueuedIn(c) \subseteq All
         /\ Range(c.backlog) \subseteq All /\ \A r \in Range(results) : r.task \in All
<1>1. Types /\ Good(c, position, settled, All) /\ CommittedIsSettled /\ Told(Range(results), settled)
  BY DEF Inv
<1>2. All \in SUBSET Tasks
  BY <1>1, AllTasks
<1> QED  BY <1>1, <1>2, AllHas DEF Types

(* Fewer results, or more that is settled.                                   *)
LEMMA ToldKept ==
  ASSUME NEW R, NEW S, NEW D, NEW E, Told(R, D), S \subseteq R, D \subseteq E
  PROVE  Told(S, E)
BY DEF Told

\* A step that leaves the group alone.
LEMMA CommitKept ==
  ASSUME CommittedIsSettled, group' = group, settled \subseteq settled'
  PROVE  CommittedIsSettled'
BY DEF CommittedIsSettled

\* A step that commits what is safe.
LEMMA CommitSafe ==
  ASSUME CommittedIsSettled, NEW s, NEW X, NEW T, Good(s, X, settled, T), NEW tps,
         group' = groupAfter(s, tps), settled' = settled, group \in [Partitions -> Int]
  PROVE  CommittedIsSettled' /\ group' \in [Partitions -> Int]
<1>1. s \in Fields /\ s.safe \in [Partitions -> Int]
  BY FieldsAre DEF Good
<1>2. \A tp \in Partitions : group'[tp] = IF tp \in tps THEN s.safe[tp] ELSE group[tp]
  BY DEF groupAfter
<1>3. group' \in [Partitions -> Int]
  BY <1>1 DEF groupAfter
<1>4. ASSUME NEW tp \in Partitions PROVE Below(tp, s.safe[tp], settled)
  BY DEF Good, Entry
<1>5. ASSUME NEW tp \in Partitions, NEW o \in 0..group'[tp] - 1 PROVE <<tp, o>> \in settled'
  <2>1. CASE tp \in tps
    BY <1>2, <1>4, <1>5, <2>1 DEF Below
  <2>2. CASE tp \notin tps
    BY <1>2, <1>5, <2>2 DEF CommittedIsSettled
  <2> QED  BY <2>1, <2>2
<1> QED  BY <1>3, <1>5 DEF CommittedIsSettled

\* A step of Run that leaves the tasks, the client and the group's offsets alone.
LEMMA KinStep ==
  ASSUME Inv, Good(c', position, settled, All), QueuedIn(c') \subseteq All,
         Range(c'.backlog) \subseteq All, CommittedIsSettled', group' \in [Partitions -> Int],
         UNCHANGED <<work, running, results, position, settled>>
  PROVE  Inv'
<1>1. /\ work \in Seq(Tasks) /\ running \in SUBSET Tasks
      /\ results \in Seq(Results) /\ position \in [Partitions -> Int]
      /\ All \in SUBSET Tasks /\ Told(Range(results), settled)
      /\ running \subseteq All /\ Range(work) \subseteq All
      /\ \A r \in Range(results) : r.task \in All
  BY InvHas
<1>. DEFINE T == All
<1>2. /\ T \in SUBSET Tasks /\ Good(c', position', settled', T) /\ work' \in Seq(Tasks)
      /\ running' \in SUBSET Tasks /\ results' \in Seq(Results)
      /\ position' \in [Partitions -> Int]
      /\ Told(Range(results'), settled') /\ running' \subseteq T /\ Range(work') \subseteq T
      /\ \A r \in Range(results') : r.task \in T
      /\ QueuedIn(c') \subseteq T /\ Range(c'.backlog) \subseteq T
  BY <1>1
<1>. HIDE DEF T
<1> QED  BY <1>2, InvFrom

(* A result is applied, in the loop or in the last drain.                    *)
LEMMA ApplyInv ==
  ASSUME Inv, NEW pc1, Apply(pc1)
  PROVE  Inv'
<1>. DEFINE r == Head(results)
            T == All
<1>1. /\ results # <<>> /\ results' = Tail(results) /\ complete(r, pc1) /\ running' = running
      /\ group' = group
  BY DEF Apply
<1>2. /\ work \in Seq(Tasks) /\ running \in SUBSET Tasks
      /\ results \in Seq(Results) /\ position \in [Partitions -> Int]
      /\ group \in [Partitions -> Int] /\ Good(c, position, settled, T)
      /\ T \in SUBSET Tasks /\ CommittedIsSettled /\ Told(Range(results), settled)
      /\ running \subseteq T /\ Range(work) \subseteq T /\ QueuedIn(c) \subseteq T
      /\ Range(c.backlog) \subseteq T /\ \A x \in Range(results) : x.task \in T
  BY InvHas
<1>. HIDE DEF T
<1>3. Tail(results) \in Seq(Results) /\ Range(results) = Range(Tail(results)) \cup {r}
  BY <1>1, <1>2, Shrinks, ShrinksTo
<1>4. Applied(r, T)
  <2>1. r \in Range(results)
    BY <1>3
  <2>. HIDE DEF r
  <2> QED  BY <1>2, <2>1 DEF Applied, Told
<1>5. Completed(T)
  <2>. HIDE DEF r
  <2> QED  BY <1>1, <1>4, CompleteGood
<1>6. Told(Range(results'), settled')
  BY <1>1, <1>2, <1>3, <1>5, ToldKept DEF Completed
<1>7. CommittedIsSettled'
  BY <1>1, <1>2, <1>5, CommitKept DEF Completed
<1>8. \A x \in Range(results') : x.task \in T
  BY <1>1, <1>2, <1>3
<1> QED  BY <1>1, <1>2, <1>3, <1>5, <1>6, <1>7, <1>8, InvFrom DEF Completed

(* Throttling, pausing and committing: only what is safe is committed.       *)
LEMMA TurnInv ==
  ASSUME Inv, Turn
  PROVE  Inv'
<1>1. PICK refusing \in BOOLEAN, ok \in BOOLEAN :
        LET s == reconcile(updateThrottle(c), refusing, ok)
            due == pending(s, Partitions)
        IN \/ c' = s /\ UNCHANGED group
           \/ /\ s.dirty
              /\ c' = [committedAll(s, due) EXCEPT !.dirty = FALSE]
              /\ group' = groupAfter(s, due)
  BY DEF Turn
<1>. DEFINE a == updateThrottle(c)
            s == reconcile(a, refusing, ok)
            due == pending(s, Partitions)
            b == committedAll(s, due)
            d == [b EXCEPT !.dirty = FALSE]
<1>2. /\ c \in Fields /\ Good(c, position, settled, All) /\ All \in SUBSET Tasks
      /\ CommittedIsSettled /\ group \in [Partitions -> Int] /\ QueuedIn(c) \subseteq All
      /\ Range(c.backlog) \subseteq All
  BY InvHas
<1>3. /\ a \in Fields /\ a.parts = c.parts /\ a.safe = c.safe /\ a.gen = c.gen
      /\ a.backlog = c.backlog /\ a.keyQueues = c.keyQueues
  BY <1>2, ThrottleIs
<1>4. /\ s \in Fields /\ s.safe = a.safe /\ s.gen = a.gen
      /\ s.backlog = a.backlog /\ s.keyQueues = a.keyQueues /\ Repaused(a, s, ok)
  <2>. HIDE DEF a
  <2> QED  BY <1>3, ReconcileIs
<1>. HIDE DEF a, s
<1>5. Kin(c, s)
  <2>1. ASSUME NEW tp \in Partitions, NEW x \in BOOLEAN, a.parts[tp] # Gone,
               s.parts[tp] = [a.parts[tp] EXCEPT !.paused = x]
        PROVE  s.parts[tp] # Gone /\ KinPart(c.parts[tp], s.parts[tp])
    <3>. DEFINE p == a.parts[tp]
                q == [p EXCEPT !.paused = x]
    <3>1. p \in Part /\ p = c.parts[tp] /\ s.parts[tp] = q
      BY <1>3, <2>1, FieldsAre
    <3>. HIDE DEF p
    <3>2. q \in Part /\ KinPart(p, q)
      BY <3>1 DEF KinPart, Part
    <3>. HIDE DEF q
    <3> QED  BY <3>1, <3>2, GoneIs
  <2>2. ASSUME NEW tp \in Partitions
        PROVE  \/ s.parts[tp] = c.parts[tp]
               \/ c.parts[tp] # Gone /\ s.parts[tp] # Gone /\ KinPart(c.parts[tp], s.parts[tp])
    BY <1>3, <1>4, <2>1 DEF Repaused
  <2> QED  BY <1>3, <1>4, <2>2 DEF Kin
<1>6. Good(s, position, settled, All)
  BY <1>2, <1>5, KinGood
<1>7. CASE c' = s /\ group' = group
  <2>1. CommittedIsSettled'
    BY <1>2, <1>7, CommitKept DEF Turn
  <2>2. QueuedIn(c') \subseteq All /\ Range(c'.backlog) \subseteq All
    BY <1>2, <1>3, <1>4, <1>7 DEF QueuedIn
  <2> QED  BY <1>2, <1>6, <1>7, <2>1, <2>2, KinStep DEF Turn
<1>8. CASE c' = d /\ group' = groupAfter(s, due)
  <2>1. /\ b \in Fields /\ b.parts = s.parts /\ b.safe = s.safe /\ b.gen = s.gen
        /\ b.backlog = s.backlog /\ b.keyQueues = s.keyQueues
    <3>. HIDE DEF due
    <3> QED  BY <1>4, CommittedIs
  <2>2. /\ d \in Fields /\ d.parts = b.parts /\ d.safe = b.safe /\ d.gen = b.gen
        /\ d.backlog = b.backlog /\ d.keyQueues = b.keyQueues
    <3>. HIDE DEF b
    <3> QED  BY <2>1, CleanIs
  <2>. HIDE DEF b, d, due
  <2>3. Good(d, position, settled, All)
    <3>1. Kin(s, d)
      BY <2>1, <2>2, KinSame
    <3> QED  BY <1>2, <1>6, <3>1, KinGood
  <2>4. CommittedIsSettled' /\ group' \in [Partitions -> Int]
    BY <1>2, <1>6, <1>8, CommitSafe DEF Turn
  <2>5. QueuedIn(c') \subseteq All /\ Range(c'.backlog) \subseteq All
    BY <1>2, <1>3, <1>4, <1>8, <2>1, <2>2 DEF QueuedIn
  <2> QED  BY <1>8, <2>3, <2>4, <2>5, KinStep DEF Turn
<1> QED  BY <1>1, <1>7, <1>8 DEF a, s

(* A worker takes a task.                                                    *)
LEMMA TakeInv ==
  ASSUME Inv, Take
  PROVE  Inv'
<1>. DEFINE T == All
<1>1. /\ work # <<>> /\ running' = running \cup {Head(work)} /\ work' = Tail(work)
      /\ UNCHANGED <<c, results, position, group, settled>>
  BY DEF Take
<1>2. /\ work \in Seq(Tasks) /\ running \in SUBSET Tasks
      /\ results \in Seq(Results) /\ position \in [Partitions -> Int]
      /\ group \in [Partitions -> Int] /\ Good(c, position, settled, T)
      /\ T \in SUBSET Tasks /\ CommittedIsSettled /\ Told(Range(results), settled)
      /\ running \subseteq T /\ Range(work) \subseteq T /\ QueuedIn(c) \subseteq T
      /\ Range(c.backlog) \subseteq T /\ \A x \in Range(results) : x.task \in T
  BY InvHas
<1>. HIDE DEF T
<1>3. /\ Tail(work) \in Seq(Tasks) /\ Head(work) \in Tasks
      /\ Range(work) = Range(Tail(work)) \cup {Head(work)}
  BY <1>1, <1>2, Shrinks, ShrinksTo
<1>4. CommittedIsSettled'
  BY <1>1, <1>2, CommitKept
<1>5. /\ running' \in SUBSET Tasks /\ running' \subseteq T
      /\ work' \in Seq(Tasks) /\ Range(work') \subseteq T
  BY <1>1, <1>2, <1>3
<1>6. /\ results' \in Seq(Results) /\ position' \in [Partitions -> Int]
      /\ group' \in [Partitions -> Int] /\ Good(c', position', settled', T)
      /\ Told(Range(results'), settled') /\ \A x \in Range(results') : x.task \in T
      /\ QueuedIn(c') \subseteq T /\ Range(c'.backlog) \subseteq T
  BY <1>1, <1>2
<1> QED  BY <1>2, <1>4, <1>5, <1>6, InvFrom

(* A worker refuses a task because the context has ended.                    *)
LEMMA RefuseInv ==
  ASSUME Inv, Refuse
  PROVE  Inv'
<1>. DEFINE T == All
            x == [task |-> Head(work), res |-> "failed"]
<1>1. /\ work # <<>> /\ results' = Append(results, x) /\ work' = Tail(work)
      /\ UNCHANGED <<c, running, position, group, settled>>
  BY DEF Refuse
<1>2. /\ work \in Seq(Tasks) /\ running \in SUBSET Tasks
      /\ results \in Seq(Results) /\ position \in [Partitions -> Int]
      /\ group \in [Partitions -> Int] /\ Good(c, position, settled, T)
      /\ T \in SUBSET Tasks /\ CommittedIsSettled /\ Told(Range(results), settled)
      /\ running \subseteq T /\ Range(work) \subseteq T /\ QueuedIn(c) \subseteq T
      /\ Range(c.backlog) \subseteq T /\ \A y \in Range(results) : y.task \in T
  BY InvHas
<1>. HIDE DEF T
<1>3. /\ Tail(work) \in Seq(Tasks) /\ Head(work) \in Tasks
      /\ Range(work) = Range(Tail(work)) \cup {Head(work)}
  BY <1>1, <1>2, Shrinks, ShrinksTo
<1>4. x \in Results /\ x.task = Head(work) /\ x.res # "safe"
  BY <1>3 DEF Results, Outcomes
<1>. HIDE DEF x
<1>5. results' \in Seq(Results) /\ Range(results') = Range(results) \cup {x}
  BY <1>1, <1>2, <1>4, Grows, SMTT(30)
<1>6. Told(Range(results'), settled')
  BY <1>1, <1>2, <1>4, <1>5 DEF Told
<1>7. \A y \in Range(results') : y.task \in T
  BY <1>2, <1>3, <1>4, <1>5
<1>8. CommittedIsSettled'
  BY <1>1, <1>2, CommitKept
<1> QED  BY <1>1, <1>2, <1>3, <1>5, <1>6, <1>7, <1>8, InvFrom

(* A worker ends: it says a message is safe only when it is settled.         *)
LEMMA ExecInv ==
  ASSUME Inv, NEW t \in running, exec(t)
  PROVE  Inv'
<1>. DEFINE T == All
<1>1. /\ running' = running \ {t} /\ UNCHANGED <<c, work, position, group>>
  BY DEF exec
<1>2. /\ work \in Seq(Tasks) /\ running \in SUBSET Tasks
      /\ results \in Seq(Results) /\ position \in [Partitions -> Int]
      /\ group \in [Partitions -> Int] /\ Good(c, position, settled, T)
      /\ T \in SUBSET Tasks /\ CommittedIsSettled /\ Told(Range(results), settled)
      /\ running \subseteq T /\ Range(work) \subseteq T /\ QueuedIn(c) \subseteq T
      /\ Range(c.backlog) \subseteq T /\ \A y \in Range(results) : y.task \in T
  BY InvHas
<1>3. PICK res \in Outcomes :
        /\ results' = Append(results, [task |-> t, res |-> res])
        /\ settled \subseteq settled'
        /\ res = "safe" => <<t.tp, t.offset>> \in settled'
  <2>1. \A f \in Failures : f \in Outcomes /\ f # "safe"
    BY ConsumerAssumption DEF Outcomes
  <2>2. "safe" \in Outcomes
    BY DEF Outcomes
  <2> QED  BY <2>1, <2>2 DEF exec
<1>. DEFINE x == [task |-> t, res |-> res]
<1>4. x \in Results /\ x.task = t /\ x.res = res
  BY <1>2 DEF Results
<1>. HIDE DEF T, x
<1>5. results' \in Seq(Results) /\ Range(results') = Range(results) \cup {x}
  <2>1. results' = Append(results, x)
    BY <1>3 DEF x
  <2> QED  BY <1>2, <1>4, <2>1, Grows, SMTT(30)
<1>6. Told(Range(results'), settled')
  BY <1>2, <1>3, <1>4, <1>5 DEF Told
<1>7. \A y \in Range(results') : y.task \in T
  BY <1>2, <1>4, <1>5
<1>8. CommittedIsSettled'
  BY <1>1, <1>2, <1>3, CommitKept
<1>9. Good(c', position', settled', T)
  <2>1. Good(c, position, settled', T)
    BY <1>2, <1>3, MoreGood
  <2> QED  BY <1>1, <2>1
<1> QED  BY <1>1, <1>2, <1>5, <1>6, <1>7, <1>8, <1>9, InvFrom

(* accept, for any delivery the client makes.                                *)
LEMMA AcceptInv ==
  ASSUME Inv, NEW tp \in Partitions, c.parts[tp] # Gone, NEW offset \in Offsets(tp), NEW after \in Int,
         c.parts[tp].next < 0 => offset = position[tp], accept(tp, offset, after),
         UNCHANGED <<work, running, results, group, settled>>
  PROVE  Inv'
<1>. DEFINE T == All
            p == c.parts[tp]
            q == TakenEntry(p, offset)
            u == TaskFor(p, tp, offset)
            taken == [c EXCEPT !.parts[tp] = q]
            queued == [taken EXCEPT !.backlog = Append(c.backlog, u)]
            expected == p.failedAt < 0 /\ (p.next < 0 \/ offset = p.next)
<1>1. /\ c \in Fields /\ work \in Seq(Tasks) /\ running \in SUBSET Tasks
      /\ results \in Seq(Results) /\ position \in [Partitions -> Int]
      /\ group \in [Partitions -> Int] /\ Good(c, position, settled, T)
      /\ T \in SUBSET Tasks /\ CommittedIsSettled /\ Told(Range(results), settled)
      /\ running \subseteq T /\ Range(work) \subseteq T /\ QueuedIn(c) \subseteq T
      /\ Range(c.backlog) \subseteq T /\ \A y \in Range(results) : y.task \in T
  BY InvHas
<1>. HIDE DEF T
<1>2. p \in Part /\ p.next \in Int /\ p.failedAt \in Int
  <2>1. p \in Part
    BY <1>1, FieldsAre
  <2>. HIDE DEF p
  <2> QED  BY <2>1 DEF Part
<1>3. CommittedIsSettled'
  BY <1>1, CommitKept
<1>4. /\ position' \in [Partitions -> Int]
      /\ \A x \in Partitions : x # tp => position'[x] = position[x]
  <2>1. PICK n \in Int : position' = [position EXCEPT ![tp] = n]
    <3>1. position' = [position EXCEPT ![tp] =
                         IF p.failedAt < 0 /\ p.next >= 0 /\ offset > p.next THEN p.next ELSE after]
      BY DEF accept
    <3>. HIDE DEF p
    <3> QED  BY <1>2, <3>1
  <2> QED  BY <1>1, <2>1
<1>5. \/ ~expected /\ c' = c
      \/ expected /\ c' \in {taken, queued}
  <2>1. c' = IF ~expected THEN c ELSE IF offset \in p.completed THEN taken ELSE queued
    BY DEF accept, TakenEntry, TaskFor, Fields
  <2>. HIDE DEF taken, queued, expected
  <2> QED  BY <2>1
<1>6. CASE ~expected /\ c' = c
  <2>1. p.next >= 0
    <3>1. EntryOf(p, tp, position[tp], settled)
      BY <1>1 DEF Good, Entry
    <3>. HIDE DEF p
    <3> QED  BY <1>2, <1>6, <3>1, SMTT(30) DEF EntryOf
  <2>2. ASSUME NEW x \in Partitions PROVE Entry(c, x, position'[x], settled)
    <3>1. Entry(c, x, position[x], settled)
      BY <1>1 DEF Good
    <3>2. CASE x = tp
      BY <1>2, <2>1, <3>1, <3>2, SMTT(30) DEF Entry, EntryOf
    <3>3. CASE x # tp
      BY <1>4, <3>1, <3>3
    <3> QED  BY <3>2, <3>3
  <2>3. Good(c', position', settled', T)
    BY <1>1, <1>6, <2>2 DEF Good
  <2> QED  BY <1>1, <1>3, <1>4, <1>6, <2>3, InvFrom
<1>7. CASE expected /\ c' \in {taken, queued}
  <2>. DEFINE U == T \cup {u}
  <2>1. u \in Tasks
    <3>. HIDE DEF p
    <3> QED  BY <1>2, TaskForIs
  <2>2. q = TakenEntry(c.parts[tp], offset) /\ u = TaskFor(c.parts[tp], tp, offset)
    OBVIOUS
  <2>3. taken = [c EXCEPT !.parts[tp] = q] /\ queued = [taken EXCEPT !.backlog = Append(c.backlog, u)]
    OBVIOUS
  <2>4. c.parts[tp].failedAt < 0
    BY <1>7
  <2>. HIDE DEF q, u, p, taken, queued, expected
  <2>6. /\ c' \in Fields /\ c'.parts = [c.parts EXCEPT ![tp] = q]
        /\ c'.safe = c.safe /\ c'.gen = c.gen /\ c'.keyQueues = c.keyQueues
        /\ c'.backlog = IF c' = taken THEN c.backlog ELSE Append(c.backlog, u)
    <3>0. q \in Part
      <4>1. c.parts[tp] \in Part /\ offset \in Nat
        BY <1>1, FieldsAre, ConsumerAssumption, SMTT(30) DEF Offsets
      <4> QED  BY ONLY <2>2, <4>1, TakenIs, Zenon
    <3>1. /\ taken \in Fields /\ taken.parts = [c.parts EXCEPT ![tp] = q] /\ taken.safe = c.safe
          /\ taken.gen = c.gen /\ taken.backlog = c.backlog /\ taken.keyQueues = c.keyQueues
      BY <1>1, <2>3, <3>0, SetPart, SMTT(30)
    <3>. DEFINE b == Append(c.backlog, u)
    <3>2. b \in Seq(Tasks) /\ queued = [taken EXCEPT !.backlog = b]
      <4>1. c.backlog \in Seq(Tasks)
        BY <1>1, FieldsAre
      <4> QED  BY <2>1, <2>3, <4>1, Grows
    <3>. HIDE DEF b
    <3>3. /\ queued \in Fields /\ queued.backlog = b /\ queued.parts = taken.parts
          /\ queued.safe = taken.safe /\ queued.gen = taken.gen
          /\ queued.keyQueues = taken.keyQueues
      BY ONLY <3>1, <3>2, SetBacklog, Zenon
    <3>4. CASE c' = taken
      BY <3>1, <3>4
    <3>5. CASE c' # taken
      <4>1. c' = queued
        BY <1>7, <3>5
      <4> QED  BY <3>1, <3>3, <3>5, <4>1 DEF b
    <3> QED  BY <3>4, <3>5
  <2>7. Good(c', position', settled, U)
    <3>1. /\ Good(c, position, settled, T) /\ T \in SUBSET Tasks /\ tp \in Partitions
          /\ c.parts[tp] # Gone /\ offset \in Offsets(tp)
          /\ c.parts[tp].next < 0 => offset = position[tp]
      BY <1>1
    <3>. DEFINE r == c'
                Y == position'
    <3>2. /\ r \in Fields /\ r.parts = [c.parts EXCEPT ![tp] = q] /\ r.safe = c.safe
          /\ r.gen = c.gen /\ \A x \in Partitions : x # tp => Y[x] = position[x]
      BY <1>4, <2>6
    <3>. HIDE DEF r, Y
    <3>3. Good(r, Y, settled, T \cup {u})
      BY ONLY <2>2, <2>4, <3>1, <3>2, AcceptGood, SMTT(30)
    <3> QED  BY <3>3 DEF r, Y
  <2>8. Range(c'.backlog) \subseteq U
    <3>1. c.backlog \in Seq(Tasks)
      BY <1>1, FieldsAre
    <3>2. Range(Append(c.backlog, u)) = Range(c.backlog) \cup {u}
      BY <2>1, <3>1, Grows, SMTT(30)
    <3> QED  BY <1>1, <2>6, <3>2
  <2>9. QueuedIn(c') \subseteq U
    <3>1. QueuedIn(c') = QueuedIn(c)
      BY <2>6 DEF QueuedIn
    <3> QED  BY <1>1, <3>1
  <2>10. /\ U \in SUBSET Tasks /\ running' \subseteq U /\ Range(work') \subseteq U
         /\ \A y \in Range(results') : y.task \in U
    BY <1>1, <2>1
  <2>11. Good(c', position', settled', U)
    BY <2>7
  <2>. HIDE DEF U
  <2> QED  BY <1>1, <1>3, <1>4, <2>8, <2>9, <2>10, <2>11, InvFrom
<1> QED  BY <1>5, <1>6, <1>7

(* The client delivers what it was pointed at, or something else.            *)
LEMMA PollInv ==
  ASSUME Inv, NEW tp \in Partitions,
         PollMessage(tp) \/ \E offset \in Offsets(tp) : PollOther(tp, offset)
  PROVE  Inv'
<1>1. Len(Log[tp]) \in Nat /\ c \in Fields
  BY ConsumerAssumption, InvHas
<1>2. CASE PollMessage(tp)
  <2>. DEFINE o == position[tp]
              n == o + 1
  <2>1. /\ c.parts[tp] # Gone /\ o \in Offsets(tp) /\ accept(tp, o, n)
        /\ UNCHANGED <<work, running, results, group, settled>>
    BY <1>2 DEF PollMessage
  <2>2. n \in Int
    BY <1>1, <2>1, SMTT(30) DEF Offsets
  <2>3. c.parts[tp].next < 0 => o = position[tp]
    OBVIOUS
  <2>. HIDE DEF o, n
  <2> QED  BY <2>1, <2>2, <2>3, AcceptInv
<1>3. CASE \E offset \in Offsets(tp) : PollOther(tp, offset)
  <2>1. PICK o \in Offsets(tp) : PollOther(tp, o)
    BY <1>3
  <2>. DEFINE n == o + 1
  <2>2. /\ c.parts[tp] # Gone /\ accept(tp, o, n) /\ c.parts[tp].next >= 0
        /\ UNCHANGED <<work, running, results, group, settled>>
    BY <2>1 DEF PollOther
  <2>3. n \in Int
    BY <1>1, SMTT(30) DEF Offsets
  <2>4. c.parts[tp].next < 0 => o = position[tp]
    <3>1. c.parts[tp] \in Part
      BY <1>1, <2>2, FieldsAre
    <3>2. c.parts[tp].next \in Int
      BY <3>1 DEF Part
    <3> QED  BY <2>2, <3>2, SMTT(30)
  <2>. HIDE DEF n
  <2> QED  BY <2>2, <2>3, <2>4, AcceptInv
<1> QED  BY <1>2, <1>3

(* A partition is assigned.                                                  *)
LEMMA AssignedInv ==
  ASSUME Inv, NEW tp \in Partitions, onAssigned(tp)
  PROVE  Inv'
<1>. DEFINE T == All
            Y == [position EXCEPT ![tp] = group[tp]]
<1>1. /\ c.parts[tp] = Gone /\ c' = Assigned(c, tp) /\ position' = Y
      /\ UNCHANGED <<work, running, results, group, settled>>
  BY DEF onAssigned, Assigned
<1>2. /\ c \in Fields /\ work \in Seq(Tasks) /\ running \in SUBSET Tasks
      /\ results \in Seq(Results) /\ position \in [Partitions -> Int]
      /\ group \in [Partitions -> Int] /\ Good(c, position, settled, T)
      /\ T \in SUBSET Tasks /\ CommittedIsSettled /\ Told(Range(results), settled)
      /\ running \subseteq T /\ Range(work) \subseteq T /\ QueuedIn(c) \subseteq T
      /\ Range(c.backlog) \subseteq T /\ \A y \in Range(results) : y.task \in T
  BY InvHas
<1>. HIDE DEF T
<1>3. /\ Y \in [Partitions -> Int] /\ Y[tp] = group[tp]
      /\ \A p \in Partitions : p # tp => Y[p] = position[p]
  BY <1>2
<1>4. Below(tp, Y[tp], settled)
  BY <1>2, <1>3 DEF Below, CommittedIsSettled
<1>. HIDE DEF Y
<1>. DEFINE r == c'
<1>5. r = Assigned(c, tp)
  BY <1>1
<1>. HIDE DEF r
<1>7. Good(r, Y, settled, T) /\ r.backlog = c.backlog /\ r.keyQueues = c.keyQueues
  <2>1. c.parts[tp] = Gone
    BY <1>1
  <2>2. Good(c, position, settled, T) /\ T \in SUBSET Tasks
    BY <1>2
  <2> QED  BY ONLY <1>3, <1>4, <1>5, <2>1, <2>2, tp \in Partitions, AssignedGood, SMTT(30)
<1>8. Good(c', position', settled', T) /\ QueuedIn(c') \subseteq T /\ Range(c'.backlog) \subseteq T
  BY <1>1, <1>2, <1>7 DEF r, QueuedIn
<1>9. CommittedIsSettled'
  BY <1>1, <1>2, CommitKept
<1> QED  BY <1>1, <1>2, <1>3, <1>8, <1>9, InvFrom

(* A partition is revoked, and what is safe committed first or not.          *)
LEMMA RevokedInv ==
  ASSUME Inv, NEW tp \in Partitions, onRevoked(tp)
  PROVE  Inv'
<1>. DEFINE due == pending(c, {tp})
<1>1. /\ c' = Revoked(c, tp) /\ group' \in {group, groupAfter(c, due)}
      /\ UNCHANGED <<work, running, results, position, settled>>
  BY DEF onRevoked, Revoked
<1>2. /\ c \in Fields /\ group \in [Partitions -> Int] /\ Good(c, position, settled, All)
      /\ All \in SUBSET Tasks /\ CommittedIsSettled /\ QueuedIn(c) \subseteq All
      /\ Range(c.backlog) \subseteq All /\ c.backlog \in Seq(Tasks)
  BY InvHas, FieldsAre
<1>. DEFINE r == c'
<1>3. r = Revoked(c, tp)
  BY <1>1
<1>. HIDE DEF r, due
<1>4. r.backlog = without(c.backlog, tp) /\ r.keyQueues = FreedQueues(c, tp)
  <2>1. c \in Fields
    BY <1>2
  <2> QED  BY ONLY <1>3, <2>1, tp \in Partitions, RevokedIs, Zenon
<1>5. Good(r, position, settled, All)
  <2>1. Good(c, position, settled, All) /\ All \in SUBSET Tasks
    BY <1>2
  <2> QED  BY ONLY <1>3, <2>1, tp \in Partitions, RevokedGood, Zenon
<1>6. Range(r.backlog) \subseteq All
  BY <1>2, <1>4, WithoutRange
<1>7. QueuedIn(r) \subseteq QueuedIn(c)
  <2>1. ASSUME NEW l \in Lines
        PROVE  Range(r.keyQueues[l].tasks) \subseteq Range(c.keyQueues[l].tasks)
    <3>1. r.keyQueues[l] = IF l[1] = tp THEN Free ELSE c.keyQueues[l]
      BY <1>4 DEF FreedQueues
    <3> QED  BY <3>1, FreeIs, EmptyRange
  <2> QED  BY <2>1 DEF QueuedIn
<1>8. CommittedIsSettled' /\ group' \in [Partitions -> Int]
  <2>1. CASE group' = group
    BY <1>1, <1>2, <2>1, CommitKept
  <2>2. CASE group' = groupAfter(c, due)
    BY <1>1, <1>2, <2>2, CommitSafe
  <2> QED  BY <1>1, <2>1, <2>2
<1>9. Good(c', position, settled, All) /\ QueuedIn(c') \subseteq All /\ Range(c'.backlog) \subseteq All
  BY <1>2, <1>5, <1>6, <1>7 DEF r
<1> QED  BY <1>1, <1>8, <1>9, KinStep

(* Another member of the group settles and commits a message.                *)
LEMMA ElsewhereInv ==
  ASSUME Inv, NEW tp \in Partitions, Elsewhere(tp)
  PROVE  Inv'
<1>. DEFINE T == All
            o == group[tp]
<1>1. /\ o \in Offsets(tp) /\ group' = [group EXCEPT ![tp] = o + 1]
      /\ settled' = settled \cup {<<tp, o>>} /\ UNCHANGED <<c, work, running, results, position>>
  BY DEF Elsewhere
<1>2. /\ work \in Seq(Tasks) /\ running \in SUBSET Tasks
      /\ results \in Seq(Results) /\ position \in [Partitions -> Int]
      /\ group \in [Partitions -> Int] /\ Good(c, position, settled, T)
      /\ T \in SUBSET Tasks /\ CommittedIsSettled /\ Told(Range(results), settled)
      /\ running \subseteq T /\ Range(work) \subseteq T /\ QueuedIn(c) \subseteq T
      /\ Range(c.backlog) \subseteq T /\ \A y \in Range(results) : y.task \in T
  BY InvHas
<1>. HIDE DEF T
<1>3. o \in Nat /\ settled \subseteq settled'
  BY <1>1, ConsumerAssumption, SMTT(30) DEF Offsets
<1>4. group' \in [Partitions -> Int]
  BY <1>1, <1>2, <1>3, SMTT(30)
<1>5. CommittedIsSettled'
  <2>1. ASSUME NEW p \in Partitions, NEW x \in 0..group'[p] - 1 PROVE <<p, x>> \in settled'
    <3>1. CASE p = tp
      <4>1. x \in 0..o - 1 \/ x = o
        BY <1>1, <1>2, <1>3, <2>1, <3>1, SMTT(30)
      <4> QED  BY <1>1, <1>3, <3>1, <4>1, <1>2 DEF CommittedIsSettled
    <3>2. CASE p # tp
      BY <1>1, <1>2, <2>1, <3>2 DEF CommittedIsSettled
    <3> QED  BY <3>1, <3>2
  <2> QED  BY <2>1 DEF CommittedIsSettled
<1>6. Good(c', position', settled', T)
  <2>1. Good(c, position, settled', T)
    BY <1>2, <1>3, MoreGood
  <2> QED  BY <1>1, <2>1
<1>7. Told(Range(results'), settled')
  BY <1>1, <1>2, <1>3, ToldKept, SMTT(30)
<1> QED  BY <1>1, <1>2, <1>4, <1>5, <1>6, <1>7, InvFrom

\* What Dispatch does to the fields once the head of the backlog is taken off.
Sent(s, t, waits) ==
  IF keyed(t)
  THEN [s EXCEPT !.keyQueues[line(t)] = IF waits THEN Busy(Append(@.tasks, t)) ELSE Busy(<<>>)]
  ELSE s

(* send keeps the claims.                                                    *)
LEMMA SentGood ==
  ASSUME NEW s0, NEW X, NEW D, NEW T \in SUBSET Tasks, Good(s0, X, D, T), NEW t \in T,
         s0.parts[t.tp] # Gone, QueuedIn(s0) \subseteq T, NEW s, s = PartMore(s0, t.tp),
         NEW waits, NEW r, r = Sent(s, t, waits)
  PROVE  Good(r, X, D, T) /\ QueuedIn(r) \subseteq T /\ r.backlog = s0.backlog
<1>. DEFINE tp == t.tp
            p == s0.parts[tp]
            q == [p EXCEPT !.inflight = p.inflight + 1]
            l == line(t)
            ts == s0.keyQueues[l].tasks
            w == IF waits THEN Busy(Append(ts, t)) ELSE Busy(<<>>)
<1>1. /\ s0 \in Fields /\ tp \in Partitions /\ s0.parts \in [Partitions -> Part \cup {Gone}]
      /\ l \in Lines /\ t \in Tasks
  BY TaskIs, FieldsAre DEF Good
<1>2. /\ s \in Fields /\ q \in Part /\ s.parts = [s0.parts EXCEPT ![tp] = q] /\ s.safe = s0.safe
      /\ s.gen = s0.gen /\ s.backlog = s0.backlog /\ s.keyQueues = s0.keyQueues
  <2>1. s0 \in Fields /\ tp \in Partitions /\ s0.parts[tp] # Gone /\ s = PartMore(s0, tp)
    BY <1>1
  <2>. HIDE DEF tp
  <2> QED  BY ONLY <2>1, PartMoreIs, SMTT(30) DEF p, q
<1>3. p \in Part
  BY <1>1
<1>4. KinPart(p, q)
  <2>. HIDE DEF p
  <2> QED  BY <1>3 DEF KinPart, Part
<1>5. Good(s, X, D, T)
  <2>. HIDE DEF q
  <2>1. Kin(s0, s)
    BY <1>1, <1>2, <1>4, KinOne, SMTT(30)
  <2> QED  BY <2>1, KinGood
<1>6. QueuedIn(s) = QueuedIn(s0)
  BY <1>2, SMTT(30) DEF QueuedIn
<1>7. CASE ~keyed(t)
  BY <1>2, <1>5, <1>6, <1>7 DEF Sent
<1>8. CASE keyed(t)
  <2>1. ts \in Seq(Tasks) /\ Range(ts) \subseteq T
    BY <1>1, QueueIs DEF QueuedIn
  <2>2. w \in Queue /\ Range(w.tasks) \subseteq T
    <3>. HIDE DEF ts, l
    <3>1. CASE waits
      <4>1. Append(ts, t) \in Seq(Tasks) /\ Range(Append(ts, t)) = Range(ts) \cup {t}
        BY <1>1, <2>1, Grows, SMTT(30)
      <4> QED  BY <2>1, <3>1, <4>1, BusyIs
    <3>2. CASE ~waits
      <4>1. <<>> \in Seq(Tasks)
        BY SMTT(30)
      <4> QED  BY <3>2, <4>1, BusyIs, EmptyRange
    <3> QED  BY <3>1, <3>2
  <2>3. r = [s EXCEPT !.keyQueues[l] = w]
    <3>1. s.keyQueues = s0.keyQueues
      BY <1>2
    <3> QED  BY <1>8, <3>1 DEF Sent
  <2>. HIDE DEF w, l
  <2>4. /\ r \in Fields /\ r.keyQueues = [s.keyQueues EXCEPT ![l] = w] /\ r.parts = s.parts
        /\ r.safe = s.safe /\ r.gen = s.gen /\ r.backlog = s.backlog
    <3>1. s \in Fields /\ l \in Lines /\ w \in Queue
      BY <1>1, <1>2, <2>2
    <3> QED  BY ONLY <2>3, <3>1, SetQueue, Zenon
  <2>5. Good(r, X, D, T)
    <3>1. Kin(s, r)
      BY ONLY <2>4, KinSame, Zenon
    <3> QED  BY <1>5, <3>1, KinGood
  <2>6. QueuedIn(r) \subseteq T
    <3>1. s.keyQueues \in [Lines -> Queue]
      BY <1>2, FieldsAre
    <3>2. ASSUME NEW k \in Lines PROVE Range(r.keyQueues[k].tasks) \subseteq T
      <4>1. CASE k = l
        BY <1>1, <2>2, <2>4, <3>1, <4>1
      <4>2. CASE k # l
        <5>1. r.keyQueues[k] = s.keyQueues[k]
          BY <1>1, <2>4, <3>1, <4>2
        <5> QED  BY <1>6, <5>1 DEF QueuedIn
      <4> QED  BY <4>1, <4>2
    <3> QED  BY <3>2 DEF QueuedIn
  <2> QED  BY <1>2, <2>4, <2>5, <2>6
<1> QED  BY <1>7, <1>8

(* The head of the backlog is sent, queued behind its key, or dropped.       *)
LEMMA DispatchInv ==
  ASSUME Inv, Dispatch
  PROVE  Inv'
<1>. DEFINE T == All
            t == Head(c.backlog)
            b == Tail(c.backlog)
            s0 == [c EXCEPT !.backlog = b]
            s == PartMore(s0, t.tp)
            waits == keyed(t) /\ c.keyQueues[line(t)].busy
            sent == Sent(s, t, waits)
<1>1. /\ c \in Fields /\ work \in Seq(Tasks) /\ running \in SUBSET Tasks
      /\ results \in Seq(Results) /\ position \in [Partitions -> Int]
      /\ group \in [Partitions -> Int] /\ Good(c, position, settled, T)
      /\ T \in SUBSET Tasks /\ CommittedIsSettled /\ Told(Range(results), settled)
      /\ running \subseteq T /\ Range(work) \subseteq T /\ QueuedIn(c) \subseteq T
      /\ Range(c.backlog) \subseteq T /\ \A y \in Range(results) : y.task \in T
  BY InvHas
<1>. HIDE DEF T
<1>2. c.backlog \in Seq(Tasks) /\ c.backlog # <<>>
  BY <1>1, FieldsAre DEF Dispatch, Room
<1>3. t \in Tasks /\ b \in Seq(Tasks) /\ Range(c.backlog) = Range(b) \cup {t}
  BY <1>2, Shrinks, ShrinksTo
<1>4. t \in T /\ Range(b) \subseteq T
  BY <1>1, <1>3
<1>. HIDE DEF b
<1>5. /\ s0 \in Fields /\ s0.backlog = b /\ s0.parts = c.parts /\ s0.safe = c.safe
      /\ s0.gen = c.gen /\ s0.keyQueues = c.keyQueues
  BY <1>1, <1>3, SetBacklog
<1>6. UNCHANGED <<running, results, position, group, settled>>
  BY DEF Dispatch
<1>7. \/ c' = s0 /\ work' = work
      \/ /\ current(c, t) /\ c' = sent
         /\ work' = IF waits THEN work ELSE Append(work, t)
  BY DEF Dispatch, Sent, PartMore, b
<1>8. Good(s0, position, settled, T)
  <2>. HIDE DEF s0
  <2>1. Kin(c, s0)
    BY <1>5, KinSame
  <2> QED  BY <1>1, <2>1, KinGood
<1>9. QueuedIn(s0) \subseteq T
  BY <1>1, <1>5 DEF QueuedIn
<1>10. CommittedIsSettled'
  BY <1>1, <1>6, CommitKept
<1>. HIDE DEF s0
<1>11. CASE c' = s0 /\ work' = work
  <2>1. /\ Good(c', position', settled', T) /\ QueuedIn(c') \subseteq T
        /\ Range(c'.backlog) \subseteq T
    BY <1>4, <1>5, <1>6, <1>8, <1>9, <1>11
  <2> QED  BY <1>1, <1>6, <1>10, <1>11, <2>1, InvFrom
<1>12. CASE /\ current(c, t) /\ c' = sent
            /\ work' = IF waits THEN work ELSE Append(work, t)
  <2>1. s0.parts[t.tp] # Gone
    BY <1>5, <1>12 DEF current
  <2>2. s = PartMore(s0, t.tp) /\ sent = Sent(s, t, waits)
    OBVIOUS
  <2>. HIDE DEF s, t, sent, waits
  <2>4. Good(sent, position, settled, T) /\ QueuedIn(sent) \subseteq T /\ sent.backlog = s0.backlog
    <3>1. T \in SUBSET Tasks
      BY <1>1
    <3> QED  BY ONLY <1>4, <1>8, <1>9, <2>1, <2>2, <3>1, SentGood, SMTT(30)
  <2>5. /\ Good(c', position', settled', T) /\ QueuedIn(c') \subseteq T
        /\ Range(c'.backlog) \subseteq T
    BY <1>4, <1>5, <1>6, <1>12, <2>4
  <2>6. work' \in Seq(Tasks) /\ Range(work') \subseteq T
    <3>1. Append(work, t) \in Seq(Tasks) /\ Range(Append(work, t)) = Range(work) \cup {t}
      BY <1>1, <1>3, Grows, SMTT(30)
    <3> QED  BY <1>1, <1>4, <1>12, <3>1
  <2> QED  BY <1>1, <1>6, <1>10, <2>5, <2>6, InvFrom
<1> QED
  <2>. HIDE DEF sent, t, waits
  <2> QED  BY <1>7, <1>11, <1>12

(* A backoff is over.                                                        *)
LEMMA BackoffInv ==
  ASSUME Inv, NEW tp \in Partitions, BackoffOver(tp)
  PROVE  Inv'
<1>. DEFINE p == c.parts[tp]
            q == [p EXCEPT !.backoff = FALSE]
            r == c'
<1>1. /\ c \in Fields /\ Good(c, position, settled, All) /\ All \in SUBSET Tasks
      /\ CommittedIsSettled /\ group \in [Partitions -> Int] /\ QueuedIn(c) \subseteq All
      /\ Range(c.backlog) \subseteq All
  BY InvHas
<1>2. /\ c.parts[tp] # Gone /\ r = BackedOff(c, tp) /\ group' = group
      /\ UNCHANGED <<work, running, results, position, settled>>
  BY DEF BackoffOver, BackedOff
<1>. HIDE DEF r
<1>3. /\ r \in Fields /\ q \in Part /\ r.parts = [c.parts EXCEPT ![tp] = q] /\ r.safe = c.safe
      /\ r.gen = c.gen /\ r.backlog = c.backlog /\ r.keyQueues = c.keyQueues
  <2>1. c \in Fields /\ tp \in Partitions /\ c.parts[tp] # Gone /\ r = BackedOff(c, tp)
    BY <1>1, <1>2
  <2> QED  BY ONLY <2>1, BackedOffIs, SMTT(30) DEF p, q
<1>4. p \in Part
  BY <1>1, <1>2, FieldsAre
<1>5. KinPart(p, q)
  <2>. HIDE DEF p
  <2> QED  BY <1>4 DEF KinPart, Part
<1>. HIDE DEF q
<1>6. Kin(c, r)
  BY <1>1, <1>2, <1>3, <1>5, KinOne
<1>7. Good(r, position, settled, All)
  BY <1>1, <1>6, KinGood
<1>8. CommittedIsSettled' /\ group' \in [Partitions -> Int]
  BY <1>1, <1>2, CommitKept
<1>9. Good(c', position, settled, All) /\ QueuedIn(c') \subseteq All /\ Range(c'.backlog) \subseteq All
  BY <1>1, <1>3, <1>7 DEF r, QueuedIn
<1> QED  BY <1>2, <1>8, <1>9, KinStep

(* The last commit.                                                          *)
LEMMA FinalInv ==
  ASSUME Inv, finalCommit
  PROVE  Inv'
<1>. DEFINE due == pending(c, Partitions)
            d == committedAll(c, due)
<1>1. /\ c \in Fields /\ Good(c, position, settled, All) /\ All \in SUBSET Tasks
      /\ CommittedIsSettled /\ group \in [Partitions -> Int] /\ QueuedIn(c) \subseteq All
      /\ Range(c.backlog) \subseteq All
  BY InvHas
<1>2. /\ UNCHANGED <<work, running, results, position, settled>>
      /\ \/ c' = c /\ group' = group
         \/ c' = d /\ group' = groupAfter(c, due)
  BY DEF finalCommit
<1>. HIDE DEF due
<1>3. /\ d \in Fields /\ d.parts = c.parts /\ d.safe = c.safe /\ d.gen = c.gen
      /\ d.backlog = c.backlog /\ d.keyQueues = c.keyQueues
  BY <1>1, CommittedIs
<1>. HIDE DEF d
<1>4. Good(d, position, settled, All)
  <2>1. Kin(c, d)
    BY <1>3, KinSame
  <2> QED  BY <1>1, <2>1, KinGood
<1>5. CASE c' = c /\ group' = group
  <2>1. CommittedIsSettled'
    BY <1>1, <1>2, <1>5, CommitKept
  <2> QED  BY <1>1, <1>2, <1>5, <2>1, KinStep
<1>6. CASE c' = d /\ group' = groupAfter(c, due)
  <2>1. CommittedIsSettled' /\ group' \in [Partitions -> Int]
    BY <1>1, <1>2, <1>6, CommitSafe
  <2>2. QueuedIn(c') \subseteq All /\ Range(c'.backlog) \subseteq All
    BY <1>1, <1>3, <1>6 DEF QueuedIn
  <2> QED  BY <1>2, <1>4, <1>6, <2>1, <2>2, KinStep
<1> QED  BY <1>2, <1>5, <1>6

\* The steps of Run that only decide where it goes next.
LEMMA SameInv ==
  ASSUME Inv, UNCHANGED <<c, work, running, results, position, group, settled>>
  PROVE  Inv'
<1>1. /\ c \in Fields /\ Good(c, position, settled, All)
      /\ CommittedIsSettled /\ group \in [Partitions -> Int] /\ QueuedIn(c) \subseteq All
      /\ Range(c.backlog) \subseteq All
  BY InvHas
<1>2. CommittedIsSettled'
  BY <1>1, CommitKept
<1> QED  BY <1>1, <1>2, KinStep

(* The invariant holds initially.                                            *)
LEMMA InitInv ==
  ASSUME Init
  PROVE  Inv
<1>1. /\ c.parts \in [Partitions -> {Gone}] /\ c.safe \in [Partitions -> {-1}]
      /\ c.committed \in [Partitions -> {-1}] /\ c.dirty = FALSE /\ c.gen = 0
      /\ c.backlog = <<>> /\ c.inflight = 0 /\ c.throttled = FALSE
      /\ c.keyQueues = [l \in Lines |-> Free]
      /\ work = <<>> /\ running = {} /\ results = <<>>
      /\ position = [tp \in Partitions |-> 0] /\ group = [tp \in Partitions |-> 0]
  BY DEF Init
<1>2. c \in Fields
  <2>1. /\ [tp \in Partitions |-> Gone] \in [Partitions -> Part \cup {Gone}]
        /\ [tp \in Partitions |-> -1] \in [Partitions -> Int]
        /\ [l \in Lines |-> Free] \in [Lines -> Queue]
        /\ 0 \in Nat /\ 0 \in Int /\ <<>> \in Seq(Tasks)
    BY FreeIs, SMTT(30)
  <2> QED  BY <2>1 DEF Init, Fields
<1>3. Types
  <2>1. <<>> \in Seq(Tasks) /\ <<>> \in Seq(Results) /\ {} \in SUBSET Tasks
    BY SMTT(30)
  <2>2. position \in [Partitions -> Int] /\ group \in [Partitions -> Int]
    BY <1>1, SMTT(30)
  <2> QED  BY <1>1, <1>2, <2>1, <2>2 DEF Types
<1>4. All = {}
  <2>1. ASSUME NEW l \in Lines PROVE Range(c.keyQueues[l].tasks) = {}
    <3>1. c.keyQueues[l] = Free
      BY <1>1
    <3> QED  BY <3>1, FreeIs, EmptyRange
  <2>2. QueuedIn(c) = {}
    BY <2>1 DEF QueuedIn
  <2>3. /\ running \subseteq {} /\ Range(work) \subseteq {} /\ \A r \in Range(results) : r.task \in {}
        /\ QueuedIn(c) \subseteq {} /\ Range(c.backlog) \subseteq {}
    BY <1>1, <2>2, EmptyRange
  <2>4. All \subseteq {}
    BY <2>3, AllWithin
  <2> QED  BY <2>4
<1>5. \A tp \in Partitions : Entry(c, tp, position[tp], settled)
  BY <1>1, SMTT(30) DEF Entry, Below
<1>6. Good(c, position, settled, All)
  BY <1>2, <1>4, <1>5 DEF Good
<1>7. CommittedIsSettled
  BY <1>1, SMTT(30) DEF CommittedIsSettled
<1>8. Told(Range(results), settled)
  BY <1>1, EmptyRange DEF Told
<1> QED  BY <1>3, <1>6, <1>7, <1>8 DEF Inv

(* Every step keeps the invariant.                                           *)
LEMMA NextInv ==
  ASSUME Inv, [Next]_vars
  PROVE  Inv'
<1>1. CASE Drain \/ LastDrain
  BY <1>1, ApplyInv DEF Drain, LastDrain
<1>2. CASE PollNothing \/ Loop \/ StopWorkers \/ Drained \/ PollFails \/ Cancel \/ Over
  BY <1>2, SameInv DEF PollNothing, Loop, StopWorkers, Drained, PollFails, Cancel, Over, vars
<1>3. CASE UNCHANGED vars
  BY <1>3, SameInv DEF vars
<1>4. ASSUME NEW tp \in Partitions,
             \/ PollMessage(tp)
             \/ \E offset \in Offsets(tp) : PollOther(tp, offset)
             \/ onAssigned(tp) \/ onRevoked(tp) \/ Elsewhere(tp) \/ BackoffOver(tp)
      PROVE  Inv'
  BY <1>4, PollInv, AssignedInv, RevokedInv, ElsewhereInv, BackoffInv
<1>5. CASE Turn \/ Dispatch \/ finalCommit \/ Take \/ Refuse
  BY <1>5, TurnInv, DispatchInv, FinalInv, TakeInv, RefuseInv
<1>6. ASSUME NEW t \in running, exec(t) PROVE Inv'
  BY <1>6, ExecInv
<1> QED  BY <1>1, <1>2, <1>3, <1>4, <1>5, <1>6 DEF Next, RunStep

(* "A message is never skipped": for every number of partitions, messages,
   workers and faults, whatever the group has committed (by the loop, by a
   revoked partition or by the last commit), every message before it is settled.  *)
THEOREM NeverSkipped == Spec => []CommittedIsSettled
<1>1. Init => Inv
  BY InitInv
<1>2. Inv /\ [Next]_vars => Inv'
  BY NextInv
<1>3. Inv => CommittedIsSettled
  BY DEF Inv
<1> QED  BY <1>1, <1>2, <1>3, PTL DEF Spec
=============================================================================
