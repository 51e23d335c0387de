--------------------------- MODULE ConsumerMethods --------------------------
(***************************************************************************)
(* What the methods of the consumer do to its fields, and the claims that  *)
(* they keep true.  At any moment the consumer claims that what it lists as*)
(* safe to commit, what lies below the commit point of a partition and what*)
(* the entry of a partition lists as completed is settled; and that a      *)
(* partition that has accepted nothing yet is read from where the group has*)
(* committed, which accept takes as its commit point.  Every method is     *)
(* first described by what it changes (... Is), then shown to keep the     *)
(* claims true (... Good).                                                 *)
(***************************************************************************)
EXTENDS Consumer, FiniteSetTheorems, WellFoundedInduction, TLAPS

\* A leaf goes to Zenon, or to Z3 where it says so.
USE ZenonT(20), SMTT(30)

(* Every non-empty set of natural numbers has a least element.               *)
LEMMA Least ==
  ASSUME NEW S \in SUBSET Nat, S # {}
  PROVE  \E n \in S : \A m \in S : n <= m
<1>1. IsWellFoundedOn(OpToRel(<, Nat), Nat)
  BY NatLessThanWellFounded
<1>2. PICK n \in S : \A m \in S : ~(<<m, n>> \in OpToRel(<, Nat))
  BY <1>1, WFMin
<1>3. \A m \in S : ~(m < n)
  BY <1>2 DEF OpToRel
<1> QED
  BY <1>3, SMTT(30)

\* The types: messages on their way through the consumer, results, the lines of
\* messages with the same key, the entry of an assigned partition, the fields.
Tasks == {t \in [tp : Partitions, offset : Nat, gen : Nat] : t.offset \in Offsets(t.tp)}
Outcomes == {"safe", "failed", "storeFailed", "invalid"}
Results == [task : Tasks, res : Outcomes]
Queue == [busy : BOOLEAN, tasks : Seq(Tasks)]
Part == [gen : Nat \ {0}, next : Int, frontier : Int, completed : SUBSET Nat, inflight : Int,
         failedAt : Int, backoff : BOOLEAN, paused : BOOLEAN]
Fields == [parts : [Partitions -> Part \cup {Gone}], safe : [Partitions -> Int],
           committed : [Partitions -> Int], dirty : BOOLEAN, gen : Nat, backlog : Seq(Tasks),
           inflight : Int, throttled : BOOLEAN, keyQueues : [Lines -> Queue]]

Types ==
  /\ c \in Fields /\ work \in Seq(Tasks) /\ running \in SUBSET Tasks /\ results \in Seq(Results)
  /\ position \in [Partitions -> Int] /\ group \in [Partitions -> Int]

-----------------------------------------------------------------------------
(* Sequences.                                                                *)

(* The head and the rest of a sequence.                                      *)
LEMMA Shrinks ==
  ASSUME NEW T, NEW s \in Seq(T), s # <<>>
  PROVE  /\ Head(s) = s[1] /\ Head(s) \in T /\ Tail(s) \in Seq(T) /\ Len(s) \in Nat \ {0}
         /\ Len(Tail(s)) = Len(s) - 1 /\ \A i \in 1..Len(s) - 1 : Tail(s)[i] = s[i + 1]
BY SMTT(30)

(* What the rest of a sequence holds.                                        *)
LEMMA ShrinksTo ==
  ASSUME NEW T, NEW s \in Seq(T), s # <<>>
  PROVE  /\ Range(s) = Range(Tail(s)) \cup {Head(s)}
         /\ IsInjective(s) => IsInjective(Tail(s)) /\ Head(s) \notin Range(Tail(s))
<1>1. /\ Head(s) = s[1] /\ Tail(s) \in Seq(T) /\ Len(s) \in Nat \ {0}
      /\ Len(Tail(s)) = Len(s) - 1 /\ \A i \in 1..Len(s) - 1 : Tail(s)[i] = s[i + 1]
  BY Shrinks
<1>2. DOMAIN s = 1..Len(s) /\ DOMAIN Tail(s) = 1..Len(s) - 1
  BY <1>1, SMTT(30)
<1>3. ASSUME NEW i \in DOMAIN s PROVE s[i] \in Range(Tail(s)) \cup {Head(s)}
  <2>1. CASE i = 1
    BY <1>1, <2>1
  <2>2. CASE i # 1
    <3>1. i - 1 \in 1..Len(s) - 1 /\ s[i] = Tail(s)[i - 1]
      BY <1>1, <1>2, <2>2, SMTT(30)
    <3> QED  BY <1>2, <3>1 DEF Range
  <2> QED  BY <2>1, <2>2
<1>4. ASSUME NEW i \in DOMAIN Tail(s) PROVE Tail(s)[i] \in Range(s)
  <2>1. i + 1 \in DOMAIN s /\ Tail(s)[i] = s[i + 1]
    BY <1>1, <1>2, SMTT(30)
  <2> QED  BY <2>1 DEF Range
<1>5. 1 \in DOMAIN s /\ Head(s) \in Range(s)
  BY <1>1, <1>2, SMTT(30) DEF Range
<1>6. Range(s) = Range(Tail(s)) \cup {Head(s)}
  BY <1>3, <1>4, <1>5 DEF Range
<1>7. ASSUME IsInjective(s) PROVE IsInjective(Tail(s)) /\ Head(s) \notin Range(Tail(s))
  <2>1. \A i, j \in 1..Len(s) : s[i] = s[j] => i = j
    BY <1>2, <1>7 DEF IsInjective
  <2>2. \A i, j \in 1..Len(s) - 1 : Tail(s)[i] = Tail(s)[j] => i = j
    <3>1. SUFFICES ASSUME NEW i \in 1..Len(s) - 1, NEW j \in 1..Len(s) - 1,
                          Tail(s)[i] = Tail(s)[j]
                   PROVE  i = j
      OBVIOUS
    <3>2. i + 1 \in 1..Len(s) /\ j + 1 \in 1..Len(s) /\ s[i + 1] = s[j + 1]
      BY <1>1, <3>1, SMTT(30)
    <3>3. i + 1 = j + 1
      BY <2>1, <3>2
    <3> QED  BY <3>3, SMTT(30)
  <2>3. \A i \in 1..Len(s) - 1 : Tail(s)[i] # s[1]
    <3>1. SUFFICES ASSUME NEW i \in 1..Len(s) - 1, Tail(s)[i] = s[1] PROVE FALSE
      OBVIOUS
    <3>2. i + 1 \in 1..Len(s) /\ 1 \in 1..Len(s) /\ s[i + 1] = s[1]
      BY <1>1, <3>1, SMTT(30)
    <3>3. i + 1 = 1
      BY <2>1, <3>2
    <3> QED  BY <3>3, SMTT(30)
  <2> QED  BY <1>1, <1>2, <2>2, <2>3, SMTT(30) DEF IsInjective, Range
<1> QED
  BY <1>6, <1>7

(* What a sequence holds once something is appended.                         *)
LEMMA Grows ==
  ASSUME NEW T, NEW s \in Seq(T), NEW x \in T
  PROVE  /\ Append(s, x) \in Seq(T) /\ Range(Append(s, x)) = Range(s) \cup {x}
         /\ Len(s) \in Nat /\ Len(Append(s, x)) = Len(s) + 1
         /\ Append(s, x)[Len(s) + 1] = x /\ \A i \in 1..Len(s) : Append(s, x)[i] = s[i]
         /\ IsInjective(s) /\ x \notin Range(s) => IsInjective(Append(s, x))
<1>. DEFINE a == Append(s, x)
            n == Len(s)
<1>1. /\ a \in Seq(T) /\ n \in Nat /\ Len(a) = n + 1
      /\ a[n + 1] = x /\ \A i \in 1..n : a[i] = s[i]
      /\ DOMAIN s = 1..n /\ DOMAIN a = 1..n + 1
  BY SMTT(30)
<1>. HIDE DEF a, n
<1>2. Range(a) = Range(s) \cup {x}
  <2>1. ASSUME NEW i \in 1..n + 1 PROVE a[i] \in Range(s) \cup {x}
    <3>1. i \in 1..n \/ i = n + 1
      BY <1>1, SMTT(30)
    <3> QED  BY <1>1, <3>1 DEF Range
  <2>2. \A i \in 1..n : i \in 1..n + 1 /\ s[i] = a[i]
    BY <1>1, SMTT(30)
  <2>3. n + 1 \in 1..n + 1
    BY <1>1, SMTT(30)
  <2> QED  BY <1>1, <2>1, <2>2, <2>3 DEF Range
<1>3. ASSUME IsInjective(s), x \notin Range(s) PROVE IsInjective(a)
  <2>1. SUFFICES ASSUME NEW i \in 1..n + 1, NEW j \in 1..n + 1, a[i] = a[j] PROVE i = j
    BY <1>1 DEF IsInjective
  <2>2. (i \in 1..n \/ i = n + 1) /\ (j \in 1..n \/ j = n + 1)
    BY <1>1, SMTT(30)
  <2>3. \A m \in 1..n : s[m] # x
    BY <1>1, <1>3 DEF Range
  <2> QED  BY <1>1, <1>3, <2>1, <2>2, <2>3 DEF IsInjective
<1> QED
  BY <1>1, <1>2, <1>3 DEF a, n

(* The members of a sequence.                                                *)
LEMMA InRange ==
  ASSUME NEW T, NEW s \in Seq(T)
  PROVE  /\ Range(s) \subseteq T /\ (s = <<>> <=> Range(s) = {})
         /\ \A x \in Range(s) : \E i \in 1..Len(s) : x = s[i]
         /\ \A i \in 1..Len(s) : s[i] \in Range(s)
         /\ Range(<<>>) = {} /\ IsInjective(<<>>)
<1>1. DOMAIN s = 1..Len(s) /\ Len(s) \in Nat /\ \A i \in 1..Len(s) : s[i] \in T
  BY SMTT(30)
<1>2. DOMAIN <<>> = {}
  BY SMTT(30)
<1>3. s = <<>> <=> Len(s) = 0
  BY SMTT(30)
<1>4. Range(s) = {} <=> Len(s) = 0
  <2>1. Len(s) # 0 => 1 \in DOMAIN s
    BY <1>1, SMTT(30)
  <2>2. Len(s) = 0 => DOMAIN s = {}
    BY <1>1, SMTT(30)
  <2> QED  BY <2>1, <2>2 DEF Range
<1>5. Range(<<>>) = {} /\ IsInjective(<<>>)
  BY <1>2 DEF Range, IsInjective
<1>6. /\ Range(s) \subseteq T /\ \A x \in Range(s) : \E i \in 1..Len(s) : x = s[i]
      /\ \A i \in 1..Len(s) : s[i] \in Range(s)
  BY <1>1 DEF Range
<1> QED
  BY <1>3, <1>4, <1>5, <1>6

(* What without keeps: the tasks of the other partitions, in their order.    *)
Kept(b, tp, n, s) ==
  \E h \in [1..Len(s) -> 1..n] :
    /\ \A i, j \in 1..Len(s) : i < j => h[i] < h[j]
    /\ \A i \in 1..Len(s) : s[i] = b[h[i]] /\ s[i].tp # tp
    /\ \A m \in 1..n : b[m].tp # tp => \E i \in 1..Len(s) : h[i] = m

KeepStep(b, tp, f, n) ==
  IF n = 0 THEN <<>> ELSE IF b[n].tp = tp THEN f[n - 1] ELSE Append(f[n - 1], b[n])

(* The recursive function inside without exists, whatever the backlog.       *)
LEMMA KeepExists ==
  ASSUME NEW b, Len(b) \in Nat, NEW tp
  PROVE  \E f : f = [n \in 0..Len(b) |-> KeepStep(b, tp, f, n)]
<1>. DEFINE Ok(k) == \E f : \A n \in 0..Len(b) : n < k => f[n] = KeepStep(b, tp, f, n)
            Bad == {k \in Nat : ~Ok(k)}
<1>1. Bad = {}
  <2>1. SUFFICES ASSUME Bad # {} PROVE FALSE
    OBVIOUS
  <2>2. PICK k \in Bad : \A m \in Bad : k <= m
    <3>1. Bad \in SUBSET Nat
      OBVIOUS
    <3>. HIDE DEF Bad
    <3> QED  BY <2>1, <3>1, Least
  <2>3. k \in Nat /\ k # 0
    BY SMTT(30)
  <2>4. k - 1 \in Nat /\ Ok(k - 1)
    <3>1. k - 1 \in Nat /\ k - 1 \notin Bad
      <4>. HIDE DEF Bad
      <4> QED  BY <2>2, <2>3, SMTT(30)
    <3>. HIDE DEF Ok
    <3> QED  BY <3>1
  <2>5. PICK f : \A n \in 0..Len(b) : n < k - 1 => f[n] = KeepStep(b, tp, f, n)
    BY <2>4
  <2>. DEFINE g == [n \in 0..Len(b) |-> IF n < k - 1 THEN f[n] ELSE KeepStep(b, tp, f, n)]
  <2>6. ASSUME NEW n \in 0..Len(b), n < k PROVE g[n] = KeepStep(b, tp, g, n)
    <3>1. g[n] = KeepStep(b, tp, f, n)
      BY <2>5
    <3>2. n # 0 => n - 1 \in 0..Len(b) /\ n - 1 < k - 1
      BY <2>3, <2>6, SMTT(30)
    <3>3. n # 0 => g[n - 1] = f[n - 1]
      BY <3>2
    <3>. HIDE DEF g
    <3> QED  BY <3>1, <3>3 DEF KeepStep
  <2>7. Ok(k)
    <3>. HIDE DEF g
    <3> QED  BY <2>6
  <2> QED  BY <2>7
<1>2. Ok(Len(b) + 1)
  <2>1. Len(b) + 1 \in Nat /\ Len(b) + 1 \notin Bad
    BY <1>1, SMTT(30)
  <2>. HIDE DEF Ok
  <2> QED  BY <2>1
<1>3. PICK f : \A n \in 0..Len(b) : f[n] = KeepStep(b, tp, f, n)
  BY <1>2, SMTT(30)
<1>. DEFINE g == [n \in 0..Len(b) |-> f[n]]
<1>4. ASSUME NEW n \in 0..Len(b) PROVE KeepStep(b, tp, g, n) = KeepStep(b, tp, f, n)
  <2>1. n # 0 => n - 1 \in 0..Len(b) /\ g[n - 1] = f[n - 1]
    BY SMTT(30)
  <2>. HIDE DEF g
  <2> QED  BY <2>1 DEF KeepStep
<1>5. g = [n \in 0..Len(b) |-> KeepStep(b, tp, f, n)]
  BY <1>3
<1>. HIDE DEF g
<1>6. g = [n \in 0..Len(b) |-> KeepStep(b, tp, g, n)]
  BY <1>4, <1>5
<1> QED  BY <1>6

(* One more task is looked at.                                               *)
LEMMA KeptGrows ==
  ASSUME NEW T, NEW b \in Seq(T), NEW tp, NEW n \in Nat, n + 1 <= Len(b),
         NEW s \in Seq(T), Kept(b, tp, n, s)
  PROVE  /\ b[n + 1].tp = tp => Kept(b, tp, n + 1, s)
         /\ b[n + 1].tp # tp => Kept(b, tp, n + 1, Append(s, b[n + 1]))
<1>0. Len(s) \in Nat /\ Len(b) \in Nat /\ b[n + 1] \in T
  BY SMTT(30)
<1>1. PICK h \in [1..Len(s) -> 1..n] :
        /\ \A i, j \in 1..Len(s) : i < j => h[i] < h[j]
        /\ \A i \in 1..Len(s) : s[i] = b[h[i]] /\ s[i].tp # tp
        /\ \A m \in 1..n : b[m].tp # tp => \E i \in 1..Len(s) : h[i] = m
  BY DEF Kept
<1>2. ASSUME b[n + 1].tp = tp PROVE Kept(b, tp, n + 1, s)
  <2>1. h \in [1..Len(s) -> 1..n + 1]
    BY SMTT(30)
  <2>2. \A m \in 1..n + 1 : b[m].tp # tp => \E i \in 1..Len(s) : h[i] = m
    <3>1. \A m \in 1..n + 1 : m \in 1..n \/ m = n + 1
      BY SMTT(30)
    <3> QED  BY <1>1, <1>2, <3>1
  <2> QED  BY <1>1, <2>1, <2>2 DEF Kept
<1>3. ASSUME b[n + 1].tp # tp PROVE Kept(b, tp, n + 1, Append(s, b[n + 1]))
  <2>. DEFINE a == Append(s, b[n + 1])
              g == [i \in 1..Len(s) + 1 |-> IF i = Len(s) + 1 THEN n + 1 ELSE h[i]]
  <2>1. Len(a) = Len(s) + 1 /\ a[Len(s) + 1] = b[n + 1] /\ \A i \in 1..Len(s) : a[i] = s[i]
    BY <1>0, SMTT(30)
  <2>2. /\ g \in [1..Len(s) + 1 -> 1..n + 1] /\ g[Len(s) + 1] = n + 1
        /\ \A i \in 1..Len(s) : g[i] = h[i] /\ g[i] \in 1..n
    <3>1. \A i \in 1..Len(s) + 1 : i # Len(s) + 1 => i \in 1..Len(s)
      BY <1>0, SMTT(30)
    <3>2. \A i \in 1..Len(s) : i \in 1..Len(s) + 1 /\ i # Len(s) + 1
      BY <1>0, SMTT(30)
    <3>3. Len(s) + 1 \in 1..Len(s) + 1 /\ n + 1 \in 1..n + 1 /\ 1..n \subseteq 1..n + 1
      BY <1>0, SMTT(30)
    <3> QED  BY <3>1, <3>2, <3>3
  <2>3. \A i \in 1..Len(s) + 1 : i \in 1..Len(s) \/ i = Len(s) + 1
    BY <1>0, SMTT(30)
  <2>. HIDE DEF a, g
  <2>4. \A i, j \in 1..Len(s) + 1 : i < j => g[i] < g[j]
    <3>1. SUFFICES ASSUME NEW i \in 1..Len(s) + 1, NEW j \in 1..Len(s) + 1, i < j
                   PROVE  g[i] < g[j]
      OBVIOUS
    <3>2. i \in 1..Len(s)
      BY <1>0, <3>1, SMTT(30)
    <3> QED  BY <1>0, <1>1, <2>2, <2>3, <3>1, <3>2, SMTT(30)
  <2>5. \A i \in 1..Len(s) + 1 : a[i] = b[g[i]] /\ a[i].tp # tp
    BY <1>1, <1>3, <2>1, <2>2, <2>3
  <2>6. \A m \in 1..n + 1 : b[m].tp # tp => \E i \in 1..Len(s) + 1 : g[i] = m
    <3>1. SUFFICES ASSUME NEW m \in 1..n + 1, b[m].tp # tp
                   PROVE  \E i \in 1..Len(s) + 1 : g[i] = m
      OBVIOUS
    <3>2. CASE m = n + 1
      BY <1>0, <2>2, <3>2, SMTT(30)
    <3>3. CASE m \in 1..n
      <4>1. PICK i \in 1..Len(s) : h[i] = m
        BY <1>1, <3>1, <3>3
      <4>2. i \in 1..Len(s) + 1 /\ g[i] = m
        BY <1>0, <2>2, <4>1, SMTT(30)
      <4> QED  BY <4>2
    <3> QED  BY <3>2, <3>3, SMTT(30)
  <2>7. Kept(b, tp, n + 1, a)
    <3>. DEFINE N == Len(s) + 1
                k == n + 1
    <3>1. /\ g \in [1..N -> 1..k] /\ \A i, j \in 1..N : i < j => g[i] < g[j]
          /\ \A i \in 1..N : a[i] = b[g[i]] /\ a[i].tp # tp
          /\ \A m \in 1..k : b[m].tp # tp => \E i \in 1..N : g[i] = m
      BY <2>2, <2>4, <2>5, <2>6
    <3>2. N = Len(a)
      BY <2>1
    <3>. HIDE DEF N
    <3>3. /\ g \in [1..Len(a) -> 1..k] /\ \A i, j \in 1..Len(a) : i < j => g[i] < g[j]
          /\ \A i \in 1..Len(a) : a[i] = b[g[i]] /\ a[i].tp # tp
          /\ \A m \in 1..k : b[m].tp # tp => \E i \in 1..Len(a) : g[i] = m
      BY <3>1, <3>2
    <3> QED  BY <3>3 DEF Kept
  <2> QED  BY <2>7 DEF a
<1> QED  BY <1>2, <1>3

(* without keeps exactly the tasks of the other partitions, in their order.  *)
LEMMA WithoutIs ==
  ASSUME NEW T, NEW b \in Seq(T), NEW tp
  PROVE  without(b, tp) \in Seq(T) /\ Kept(b, tp, Len(b), without(b, tp))
<1>0. Len(b) \in Nat
  BY SMTT(30)
<1>. DEFINE f == CHOOSE f : f = [n \in 0..Len(b) |-> KeepStep(b, tp, f, n)]
<1>1. f = [n \in 0..Len(b) |-> KeepStep(b, tp, f, n)]
  BY <1>0, KeepExists
<1>2. without(b, tp) = f[Len(b)]
  BY DEF without, KeepStep
<1>. HIDE DEF f
<1>. DEFINE Fine(n) == f[n] \in Seq(T) /\ Kept(b, tp, n, f[n])
            Bad == {n \in 0..Len(b) : ~Fine(n)}
<1>3. Bad = {}
  <2>1. SUFFICES ASSUME Bad # {} PROVE FALSE
    OBVIOUS
  <2>2. PICK n \in Bad : \A m \in Bad : n <= m
    <3>1. Bad \in SUBSET Nat
      BY <1>0, SMTT(30)
    <3>. HIDE DEF Bad
    <3> QED  BY <2>1, <3>1, Least
  <2>3. CASE n = 0
    <3>1. f[0] = <<>>
      BY <1>0, <1>1, SMTT(30) DEF KeepStep
    <3>2. Kept(b, tp, 0, <<>>)
      <4>1. [i \in 1..0 |-> 0] \in [1..Len(<<>>) -> 1..0]
        BY SMTT(30)
      <4>2. 1..Len(<<>>) = {} /\ 1..0 = {}
        BY SMTT(30)
      <4> QED  BY <4>1, <4>2 DEF Kept
    <3>3. f[0] \in Seq(T)
      BY <3>1, SMTT(30)
    <3>4. Fine(0)
      BY <3>1, <3>2, <3>3
    <3>. HIDE DEF Fine
    <3> QED  BY <2>3, <3>4
  <2>4. CASE n # 0
    <3>1. n - 1 \in 0..Len(b) /\ Fine(n - 1)
      BY <1>0, <2>2, <2>4, SMTT(30)
    <3>2. f[n] = IF b[n].tp = tp THEN f[n - 1] ELSE Append(f[n - 1], b[n])
      BY <1>0, <1>1, <2>4 DEF KeepStep
    <3>3. n - 1 \in Nat /\ (n - 1) + 1 = n /\ n <= Len(b) /\ b[n] \in T
      BY <1>0, <3>1, SMTT(30)
    <3>4. /\ b[n].tp = tp => Kept(b, tp, n, f[n - 1])
          /\ b[n].tp # tp => Kept(b, tp, n, Append(f[n - 1], b[n]))
      BY <3>1, <3>3, KeptGrows
    <3>5. f[n] \in Seq(T)
      BY <3>1, <3>2, <3>3, SMTT(30)
    <3> QED  BY <3>2, <3>4, <3>5
  <2> QED  BY <2>3, <2>4
<1> QED
  BY <1>0, <1>2, <1>3, SMTT(30)

-----------------------------------------------------------------------------
(* What the methods change.                                                  *)

(* The fields of a task.                                                     *)
LEMMA TaskIs ==
  ASSUME NEW t \in Tasks
  PROVE  /\ t.tp \in Partitions /\ t.offset \in Nat /\ t.gen \in Nat /\ line(t) \in Lines
         /\ t.offset < Len(Log[t.tp]) /\ Len(Log[t.tp]) \in Nat
<1>1. t.tp \in Partitions /\ t.offset \in Nat /\ t.gen \in Nat /\ t.offset \in Offsets(t.tp)
  BY DEF Tasks
<1>2. Len(Log[t.tp]) \in Nat
  BY <1>1, ConsumerAssumption
<1>3. t.offset < Len(Log[t.tp])
  BY <1>1, <1>2, SMTT(30) DEF Offsets
<1>4. line(t) \in Lines
  BY <1>1, SMTT(30) DEF line, Lines
<1> QED  BY <1>1, <1>2, <1>3, <1>4

(* An entry of an assigned partition is not Gone.                            *)
LEMMA GoneIs == \A p \in Part : p # Gone
BY SMTT(30) DEF Gone, Part

(* The fields of the consumer.                                               *)
LEMMA FieldsAre ==
  ASSUME NEW s \in Fields
  PROVE  /\ s.parts \in [Partitions -> Part \cup {Gone}] /\ s.safe \in [Partitions -> Int]
         /\ s.committed \in [Partitions -> Int] /\ s.dirty \in BOOLEAN /\ s.gen \in Nat
         /\ s.backlog \in Seq(Tasks) /\ s.inflight \in Int /\ s.throttled \in BOOLEAN
         /\ s.keyQueues \in [Lines -> Queue]
BY DEF Fields

(* The entry of one partition.                                               *)
LEMMA SetPart ==
  ASSUME NEW s \in Fields, NEW tp \in Partitions, NEW q \in Part \cup {Gone}
  PROVE  /\ [s EXCEPT !.parts[tp] = q] \in Fields
         /\ [s EXCEPT !.parts[tp] = q].parts = [s.parts EXCEPT ![tp] = q]
         /\ [s EXCEPT !.parts[tp] = q].safe = s.safe
         /\ [s EXCEPT !.parts[tp] = q].gen = s.gen
         /\ [s EXCEPT !.parts[tp] = q].backlog = s.backlog
         /\ [s EXCEPT !.parts[tp] = q].inflight = s.inflight
         /\ [s EXCEPT !.parts[tp] = q].keyQueues = s.keyQueues
<1>1. [s.parts EXCEPT ![tp] = q] \in [Partitions -> Part \cup {Gone}]
  BY FieldsAre
<1> QED  BY <1>1 DEF Fields

(* The number in flight changes.                                             *)
LEMMA SetInflight ==
  ASSUME NEW s \in Fields, NEW n \in Int
  PROVE  /\ [s EXCEPT !.inflight = n] \in Fields /\ [s EXCEPT !.inflight = n].inflight = n
         /\ [s EXCEPT !.inflight = n].parts = s.parts /\ [s EXCEPT !.inflight = n].safe = s.safe
         /\ [s EXCEPT !.inflight = n].gen = s.gen /\ [s EXCEPT !.inflight = n].backlog = s.backlog
         /\ [s EXCEPT !.inflight = n].keyQueues = s.keyQueues
BY DEF Fields

(* The backlog changes.                                                      *)
LEMMA SetBacklog ==
  ASSUME NEW s \in Fields, NEW b \in Seq(Tasks)
  PROVE  /\ [s EXCEPT !.backlog = b] \in Fields /\ [s EXCEPT !.backlog = b].backlog = b
         /\ [s EXCEPT !.backlog = b].parts = s.parts /\ [s EXCEPT !.backlog = b].safe = s.safe
         /\ [s EXCEPT !.backlog = b].gen = s.gen /\ [s EXCEPT !.backlog = b].inflight = s.inflight
         /\ [s EXCEPT !.backlog = b].keyQueues = s.keyQueues
BY DEF Fields

(* One line changes.                                                         *)
LEMMA SetQueue ==
  ASSUME NEW s \in Fields, NEW l \in Lines, NEW q \in Queue
  PROVE  /\ [s EXCEPT !.keyQueues[l] = q] \in Fields
         /\ [s EXCEPT !.keyQueues[l] = q].keyQueues = [s.keyQueues EXCEPT ![l] = q]
         /\ [s EXCEPT !.keyQueues[l] = q].parts = s.parts
         /\ [s EXCEPT !.keyQueues[l] = q].safe = s.safe
         /\ [s EXCEPT !.keyQueues[l] = q].gen = s.gen
         /\ [s EXCEPT !.keyQueues[l] = q].backlog = s.backlog
         /\ [s EXCEPT !.keyQueues[l] = q].inflight = s.inflight
<1>1. [s.keyQueues EXCEPT ![l] = q] \in [Lines -> Queue]
  BY FieldsAre
<1> QED  BY <1>1 DEF Fields

(* The first steps of complete.                                              *)
Less(s) == [s EXCEPT !.inflight = @ - 1]
PartLess(s, tp) == [s EXCEPT !.parts[tp].inflight = @ - 1]

(* complete counts a message out of its partition.                           *)
LEMMA PartLessIs ==
  ASSUME NEW s \in Fields, NEW tp \in Partitions, s.parts[tp] # Gone
  PROVE  /\ PartLess(s, tp) \in Fields
         /\ PartLess(s, tp).parts
              = [s.parts EXCEPT ![tp] = [s.parts[tp] EXCEPT !.inflight = s.parts[tp].inflight - 1]]
         /\ [s.parts[tp] EXCEPT !.inflight = s.parts[tp].inflight - 1] \in Part
         /\ PartLess(s, tp).safe = s.safe /\ PartLess(s, tp).gen = s.gen
         /\ PartLess(s, tp).backlog = s.backlog /\ PartLess(s, tp).inflight = s.inflight
         /\ PartLess(s, tp).keyQueues = s.keyQueues
<1>. DEFINE p == s.parts[tp]
            n == p.inflight - 1
            q == [p EXCEPT !.inflight = n]
<1>1. p \in Part
  BY FieldsAre
<1>2. n \in Int
  BY <1>1, SMTT(30) DEF Part
<1>3. q \in Part
  <2>. HIDE DEF p, n
  <2> QED  BY <1>1, <1>2 DEF Part
<1>4. PartLess(s, tp) = [s EXCEPT !.parts[tp] = q]
  BY DEF PartLess
<1> QED
  <2>. HIDE DEF q
  <2>1. /\ PartLess(s, tp) \in Fields /\ PartLess(s, tp).parts = [s.parts EXCEPT ![tp] = q]
        /\ PartLess(s, tp).safe = s.safe /\ PartLess(s, tp).gen = s.gen
        /\ PartLess(s, tp).backlog = s.backlog /\ PartLess(s, tp).inflight = s.inflight
        /\ PartLess(s, tp).keyQueues = s.keyQueues
    BY <1>3, <1>4, SetPart, SMTT(30)
  <2> QED  BY <1>3, <2>1 DEF q

\* The commit point, and the entry of a partition after markDone and after rewind.
FrontierAfter(p, t) ==
  Min({o \in p.frontier..Len(Log[t.tp]) : o \notin p.completed \cup {t.offset}})
DoneEntry(p, offset, f) ==
  [p EXCEPT !.completed = {o \in p.completed \cup {offset} : o >= f}, !.frontier = f]
RewoundEntry(p) == [p EXCEPT !.next = p.frontier, !.failedAt = -1, !.backoff = TRUE]

(* What markDone changes.                                                    *)
LEMMA MarkDoneIs ==
  ASSUME NEW s \in Fields, NEW t \in Tasks, s.parts[t.tp] # Gone, NEW f \in Int,
         f = FrontierAfter(s.parts[t.tp], t),
         NEW q, q = DoneEntry(s.parts[t.tp], t.offset, f),
         NEW g, g = IF f > s.parts[t.tp].frontier THEN f ELSE s.safe[t.tp]
  PROVE  /\ markDone(s, t) \in Fields /\ q \in Part
         /\ markDone(s, t).parts = [s.parts EXCEPT ![t.tp] = q]
         /\ markDone(s, t).safe = [s.safe EXCEPT ![t.tp] = g]
         /\ markDone(s, t).gen = s.gen /\ markDone(s, t).backlog = s.backlog
         /\ markDone(s, t).inflight = s.inflight /\ markDone(s, t).keyQueues = s.keyQueues
<1>. DEFINE p == s.parts[t.tp]
            done == {o \in p.completed \cup {t.offset} : o >= f}
            R == [s EXCEPT !.parts = [s.parts EXCEPT ![t.tp] = q],
                           !.safe = [s.safe EXCEPT ![t.tp] = g], !.dirty = TRUE]
<1>0. t.tp \in Partitions /\ t.offset \in Nat
  BY TaskIs
<1>1. p \in Part
  BY <1>0, FieldsAre
<1>2. done \in SUBSET Nat /\ g \in Int
  BY <1>0, <1>1, FieldsAre DEF Part
<1>3. q \in Part
  <2>1. q = [p EXCEPT !.completed = done, !.frontier = f]
    BY DEF DoneEntry
  <2>. HIDE DEF p, done
  <2> QED  BY <1>1, <1>2, <2>1 DEF Part
<1>4. [s.parts EXCEPT ![t.tp] = q] \in [Partitions -> Part \cup {Gone}]
  BY <1>0, <1>3, FieldsAre
<1>5. [s.safe EXCEPT ![t.tp] = g] \in [Partitions -> Int]
  BY <1>0, <1>2, FieldsAre
<1>6. markDone(s, t) = R
  BY <1>0 DEF markDone, Fields, DoneEntry, FrontierAfter
<1>. HIDE DEF p, done
<1> QED  BY <1>3, <1>4, <1>5, <1>6 DEF Fields

(* A free line.                                                              *)
LEMMA FreeIs == Free \in Queue /\ Free.tasks = <<>> /\ Free.busy = FALSE
BY SMTT(30) DEF Free, Queue

(* A busy line.                                                              *)
LEMMA BusyIs == \A q \in Seq(Tasks) : Busy(q) \in Queue /\ Busy(q).tasks = q /\ Busy(q).busy = TRUE
BY DEF Busy, Queue

(* A line of the consumer.                                                   *)
LEMMA QueueIs ==
  ASSUME NEW s \in Fields, NEW l \in Lines
  PROVE  /\ s.keyQueues[l] \in Queue /\ s.keyQueues[l].tasks \in Seq(Tasks)
         /\ s.keyQueues[l].busy \in BOOLEAN /\ Len(s.keyQueues[l].tasks) \in Nat
<1>1. s.keyQueues[l] \in Queue
  BY FieldsAre
<1>2. s.keyQueues[l].tasks \in Seq(Tasks) /\ s.keyQueues[l].busy \in BOOLEAN
  BY <1>1 DEF Queue
<1> QED  BY <1>1, <1>2, SMTT(30)

\* The line of a finished message, after released.
LineAfter(q) == IF q.tasks = <<>> THEN Free ELSE Busy(Tail(q.tasks))

(* What released changes: the line of the finished message.                  *)
LEMMA ReleasedIs ==
  ASSUME NEW s \in Fields, NEW t \in Tasks
  PROVE  LET r == released(s, t)
         IN /\ r \in Fields /\ r.parts = s.parts /\ r.safe = s.safe /\ r.gen = s.gen
            /\ r.backlog = s.backlog /\ r.inflight = s.inflight
            /\ r.keyQueues = IF keyed(t)
                             THEN [s.keyQueues EXCEPT ![line(t)] = LineAfter(s.keyQueues[line(t)])]
                             ELSE s.keyQueues
<1>. DEFINE q == LineAfter(s.keyQueues[line(t)])
<1>0. line(t) \in Lines
  BY TaskIs
<1>1. q \in Queue
  <2>1. s.keyQueues[line(t)].tasks \in Seq(Tasks)
    BY <1>0, QueueIs
  <2>2. CASE s.keyQueues[line(t)].tasks = <<>>
    BY <2>2, FreeIs DEF LineAfter
  <2>3. CASE s.keyQueues[line(t)].tasks # <<>>
    BY <2>1, <2>3, Shrinks, BusyIs DEF LineAfter
  <2> QED  BY <2>2, <2>3
<1>2. CASE keyed(t)
  <2>1. released(s, t) = [s EXCEPT !.keyQueues[line(t)] = q]
    BY <1>2 DEF released, LineAfter
  <2>. HIDE DEF q
  <2>2. /\ released(s, t) \in Fields
        /\ released(s, t).keyQueues = [s.keyQueues EXCEPT ![line(t)] = q]
        /\ released(s, t).parts = s.parts /\ released(s, t).safe = s.safe
        /\ released(s, t).gen = s.gen /\ released(s, t).backlog = s.backlog
        /\ released(s, t).inflight = s.inflight
    BY <1>0, <1>1, <2>1, SetQueue, SMTT(30)
  <2> QED  BY <1>2, <2>2 DEF q
<1>3. CASE ~keyed(t)
  BY <1>3 DEF released
<1> QED  BY <1>2, <1>3

LessEntry(p, n) == [p EXCEPT !.inflight = p.inflight - n]

(* What dropQueued changes for a message with a key.                         *)
LEMMA DropIs ==
  ASSUME NEW s \in Fields, NEW t \in Tasks, s.parts[t.tp] # Gone, keyed(t), NEW n \in Nat,
         n = Len(s.keyQueues[line(t)].tasks), NEW q, q = LessEntry(s.parts[t.tp], n)
  PROVE  /\ dropQueued(s, t) \in Fields /\ dropQueued(s, t).safe = s.safe
         /\ dropQueued(s, t).gen = s.gen /\ q \in Part
         /\ dropQueued(s, t).parts = [s.parts EXCEPT ![t.tp] = q]
         /\ dropQueued(s, t).backlog = s.backlog /\ dropQueued(s, t).inflight = s.inflight - n
         /\ dropQueued(s, t).keyQueues = [s.keyQueues EXCEPT ![line(t)] = Free]
<1>. DEFINE p == s.parts[t.tp]
            m == p.inflight - n
            k == s.inflight - n
            R == [s EXCEPT !.inflight = k, !.parts = [s.parts EXCEPT ![t.tp] = q],
                           !.keyQueues = [s.keyQueues EXCEPT ![line(t)] = Free]]
<1>0. t.tp \in Partitions /\ line(t) \in Lines
  BY TaskIs
<1>1. p \in Part
  BY <1>0, FieldsAre
<1>2. m \in Int /\ k \in Int
  <2>1. p.inflight \in Int /\ s.inflight \in Int
    BY <1>1, FieldsAre DEF Part
  <2>2. \A i \in Int : i - n \in Int
    BY ONLY n \in Nat, SMTT(30)
  <2> QED  BY <2>1, <2>2
<1>3. q \in Part
  <2>1. q = [p EXCEPT !.inflight = m]
    BY DEF LessEntry
  <2>. HIDE DEF p, m
  <2> QED  BY <1>1, <1>2, <2>1 DEF Part
<1>4. [s.parts EXCEPT ![t.tp] = q] \in [Partitions -> Part \cup {Gone}]
  BY <1>0, <1>3, FieldsAre
<1>5. [s.keyQueues EXCEPT ![line(t)] = Free] \in [Lines -> Queue]
  BY <1>0, FreeIs, FieldsAre
<1>6. dropQueued(s, t) = R
  BY <1>0 DEF dropQueued, Fields, LessEntry
<1> QED
  <2>. HIDE DEF p, m, k
  <2>1. /\ R \in Fields /\ R.parts = [s.parts EXCEPT ![t.tp] = q] /\ R.inflight = k
        /\ R.safe = s.safe /\ R.gen = s.gen /\ R.backlog = s.backlog
        /\ R.keyQueues = [s.keyQueues EXCEPT ![line(t)] = Free]
    BY <1>2, <1>4, <1>5 DEF Fields
  <2> QED  BY <1>3, <1>6, <2>1 DEF k

(* What noteFailure changes.                                                 *)
LEMMA NoteIs ==
  ASSUME NEW s \in Fields, NEW t \in Tasks, s.parts[t.tp] # Gone
  PROVE  LET r == noteFailure(s, t)
             p == s.parts[t.tp]
             at == IF p.failedAt < 0 \/ t.offset < p.failedAt THEN t.offset ELSE p.failedAt
         IN /\ r \in Fields /\ [p EXCEPT !.failedAt = at] \in Part
            /\ r.parts = [s.parts EXCEPT ![t.tp] = [p EXCEPT !.failedAt = at]]
            /\ r.safe = s.safe /\ r.gen = s.gen /\ r.backlog = s.backlog
            /\ r.inflight = s.inflight /\ r.keyQueues = s.keyQueues
<1>. DEFINE p == s.parts[t.tp]
            at == IF p.failedAt < 0 \/ t.offset < p.failedAt THEN t.offset ELSE p.failedAt
            q == [p EXCEPT !.failedAt = at]
            r == noteFailure(s, t)
<1>0. t.tp \in Partitions /\ t.offset \in Nat
  BY TaskIs
<1>1. p \in Part
  BY <1>0, FieldsAre
<1>2. at \in Int
  BY <1>0, <1>1, SMTT(30) DEF Part
<1>3. q \in Part
  <2>. HIDE DEF p, at
  <2> QED  BY <1>1, <1>2 DEF Part
<1>4. r = [s EXCEPT !.parts[t.tp] = q]
  BY DEF noteFailure
<1> QED
  <2>. HIDE DEF q, r
  <2>1. /\ r \in Fields /\ r.parts = [s.parts EXCEPT ![t.tp] = q]
        /\ r.safe = s.safe /\ r.gen = s.gen
        /\ r.backlog = s.backlog /\ r.inflight = s.inflight /\ r.keyQueues = s.keyQueues
    BY <1>0, <1>3, <1>4, SetPart, SMTT(30)
  <2> QED  BY <1>3, <2>1 DEF q, r

(* What rewind changes.                                                      *)
LEMMA RewindIs ==
  ASSUME NEW s \in Fields, NEW tp \in Partitions, s.parts[tp] # Gone
  PROVE  LET r == rewind(s, tp)
             q == RewoundEntry(s.parts[tp])
         IN /\ r \in Fields /\ q \in Part /\ r.parts = [s.parts EXCEPT ![tp] = q]
            /\ r.safe = s.safe /\ r.gen = s.gen /\ r.backlog = without(s.backlog, tp)
            /\ r.inflight = s.inflight /\ r.keyQueues = s.keyQueues
<1>. DEFINE p == s.parts[tp]
            q == RewoundEntry(p)
            b == without(s.backlog, tp)
            R == [s EXCEPT !.backlog = b, !.parts = [s.parts EXCEPT ![tp] = q]]
<1>1. p \in Part /\ p.frontier \in Int /\ -1 \in Int
  BY FieldsAre, SMTT(30) DEF Part
<1>2. q \in Part
  <2>. HIDE DEF p
  <2> QED  BY <1>1 DEF Part, RewoundEntry
<1>3. b \in Seq(Tasks)
  BY FieldsAre, WithoutIs
<1>4. [s.parts EXCEPT ![tp] = q] \in [Partitions -> Part \cup {Gone}]
  BY <1>2, FieldsAre
<1>5. rewind(s, tp) = R
  BY DEF rewind, Fields, RewoundEntry
<1> QED
  <2>. HIDE DEF p, q, b
  <2>1. /\ R \in Fields /\ R.parts = [s.parts EXCEPT ![tp] = q] /\ R.backlog = b
        /\ R.safe = s.safe /\ R.gen = s.gen /\ R.inflight = s.inflight
        /\ R.keyQueues = s.keyQueues
    BY <1>3, <1>4 DEF Fields
  <2> QED  BY <1>2, <1>5, <2>1 DEF p, q, b

(* What updateThrottle leaves alone.                                         *)
LEMMA ThrottleIs ==
  ASSUME NEW s \in Fields
  PROVE  LET r == updateThrottle(s)
         IN /\ r \in Fields /\ r.parts = s.parts /\ r.safe = s.safe /\ r.gen = s.gen
            /\ r.backlog = s.backlog /\ r.inflight = s.inflight /\ r.keyQueues = s.keyQueues
<1>. DEFINE held == s.inflight + Len(s.backlog)
            b == held >= MaxInFlight \/ (s.throttled /\ held > MaxInFlight \div 2)
<1>1. b \in BOOLEAN
  OBVIOUS
<1>2. updateThrottle(s) = [s EXCEPT !.throttled = b]
  BY DEF updateThrottle, Fields
<1>. HIDE DEF b
<1> QED  BY <1>1, <1>2 DEF Fields

\* At most the paused flags of the assigned partitions change.
Repaused(s, r, ok) ==
  \A tp \in Partitions : \E b \in BOOLEAN :
    r.parts[tp] = IF s.parts[tp] = Gone \/ ~ok THEN s.parts[tp]
                  ELSE [s.parts[tp] EXCEPT !.paused = b]

(* What reconcile changes: the paused flags.                                 *)
LEMMA ReconcileIs ==
  ASSUME NEW s \in Fields, NEW refusing \in BOOLEAN, NEW ok \in BOOLEAN
  PROVE  LET r == reconcile(s, refusing, ok)
         IN /\ r \in Fields /\ r.safe = s.safe /\ r.gen = s.gen
            /\ r.backlog = s.backlog /\ r.inflight = s.inflight /\ r.keyQueues = s.keyQueues
            /\ Repaused(s, r, ok)
<1>. DEFINE want(tp) == refusing \/ s.parts[tp].backoff \/ s.throttled
            ps == [tp \in Partitions |-> IF s.parts[tp] = Gone \/ ~ok THEN s.parts[tp]
                                         ELSE [s.parts[tp] EXCEPT !.paused = want(tp)]]
<1>1. \A tp \in Partitions : want(tp) \in BOOLEAN
  OBVIOUS
<1>2. reconcile(s, refusing, ok) = [s EXCEPT !.parts = ps]
  BY DEF reconcile, Fields
<1>. HIDE DEF want
<1>3. ASSUME NEW tp \in Partitions, s.parts[tp] # Gone
      PROVE  [s.parts[tp] EXCEPT !.paused = want(tp)] \in Part
  <2>1. s.parts[tp] \in Part
    BY <1>3, FieldsAre
  <2> QED  BY <1>1, <2>1 DEF Part
<1>4. ps \in [Partitions -> Part \cup {Gone}]
  <2>1. ASSUME NEW tp \in Partitions
        PROVE  (IF s.parts[tp] = Gone \/ ~ok THEN s.parts[tp]
                ELSE [s.parts[tp] EXCEPT !.paused = want(tp)]) \in Part \cup {Gone}
    <3>1. s.parts[tp] \in Part \cup {Gone}
      BY FieldsAre
    <3> QED  BY <1>3, <3>1
  <2> QED  BY <2>1
<1>5. \A tp \in Partitions : \E b \in BOOLEAN :
                 ps[tp] = IF s.parts[tp] = Gone \/ ~ok THEN s.parts[tp]
                          ELSE [s.parts[tp] EXCEPT !.paused = b]
  BY <1>1
<1>. HIDE DEF ps
<1>6. [s EXCEPT !.parts = ps].parts = ps
  BY DEF Fields
<1>7. Repaused(s, reconcile(s, refusing, ok), ok)
  BY <1>2, <1>5, <1>6 DEF Repaused
<1> QED  BY <1>2, <1>4, <1>7 DEF Fields

(* What a commit leaves alone.                                               *)
LEMMA CommittedIs ==
  ASSUME NEW s \in Fields, NEW tps
  PROVE  LET r == committedAll(s, tps)
         IN /\ r \in Fields /\ r.parts = s.parts /\ r.safe = s.safe /\ r.gen = s.gen
            /\ r.backlog = s.backlog /\ r.inflight = s.inflight /\ r.keyQueues = s.keyQueues
<1>. DEFINE f == [tp \in Partitions |-> IF tp \in tps THEN s.safe[tp] ELSE s.committed[tp]]
<1>1. f \in [Partitions -> Int]
  BY FieldsAre
<1>2. committedAll(s, tps) = [s EXCEPT !.committed = f]
  BY DEF committedAll, Fields
<1>. HIDE DEF f
<1> QED  BY <1>1, <1>2 DEF Fields

(* What clearing the dirty flag leaves alone.                                *)
LEMMA CleanIs ==
  ASSUME NEW s \in Fields
  PROVE  LET r == [s EXCEPT !.dirty = FALSE]
         IN /\ r \in Fields /\ r.parts = s.parts /\ r.safe = s.safe /\ r.gen = s.gen
            /\ r.backlog = s.backlog /\ r.inflight = s.inflight /\ r.keyQueues = s.keyQueues
BY DEF Fields

-----------------------------------------------------------------------------
(* What is settled, and what is claimed to be.                               *)

\* Every message of the partition before offset n is settled.
Below(tp, n, D) == \A o \in 0..n - 1 : <<tp, o>> \in D

\* What the entry of an assigned partition claims: everything below its commit
\* point and everything it lists as completed is settled; so is, as long as nothing
\* was accepted, everything below the offset x the client reads next.
EntryOf(p, tp, x, D) ==
  /\ Below(tp, p.frontier, D) /\ p.frontier <= Len(Log[tp])
  /\ \A o \in p.completed : <<tp, o>> \in D /\ o < Len(Log[tp])
  /\ p.next < 0 => p.failedAt < 0 /\ Below(tp, x, D)
  /\ p.next >= 0 => p.frontier >= 0

Entry(s, tp, x, D) ==
  /\ Below(tp, s.safe[tp], D)
  /\ s.parts[tp] # Gone => EntryOf(s.parts[tp], tp, x, D) /\ s.parts[tp].gen <= s.gen

\* A task was accepted in a generation there has been, and its partition knows.
Seen(s, t) == t.gen <= s.gen /\ (current(s, t) => s.parts[t.tp].next >= 0)

\* What the fields s claim is true: D is settled, the client reads X next, and the
\* tasks T are in the consumer.
Good(s, X, D, T) ==
  /\ s \in Fields
  /\ \A tp \in Partitions : Entry(s, tp, X[tp], D)
  /\ \A t \in T : Seen(s, t)

\* A change of an entry that no claim depends on.
KinPart(p, q) ==
  /\ q.gen = p.gen /\ q.next = p.next /\ q.frontier = p.frontier /\ q.completed = p.completed
  /\ q.failedAt = p.failedAt \/ p.next >= 0

Kin(s, r) ==
  /\ r \in Fields /\ r.safe = s.safe /\ r.gen = s.gen
  /\ \A tp \in Partitions :
       \/ r.parts[tp] = s.parts[tp]
       \/ s.parts[tp] # Gone /\ r.parts[tp] # Gone /\ KinPart(s.parts[tp], r.parts[tp])

(* Such a change keeps every claim true.                                     *)
LEMMA KinGood ==
  ASSUME NEW s, NEW r, NEW X, NEW D, NEW T \in SUBSET Tasks, Good(s, X, D, T), Kin(s, r)
  PROVE  Good(r, X, D, T)
<1>1. s \in Fields /\ r \in Fields
  BY DEF Good, Kin
<1>2. ASSUME NEW tp \in Partitions PROVE Entry(r, tp, X[tp], D)
  <2>1. Entry(s, tp, X[tp], D) /\ r.safe = s.safe /\ r.gen = s.gen
    BY DEF Good, Kin
  <2>2. CASE r.parts[tp] = s.parts[tp]
    BY <2>1, <2>2 DEF Entry
  <2>3. CASE s.parts[tp] # Gone /\ KinPart(s.parts[tp], r.parts[tp])
    <3>. DEFINE p == s.parts[tp]
                q == r.parts[tp]
    <3>1. EntryOf(p, tp, X[tp], D) /\ p.gen <= s.gen /\ KinPart(p, q)
      BY <2>1, <2>3 DEF Entry
    <3>2. p \in Part /\ p.next \in Int
      BY <1>1, <2>3, FieldsAre DEF Part
    <3>. HIDE DEF p, q
    <3>3. EntryOf(q, tp, X[tp], D) /\ q.gen <= s.gen
      BY <3>1, <3>2, SMTT(30) DEF EntryOf, KinPart
    <3> QED  BY <2>1, <3>3 DEF Entry, p, q
  <2> QED  BY <2>2, <2>3 DEF Kin
<1>3. ASSUME NEW t \in T PROVE Seen(r, t)
  <2>1. Seen(s, t) /\ r.gen = s.gen /\ t.tp \in Partitions
    BY TaskIs DEF Good, Kin
  <2>2. CASE r.parts[t.tp] = s.parts[t.tp]
    BY <2>1, <2>2 DEF Seen, current
  <2>3. CASE s.parts[t.tp] # Gone /\ KinPart(s.parts[t.tp], r.parts[t.tp])
    BY <2>1, <2>3 DEF Seen, current, KinPart
  <2> QED  BY <2>1, <2>2, <2>3 DEF Kin
<1> QED  BY <1>1, <1>2, <1>3 DEF Good

(* The entries of the partitions are the same.                               *)
LEMMA KinSame ==
  ASSUME NEW s, NEW r \in Fields, r.safe = s.safe, r.gen = s.gen, r.parts = s.parts
  PROVE  Kin(s, r)
BY DEF Kin

(* One entry changes so.                                                     *)
LEMMA KinOne ==
  ASSUME NEW s \in Fields, NEW r \in Fields, r.safe = s.safe, r.gen = s.gen, NEW tp \in Partitions,
         NEW q \in Part, r.parts = [s.parts EXCEPT ![tp] = q], s.parts[tp] # Gone,
         KinPart(s.parts[tp], q)
  PROVE  Kin(s, r)
<1>1. s.parts \in [Partitions -> Part \cup {Gone}] /\ q # Gone
  BY FieldsAre, GoneIs
<1>2. ASSUME NEW p \in Partitions
      PROVE  \/ r.parts[p] = s.parts[p]
             \/ s.parts[p] # Gone /\ r.parts[p] # Gone /\ KinPart(s.parts[p], r.parts[p])
  <2>1. CASE p = tp
    BY <1>1, <2>1
  <2>2. CASE p # tp
    BY <1>1, <2>2
  <2> QED  BY <2>1, <2>2
<1> QED  BY <1>2 DEF Kin

(* More is settled.                                                          *)
LEMMA MoreGood ==
  ASSUME NEW s, NEW X, NEW D, NEW E, NEW T, D \subseteq E, Good(s, X, D, T)
  PROVE  Good(s, X, E, T)
<1>1. \A tp, n : Below(tp, n, D) => Below(tp, n, E)
  BY DEF Below
<1>2. ASSUME NEW tp \in Partitions PROVE Entry(s, tp, X[tp], E)
  <2>1. Entry(s, tp, X[tp], D)
    BY DEF Good
  <2> QED  BY <1>1, <2>1 DEF Entry, EntryOf
<1> QED  BY <1>2 DEF Good

(* Fewer tasks are in the consumer.                                          *)
LEMMA FewerGood ==
  ASSUME NEW s, NEW X, NEW D, NEW T, NEW U, U \subseteq T, Good(s, X, D, T)
  PROVE  Good(s, X, D, U)
BY DEF Good

-----------------------------------------------------------------------------
(* The methods keep what is claimed true.                                    *)

(* The commit point that markDone finds: nothing below it is unsettled, and
   everything it moves over is finished.                                     *)
LEMMA FrontierIs ==
  ASSUME NEW t \in Tasks, NEW p \in Part, NEW D, NEW x, EntryOf(p, t.tp, x, D),
         <<t.tp, t.offset>> \in D, NEW f,
         f = FrontierAfter(p, t)
  PROVE  /\ f \in Int /\ p.frontier <= f /\ f <= Len(Log[t.tp])
         /\ Below(t.tp, f, D)
         /\ \A o \in p.frontier..f - 1 : o \in p.completed \cup {t.offset}
<1>. DEFINE n == Len(Log[t.tp])
            done == p.completed \cup {t.offset}
            S == {o \in p.frontier..n : o \notin done}
<1>1. /\ t.tp \in Partitions /\ t.offset \in Nat /\ n \in Nat /\ t.offset < n
      /\ p.frontier \in Int /\ p.completed \in SUBSET Nat /\ p.frontier <= n
      /\ \A o \in p.completed : <<t.tp, o>> \in D /\ o < n
  BY TaskIs DEF Part, EntryOf
<1>2. S \subseteq Int /\ n \in S /\ S \subseteq p.frontier..n
  <2>. HIDE DEF n
  <2>1. \A o \in p.completed : o < n
    BY <1>1
  <2>2. n \notin p.completed
    BY <1>1, <2>1, SMTT(30)
  <2>3. n # t.offset
    BY <1>1, SMTT(30)
  <2>4. n \in p.frontier..n /\ p.frontier..n \subseteq Int
    BY <1>1, SMTT(30)
  <2> QED  BY <2>2, <2>3, <2>4
<1>3. \A o \in S : o - p.frontier \in Nat
  BY <1>1, SMTT(30)
<1>4. \E m \in S : \A k \in S : m <= k
  <2>. DEFINE Z == {o - p.frontier : o \in S}
  <2>1. Z \subseteq Nat /\ n - p.frontier \in Z
    BY <1>1, <1>2, <1>3
  <2>2. PICK z \in Z : \A y \in Z : z <= y
    <3>. HIDE DEF Z
    <3> QED  BY <2>1, Least
  <2>3. PICK m \in S : z = m - p.frontier
    OBVIOUS
  <2>4. \A k \in S : k - p.frontier \in Z
    OBVIOUS
  <2>5. \A k \in S : m <= k
    <3>1. \A k \in S : m - p.frontier <= k - p.frontier
      BY <2>2, <2>3, <2>4
    <3> QED  BY <1>1, <1>2, <3>1, SMTT(30)
  <2> QED  BY <2>5
<1>5. f \in S /\ \A k \in S : f <= k
  <2>1. f = CHOOSE m \in S : \A k \in S : m <= k
    BY DEF Min, FrontierAfter
  <2>. HIDE DEF S
  <2> QED  BY <1>4, <2>1
<1>6. f \in Int /\ p.frontier <= f /\ f <= n
  BY <1>1, <1>5, SMTT(30)
<1>7. ASSUME NEW o \in p.frontier..f - 1 PROVE o \in done
  BY <1>1, <1>5, <1>6, SMTT(30)
<1>8. ASSUME NEW o \in 0..f - 1 PROVE <<t.tp, o>> \in D
  <2>1. CASE o < p.frontier
    BY <1>1, <1>6, <2>1, SMTT(30) DEF EntryOf, Below
  <2>2. CASE o >= p.frontier
    BY <1>1, <1>6, <1>7, <2>2, SMTT(30)
  <2> QED  BY <1>1, <2>1, <2>2, SMTT(30)
<1> QED  BY <1>6, <1>7, <1>8 DEF Below

\* One entry changes.
OneChanges(s, r, tp, q, X, Y, D) ==
  /\ r \in Fields /\ r.gen = s.gen /\ tp \in Partitions /\ q \in Part
  /\ s.parts[tp] # Gone /\ r.parts = [s.parts EXCEPT ![tp] = q]
  /\ \A p \in Partitions : p # tp => r.safe[p] = s.safe[p] /\ Y[p] = X[p]
  /\ Below(tp, r.safe[tp], D) /\ EntryOf(q, tp, Y[tp], D)
  /\ q.gen = s.parts[tp].gen /\ (s.parts[tp].next >= 0 => q.next >= 0)

(* If the new entry is right, every claim stays true.                        *)
LEMMA OneGood ==
  ASSUME NEW s, NEW r, NEW X, NEW Y, NEW D, NEW T \in SUBSET Tasks, Good(s, X, D, T),
         NEW tp, NEW q, OneChanges(s, r, tp, q, X, Y, D)
  PROVE  Good(r, Y, D, T)
<1>. USE DEF OneChanges
<1>1. s \in Fields /\ s.parts \in [Partitions -> Part \cup {Gone}]
  BY FieldsAre DEF Good
<1>2. r.parts[tp] = q /\ \A p \in Partitions : p # tp => r.parts[p] = s.parts[p]
  BY <1>1
<1>3. ASSUME NEW p \in Partitions PROVE Entry(r, p, Y[p], D)
  <2>1. Entry(s, p, X[p], D)
    BY DEF Good
  <2>2. CASE p = tp
    BY <1>2, <2>1, <2>2 DEF Entry
  <2>3. CASE p # tp
    BY <1>2, <2>1, <2>3 DEF Entry
  <2> QED  BY <2>2, <2>3
<1>4. ASSUME NEW t \in T PROVE Seen(r, t)
  <2>1. Seen(s, t) /\ t.tp \in Partitions
    BY TaskIs DEF Good
  <2>2. CASE t.tp = tp
    BY <1>2, <2>1, <2>2 DEF Seen, current
  <2>3. CASE t.tp # tp
    BY <1>2, <2>1, <2>3 DEF Seen, current
  <2> QED  BY <2>2, <2>3
<1> QED  BY <1>3, <1>4 DEF Good

(* markDone keeps the claims: what it moves the commit point over is
   settled.                                                                  *)
LEMMA MarkDoneGood ==
  ASSUME NEW s, NEW X, NEW D, NEW T \in SUBSET Tasks, Good(s, X, D, T), NEW t \in Tasks,
         s.parts[t.tp] # Gone, <<t.tp, t.offset>> \in D
  PROVE  /\ Good(markDone(s, t), X, D, T) /\ markDone(s, t).parts[t.tp] # Gone
         /\ markDone(s, t).backlog = s.backlog /\ markDone(s, t).keyQueues = s.keyQueues
<1>. DEFINE p == s.parts[t.tp]
            f == FrontierAfter(p, t)
            done == {o \in p.completed \cup {t.offset} : o >= f}
            q == DoneEntry(p, t.offset, f)
            g == IF f > p.frontier THEN f ELSE s.safe[t.tp]
            r == markDone(s, t)
<1>1. s \in Fields /\ t.tp \in Partitions
  BY TaskIs DEF Good
<1>2. p \in Part /\ p.next \in Int /\ p.frontier \in Int
  <2>1. p \in Part
    BY <1>1, FieldsAre
  <2>. HIDE DEF p
  <2> QED  BY <2>1 DEF Part
<1>3. Entry(s, t.tp, X[t.tp], D) /\ EntryOf(p, t.tp, X[t.tp], D)
  BY <1>1 DEF Good, Entry
<1>4. f \in Int /\ p.frontier <= f /\ f <= Len(Log[t.tp]) /\ Below(t.tp, f, D)
  <2>. HIDE DEF p
  <2> QED  BY <1>2, <1>3, FrontierIs
<1>5. /\ r \in Fields /\ q \in Part /\ r.parts = [s.parts EXCEPT ![t.tp] = q] /\ r.gen = s.gen
      /\ r.safe = [s.safe EXCEPT ![t.tp] = g]
      /\ r.backlog = s.backlog /\ r.keyQueues = s.keyQueues
  <2>1. f = FrontierAfter(s.parts[t.tp], t)
    OBVIOUS
  <2>2. f \in Int
    BY <1>4
  <2>3. q = DoneEntry(s.parts[t.tp], t.offset, f)
    OBVIOUS
  <2>4. g = IF f > s.parts[t.tp].frontier THEN f ELSE s.safe[t.tp]
    OBVIOUS
  <2>. HIDE DEF f, q, g, p
  <2> QED  BY <1>1, <2>1, <2>2, <2>3, <2>4, MarkDoneIs, SMTT(30)
<1>6. /\ q.gen = p.gen /\ q.next = p.next /\ q.frontier = f /\ q.completed = done
      /\ q.failedAt = p.failedAt
  <2>. HIDE DEF p, f
  <2> QED  BY <1>2 DEF Part, DoneEntry
<1>7. EntryOf(q, t.tp, X[t.tp], D)
  <2>1. \A o \in done : <<t.tp, o>> \in D /\ o < Len(Log[t.tp])
    BY <1>3, TaskIs DEF EntryOf
  <2>2. p.next >= 0 => f >= 0
    <3>. HIDE DEF p, f
    <3> QED  BY <1>2, <1>3, <1>4, SMTT(30) DEF EntryOf
  <2>. HIDE DEF p, f, done, q
  <2> QED  BY <1>3, <1>4, <1>6, <2>1, <2>2 DEF EntryOf
<1>8. Below(t.tp, r.safe[t.tp], D) /\ \A u \in Partitions : u # t.tp => r.safe[u] = s.safe[u]
  <2>1. s.safe \in [Partitions -> Int] /\ Below(t.tp, s.safe[t.tp], D)
    BY <1>1, <1>3, FieldsAre DEF Entry
  <2>. HIDE DEF p, f, r
  <2> QED  BY <1>1, <1>4, <1>5, <2>1
<1>9. p.next >= 0 => q.next >= 0
  BY <1>6
<1>10. OneChanges(s, r, t.tp, q, X, X, D)
  <2>. HIDE DEF f, done, q, r
  <2> QED  BY <1>1, <1>5, <1>6, <1>7, <1>8, <1>9 DEF OneChanges
<1>11. r.parts[t.tp] # Gone
  <2>1. s.parts \in [Partitions -> Part \cup {Gone}]
    BY <1>1, FieldsAre
  <2>. HIDE DEF q, r
  <2> QED  BY <1>1, <1>5, <2>1, GoneIs
<1>. HIDE DEF q, r
<1>12. Good(r, X, D, T)
  BY <1>10, OneGood
<1> QED  BY <1>5, <1>11, <1>12 DEF r

(* rewind keeps the claims: the client is pointed at the commit point.       *)
LEMMA RewindGood ==
  ASSUME NEW s, NEW X, NEW D, NEW T \in SUBSET Tasks, Good(s, X, D, T), NEW tp \in Partitions,
         s.parts[tp] # Gone, s.parts[tp].failedAt >= 0, X \in [Partitions -> Int]
  PROVE  Good(rewind(s, tp), [X EXCEPT ![tp] = s.parts[tp].frontier], D, T)
<1>. DEFINE p == s.parts[tp]
            q == RewoundEntry(p)
            r == rewind(s, tp)
            Y == [X EXCEPT ![tp] = p.frontier]
<1>1. s \in Fields
  BY DEF Good
<1>2. p \in Part /\ p.next \in Int /\ p.frontier \in Int /\ p.failedAt \in Int
  BY <1>1, FieldsAre DEF Part
<1>3. Entry(s, tp, X[tp], D) /\ EntryOf(p, tp, X[tp], D)
  BY <1>1 DEF Good, Entry
<1>4. /\ r \in Fields /\ q \in Part /\ r.parts = [s.parts EXCEPT ![tp] = q] /\ r.gen = s.gen
      /\ r.safe = s.safe
  BY <1>1, RewindIs
<1>5. /\ q.gen = p.gen /\ q.next = p.frontier /\ q.frontier = p.frontier /\ q.failedAt = -1
      /\ q.completed = p.completed
  <2>. HIDE DEF p
  <2> QED  BY <1>2 DEF Part, RewoundEntry
<1>6. p.next >= 0 /\ p.frontier >= 0
  BY <1>2, <1>3, SMTT(30) DEF EntryOf
<1>7. EntryOf(q, tp, Y[tp], D) /\ q.next >= 0
  <2>. HIDE DEF p, q
  <2> QED  BY <1>2, <1>3, <1>5, <1>6, SMTT(30) DEF EntryOf
<1>8. Below(tp, r.safe[tp], D) /\ \A u \in Partitions : u # tp => r.safe[u] = s.safe[u] /\ Y[u] = X[u]
  BY <1>3, <1>4 DEF Entry
<1>9. OneChanges(s, r, tp, q, X, Y, D)
  <2>. HIDE DEF q, r, Y
  <2> QED  BY <1>1, <1>4, <1>5, <1>7, <1>8 DEF OneChanges
<1>. HIDE DEF q, r, Y
<1>10. Good(r, Y, D, T)
  BY <1>9, OneGood
<1> QED  BY <1>10 DEF r, Y

\* The entry of a partition after accept took a message.
TakenEntry(p, offset) ==
  [p EXCEPT !.next = offset + 1, !.frontier = IF p.next < 0 THEN offset ELSE p.frontier]

(* What accept changes in the entry.                                         *)
LEMMA TakenIs ==
  ASSUME NEW p \in Part, NEW offset \in Nat, NEW q, q = TakenEntry(p, offset)
  PROVE  /\ q \in Part /\ q.gen = p.gen /\ q.next = offset + 1 /\ q.completed = p.completed
         /\ q.frontier = IF p.next < 0 THEN offset ELSE p.frontier
         /\ q.inflight = p.inflight /\ q.failedAt = p.failedAt
<1>. DEFINE n == offset + 1
            f == IF p.next < 0 THEN offset ELSE p.frontier
<1>1. n \in Int /\ f \in Int
  BY SMTT(30) DEF Part
<1>2. q = [p EXCEPT !.next = n, !.frontier = f]
  BY DEF TakenEntry
<1>3. /\ q \in Part /\ q.gen = p.gen /\ q.next = n /\ q.completed = p.completed
      /\ q.frontier = f /\ q.inflight = p.inflight /\ q.failedAt = p.failedAt
  <2>. HIDE DEF n, f
  <2> QED  BY <1>1, <1>2 DEF Part
<1> QED  BY <1>3

TaskFor(p, tp, offset) == [tp |-> tp, offset |-> offset, gen |-> p.gen]

(* The task accept makes of a message.                                       *)
LEMMA TaskForIs ==
  ASSUME NEW tp \in Partitions, NEW p \in Part, NEW offset \in Offsets(tp)
  PROVE  /\ TaskFor(p, tp, offset) \in Tasks /\ TaskFor(p, tp, offset).tp = tp
         /\ TaskFor(p, tp, offset).offset = offset /\ TaskFor(p, tp, offset).gen = p.gen
<1>1. p.gen \in Nat
  BY DEF Part
<1>2. Len(Log[tp]) \in Nat /\ offset \in Nat
  BY ConsumerAssumption, SMTT(30) DEF Offsets
<1> QED  BY <1>1, <1>2 DEF TaskFor, Tasks

(* accept, when the message is the expected one.                             *)
LEMMA AcceptGood ==
  ASSUME NEW s, NEW X, NEW D, NEW T \in SUBSET Tasks, Good(s, X, D, T), NEW tp \in Partitions,
         s.parts[tp] # Gone, NEW offset \in Offsets(tp), s.parts[tp].failedAt < 0,
         s.parts[tp].next < 0 => offset = X[tp],
         NEW q, q = TakenEntry(s.parts[tp], offset), NEW r \in Fields,
         r.parts = [s.parts EXCEPT ![tp] = q], r.safe = s.safe, r.gen = s.gen,
         NEW Y, \A p \in Partitions : p # tp => Y[p] = X[p],
         NEW u, u = TaskFor(s.parts[tp], tp, offset)
  PROVE  Good(r, Y, D, T \cup {u})
<1>. DEFINE p == s.parts[tp]
<1>1. s \in Fields /\ Len(Log[tp]) \in Nat /\ offset \in Nat /\ offset < Len(Log[tp])
  BY ConsumerAssumption, SMTT(30) DEF Good, Offsets
<1>2. p \in Part
  BY <1>1, FieldsAre, SMTT(30)
<1>3. p.next \in Int /\ p.frontier \in Int /\ p.failedAt \in Int
  BY <1>2 DEF Part
<1>4. Entry(s, tp, X[tp], D) /\ EntryOf(p, tp, X[tp], D) /\ p.gen <= s.gen
  BY <1>1 DEF Good, Entry
<1>5. /\ q \in Part /\ q.gen = p.gen /\ q.next = offset + 1 /\ q.completed = p.completed
      /\ q.frontier = (IF p.next < 0 THEN offset ELSE p.frontier) /\ q.failedAt = p.failedAt
  <2>1. q = TakenEntry(p, offset)
    OBVIOUS
  <2>. HIDE DEF p
  <2> QED  BY ONLY <1>1, <1>2, <2>1, TakenIs, Zenon
<1>6. EntryOf(q, tp, Y[tp], D)
  <2>. HIDE DEF p
  <2>1. CASE p.next < 0
    <3>1. Below(tp, offset, D) /\ q.frontier = offset
      BY <1>4, <1>5, <2>1 DEF EntryOf, p
    <3> QED  BY <1>1, <1>4, <1>5, <3>1, SMTT(30) DEF EntryOf
  <2>2. CASE p.next >= 0
    <3>1. q.frontier = p.frontier
      BY <1>3, <1>5, <2>2, SMTT(30)
    <3> QED  BY <1>1, <1>3, <1>4, <1>5, <2>2, <3>1, SMTT(30) DEF EntryOf
  <2> QED  BY <1>3, <2>1, <2>2, SMTT(30)
<1>7. OneChanges(s, r, tp, q, X, Y, D)
  <2>1. q.next >= 0
    BY <1>1, <1>5, SMTT(30)
  <2>2. Below(tp, r.safe[tp], D)
    BY <1>4 DEF Entry
  <2> QED  BY <1>5, <1>6, <2>1, <2>2 DEF OneChanges
<1>8. Good(r, Y, D, T)
  BY <1>7, OneGood
<1>9. Seen(r, u)
  <2>1. u.tp = tp /\ u.gen = p.gen
    BY <1>2, TaskForIs, SMTT(30)
  <2>2. r.parts[tp] = q
    BY <1>1, FieldsAre
  <2> QED  BY <1>1, <1>4, <1>5, <2>1, <2>2, SMTT(30) DEF Seen, current
<1> QED  BY <1>8, <1>9 DEF Good

-----------------------------------------------------------------------------
(* A new assignment, and the end of one.                                     *)

Assigned(s, tp) ==
  [s EXCEPT !.gen = @ + 1, !.parts[tp] = newPartition(s.gen + 1), !.committed[tp] = -1]

(* The entry of a partition just assigned.                                   *)
LEMMA NewPartIs ==
  ASSUME NEW n \in Nat \ {0}
  PROVE  /\ newPartition(n) \in Part /\ newPartition(n).gen = n /\ newPartition(n).next = -1
         /\ newPartition(n).frontier = -1 /\ newPartition(n).completed = {}
         /\ newPartition(n).inflight = 0 /\ newPartition(n).failedAt = -1
BY SMTT(30) DEF newPartition, Part

(* What onAssigned changes.                                                  *)
LEMMA AssignedIs ==
  ASSUME NEW s \in Fields, NEW tp \in Partitions, NEW r, r = Assigned(s, tp)
  PROVE  /\ r \in Fields /\ r.gen = s.gen + 1
         /\ r.parts = [s.parts EXCEPT ![tp] = newPartition(s.gen + 1)]
         /\ r.safe = s.safe /\ r.backlog = s.backlog /\ r.inflight = s.inflight
         /\ r.keyQueues = s.keyQueues
<1>. DEFINE n == s.gen + 1
            q == newPartition(n)
            ps == [s.parts EXCEPT ![tp] = q]
            cs == [s.committed EXCEPT ![tp] = -1]
<1>1. n \in Nat \ {0}
  BY FieldsAre, SMTT(30)
<1>2. q \in Part
  <2>. HIDE DEF n
  <2> QED  BY <1>1, NewPartIs
<1>3. ps \in [Partitions -> Part \cup {Gone}] /\ cs \in [Partitions -> Int]
  BY <1>2, FieldsAre, SMTT(30)
<1>4. r = [s EXCEPT !.gen = n, !.parts = ps, !.committed = cs]
  BY DEF Assigned, Fields
<1>5. /\ r \in Fields /\ r.gen = n /\ r.parts = ps
      /\ r.safe = s.safe /\ r.backlog = s.backlog /\ r.inflight = s.inflight
      /\ r.keyQueues = s.keyQueues
  <2>. HIDE DEF n, ps, cs
  <2> QED  BY <1>1, <1>3, <1>4 DEF Fields
<1> QED  BY <1>5

(* onAssigned keeps the claims: the client starts where the group has
   committed.                                                                *)
LEMMA AssignedGood ==
  ASSUME NEW s, NEW X, NEW Y, NEW D, NEW T \in SUBSET Tasks, Good(s, X, D, T),
         NEW tp \in Partitions, s.parts[tp] = Gone, NEW r, r = Assigned(s, tp),
         \A p \in Partitions : p # tp => Y[p] = X[p], Below(tp, Y[tp], D)
  PROVE  Good(r, Y, D, T) /\ r.backlog = s.backlog /\ r.keyQueues = s.keyQueues
<1>. DEFINE q == newPartition(s.gen + 1)
<1>1. s \in Fields /\ s.gen \in Nat /\ s.parts \in [Partitions -> Part \cup {Gone}]
  BY FieldsAre DEF Good
<1>2. /\ r \in Fields /\ r.gen = s.gen + 1 /\ r.parts = [s.parts EXCEPT ![tp] = q]
      /\ r.safe = s.safe /\ r.backlog = s.backlog /\ r.keyQueues = s.keyQueues
  BY ONLY <1>1, tp \in Partitions, r = Assigned(s, tp), AssignedIs, SMTT(30)
<1>3. /\ q.gen = s.gen + 1 /\ q.next = -1 /\ q.frontier = -1 /\ q.completed = {}
      /\ q.failedAt = -1
  BY <1>1, NewPartIs, SMTT(30)
<1>4. r.parts[tp] = q /\ \A p \in Partitions : p # tp => r.parts[p] = s.parts[p]
  BY <1>1, <1>2
<1>. HIDE DEF q
<1>5. EntryOf(q, tp, Y[tp], D)
  BY <1>3, ConsumerAssumption, SMTT(30) DEF EntryOf, Below
<1>6. ASSUME NEW p \in Partitions PROVE Entry(r, p, Y[p], D)
  <2>1. Entry(s, p, X[p], D)
    BY DEF Good
  <2>2. CASE p = tp
    BY <1>2, <1>3, <1>4, <1>5, <2>1, <2>2, <1>1, SMTT(30) DEF Entry
  <2>3. CASE p # tp
    <3>1. s.parts[p] # Gone => s.parts[p].gen \in Nat
      BY <1>1 DEF Part
    <3> QED  BY <1>1, <1>2, <1>4, <2>1, <2>3, <3>1, SMTT(30) DEF Entry
  <2> QED  BY <2>2, <2>3
<1>7. ASSUME NEW t \in T PROVE Seen(r, t)
  <2>1. Seen(s, t) /\ t.tp \in Partitions /\ t.gen \in Nat
    BY TaskIs DEF Good
  <2>2. t.gen <= s.gen /\ t.gen # s.gen + 1 /\ t.gen <= r.gen
    BY <1>1, <1>2, <2>1, SMTT(30) DEF Seen
  <2>3. CASE t.tp = tp
    BY <1>3, <1>4, <2>2, <2>3 DEF Seen, current
  <2>4. CASE t.tp # tp
    BY <1>4, <2>1, <2>2, <2>4 DEF Seen, current
  <2> QED  BY <2>3, <2>4
<1> QED  BY <1>2, <1>6, <1>7 DEF Good

Revoked(s, tp) ==
  [s EXCEPT !.parts[tp] = Gone, !.safe[tp] = -1, !.committed[tp] = -1,
            !.inflight = @ - queuedFor(s, tp),
            !.keyQueues = [l \in Lines |-> IF l[1] = tp THEN Free ELSE @[l]],
            !.backlog = without(@, tp)]

(* There are finitely many lines.                                            *)
LEMMA LinesFinite == IsFiniteSet(Lines)
<1>1. \A tp \in Partitions : IsFiniteSet({<<tp, KeyOf(tp, o)>> : o \in Offsets(tp)})
  <2>1. SUFFICES ASSUME NEW tp \in Partitions
                 PROVE  IsFiniteSet({<<tp, KeyOf(tp, o)>> : o \in Offsets(tp)})
    OBVIOUS
  <2>. DEFINE S == Offsets(tp)
              U == {<<tp, KeyOf(tp, o)>> : o \in S}
              f == [o \in S |-> <<tp, KeyOf(tp, o)>>]
  <2>2. IsFiniteSet(S)
    BY ConsumerAssumption, FS_Interval, SMTT(30) DEF Offsets
  <2>3. f \in Surjection(S, U)
    BY DEF Surjection
  <2>. HIDE DEF S, U, f
  <2>4. IsFiniteSet(U)
    BY <2>2, <2>3, FS_Surjection
  <2> QED  BY <2>4 DEF U, S
<1>. DEFINE W == {{<<tp, KeyOf(tp, o)>> : o \in Offsets(tp)} : tp \in Partitions}
<1>2. IsFiniteSet(W)
  <2>. DEFINE f == [tp \in Partitions |-> {<<tp, KeyOf(tp, o)>> : o \in Offsets(tp)}]
  <2>1. f \in Surjection(Partitions, W)
    BY DEF Surjection
  <2>. HIDE DEF f
  <2> QED  BY <2>1, ConsumerAssumption, FS_Surjection
<1>3. \A S \in W : IsFiniteSet(S)
  BY <1>1
<1>. HIDE DEF W
<1>4. IsFiniteSet(UNION W)
  BY <1>2, <1>3, FS_UNION
<1> QED  BY <1>4 DEF Lines, W

(* queuedFor counts.                                                         *)
LEMMA QueuedForInt == \A s \in Fields : \A tp : queuedFor(s, tp) \in Int
<1>1. SUFFICES ASSUME NEW s \in Fields, NEW tp PROVE queuedFor(s, tp) \in Int
  OBVIOUS
<1>. DEFINE S == {l \in Lines : l[1] = tp}
            W == {Places(s, l) : l \in S}
<1>2. IsFiniteSet(S)
  BY LinesFinite, FS_Subset
<1>3. IsFiniteSet(W)
  <2>. DEFINE f == [l \in S |-> Places(s, l)]
  <2>1. f \in Surjection(S, W)
    BY DEF Surjection
  <2>. HIDE DEF f, S, W
  <2> QED  BY <1>2, <2>1, FS_Surjection
<1>4. ASSUME NEW l \in S PROVE IsFiniteSet(Places(s, l))
  <2>1. DOMAIN s.keyQueues[l].tasks = 1..Len(s.keyQueues[l].tasks) /\ Len(s.keyQueues[l].tasks) \in Int
    BY QueueIs, SMTT(30)
  <2>2. IsFiniteSet(DOMAIN s.keyQueues[l].tasks)
    BY <2>1, FS_Interval, SMTT(30)
  <2> QED  BY <2>2, FS_Singleton, FS_Product DEF Places
<1>5. \A T \in W : IsFiniteSet(T)
  BY <1>4
<1>. HIDE DEF W
<1>6. Cardinality(UNION W) \in Nat
  BY <1>3, <1>5, FS_UNION, FS_CardinalityType
<1>7. queuedFor(s, tp) = Cardinality(UNION W)
  BY DEF queuedFor, W
<1> QED  BY <1>6, <1>7, SMTT(30)

FreedQueues(s, tp) == [l \in Lines |-> IF l[1] = tp THEN Free ELSE s.keyQueues[l]]

(* What onRevoked changes.                                                   *)
LEMMA RevokedIs ==
  ASSUME NEW s \in Fields, NEW tp \in Partitions, NEW r, r = Revoked(s, tp)
  PROVE  /\ r \in Fields /\ r.gen = s.gen /\ r.parts = [s.parts EXCEPT ![tp] = Gone]
         /\ r.safe = [s.safe EXCEPT ![tp] = -1] /\ r.backlog = without(s.backlog, tp)
         /\ r.inflight = s.inflight - queuedFor(s, tp)
         /\ r.keyQueues = FreedQueues(s, tp)
<1>. DEFINE ps == [s.parts EXCEPT ![tp] = Gone]
            ss == [s.safe EXCEPT ![tp] = -1]
            cs == [s.committed EXCEPT ![tp] = -1]
            n == s.inflight - queuedFor(s, tp)
            ks == FreedQueues(s, tp)
            b == without(s.backlog, tp)
<1>1. n \in Int
  BY QueuedForInt, FieldsAre, SMTT(30)
<1>2. /\ ps \in [Partitions -> Part \cup {Gone}] /\ ss \in [Partitions -> Int]
      /\ cs \in [Partitions -> Int]
  BY FieldsAre, SMTT(30)
<1>3. ks \in [Lines -> Queue]
  <2>1. \A l \in Lines : s.keyQueues[l] \in Queue
    BY QueueIs
  <2> QED  BY <2>1, FreeIs DEF FreedQueues
<1>4. b \in Seq(Tasks)
  BY FieldsAre, WithoutIs
<1>5. r = [s EXCEPT !.parts = ps, !.safe = ss, !.committed = cs, !.inflight = n,
                    !.keyQueues = ks, !.backlog = b]
  BY DEF Revoked, Fields, FreedQueues
<1>6. /\ r \in Fields /\ r.gen = s.gen /\ r.parts = ps /\ r.safe = ss /\ r.backlog = b
      /\ r.inflight = n /\ r.keyQueues = ks
  <2>. HIDE DEF ps, ss, cs, n, ks, b
  <2> QED  BY <1>1, <1>2, <1>3, <1>4, <1>5 DEF Fields
<1> QED  BY <1>6

(* onRevoked keeps the claims.                                               *)
LEMMA RevokedGood ==
  ASSUME NEW s, NEW X, NEW D, NEW T \in SUBSET Tasks, Good(s, X, D, T),
         NEW tp \in Partitions, NEW r, r = Revoked(s, tp)
  PROVE  Good(r, X, D, T)
<1>1. s \in Fields /\ s.parts \in [Partitions -> Part \cup {Gone}] /\ s.safe \in [Partitions -> Int]
  BY FieldsAre DEF Good
<1>2. /\ r \in Fields /\ r.gen = s.gen /\ r.parts = [s.parts EXCEPT ![tp] = Gone]
      /\ r.safe = [s.safe EXCEPT ![tp] = -1]
  <2>1. s \in Fields
    BY <1>1
  <2> QED  BY <1>1, <2>1, RevokedIs, SMTT(30)
<1>3. /\ r.parts[tp] = Gone /\ r.safe[tp] = -1
      /\ \A p \in Partitions : p # tp => r.parts[p] = s.parts[p] /\ r.safe[p] = s.safe[p]
  BY <1>1, <1>2
<1>4. ASSUME NEW p \in Partitions PROVE Entry(r, p, X[p], D)
  <2>1. Entry(s, p, X[p], D)
    BY DEF Good
  <2>2. CASE p = tp
    BY <1>3, <2>2, SMTT(30) DEF Entry, Below
  <2>3. CASE p # tp
    BY <1>2, <1>3, <2>1, <2>3 DEF Entry
  <2> QED  BY <2>2, <2>3
<1>5. ASSUME NEW t \in T PROVE Seen(r, t)
  <2>1. Seen(s, t) /\ t.tp \in Partitions
    BY TaskIs DEF Good
  <2>2. CASE t.tp = tp
    BY <1>2, <1>3, <2>1, <2>2 DEF Seen, current
  <2>3. CASE t.tp # tp
    BY <1>2, <1>3, <2>1, <2>3 DEF Seen, current
  <2> QED  BY <2>2, <2>3
<1> QED  BY <1>2, <1>4, <1>5 DEF Good

(* The partition of a message that is sent, or whose backoff is over.        *)
PartMore(s, tp) == [s EXCEPT !.inflight = @ + 1, !.parts[tp].inflight = @ + 1]

(* send counts a message into its partition.                                 *)
LEMMA PartMoreIs ==
  ASSUME NEW s \in Fields, NEW tp \in Partitions, s.parts[tp] # Gone, NEW r, r = PartMore(s, tp)
  PROVE  /\ r \in Fields
         /\ [s.parts[tp] EXCEPT !.inflight = s.parts[tp].inflight + 1] \in Part
         /\ r.parts = [s.parts EXCEPT ![tp] = [s.parts[tp] EXCEPT !.inflight = s.parts[tp].inflight + 1]]
         /\ r.safe = s.safe /\ r.gen = s.gen /\ r.backlog = s.backlog
         /\ r.inflight = s.inflight + 1 /\ r.keyQueues = s.keyQueues
<1>. DEFINE p == s.parts[tp]
            n == p.inflight + 1
            q == [p EXCEPT !.inflight = n]
            ps == [s.parts EXCEPT ![tp] = q]
            m == s.inflight + 1
<1>1. p \in Part
  BY FieldsAre
<1>2. n \in Int /\ m \in Int
  <2>1. p.inflight \in Int /\ s.inflight \in Int
    BY <1>1, FieldsAre DEF Part
  <2>. HIDE DEF p
  <2> QED  BY <2>1, SMTT(30)
<1>3. q \in Part
  <2>. HIDE DEF p, n
  <2> QED  BY <1>1, <1>2 DEF Part
<1>4. ps \in [Partitions -> Part \cup {Gone}]
  <2>. HIDE DEF q
  <2> QED  BY <1>3, FieldsAre
<1>5. r = [s EXCEPT !.inflight = m, !.parts = ps]
  BY DEF PartMore, Fields
<1>6. /\ r \in Fields /\ r.parts = ps /\ r.inflight = m
      /\ r.safe = s.safe /\ r.gen = s.gen /\ r.backlog = s.backlog /\ r.keyQueues = s.keyQueues
  <2>. HIDE DEF ps, m
  <2> QED  BY <1>2, <1>4, <1>5 DEF Fields
<1> QED  BY <1>3, <1>6

BackedOff(s, tp) == [s EXCEPT !.parts[tp].backoff = FALSE]

(* The end of a backoff.                                                     *)
LEMMA BackedOffIs ==
  ASSUME NEW s \in Fields, NEW tp \in Partitions, s.parts[tp] # Gone, NEW r, r = BackedOff(s, tp)
  PROVE  /\ r \in Fields /\ [s.parts[tp] EXCEPT !.backoff = FALSE] \in Part
         /\ r.parts = [s.parts EXCEPT ![tp] = [s.parts[tp] EXCEPT !.backoff = FALSE]]
         /\ r.safe = s.safe /\ r.gen = s.gen /\ r.backlog = s.backlog
         /\ r.inflight = s.inflight /\ r.keyQueues = s.keyQueues
<1>. DEFINE p == s.parts[tp]
            q == [p EXCEPT !.backoff = FALSE]
<1>1. p \in Part
  BY FieldsAre
<1>2. q \in Part
  <2>. HIDE DEF p
  <2> QED  BY <1>1 DEF Part
<1>3. r = [s EXCEPT !.parts[tp] = q]
  BY DEF BackedOff
<1>4. /\ r \in Fields /\ r.parts = [s.parts EXCEPT ![tp] = q]
      /\ r.safe = s.safe /\ r.gen = s.gen /\ r.backlog = s.backlog
      /\ r.inflight = s.inflight /\ r.keyQueues = s.keyQueues
  <2>. HIDE DEF q
  <2> QED  BY ONLY <1>2, <1>3, s \in Fields, tp \in Partitions, SetPart, SMTT(30)
<1> QED  BY <1>2, <1>4
=============================================================================
