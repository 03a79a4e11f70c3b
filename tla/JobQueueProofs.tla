---------------------------- MODULE JobQueueProofs ----------------------------
(***************************************************************************)
(* What is posted, taken or left of a queue.  Posted is defined by         *)
(* recursion on the places of the queue: first, induction over numbers,    *)
(* from the well-founded order of the subsets of a finite set; then, that  *)
(* the recursion defines a function and only one; then, what Append and    *)
(* Tail do to the posted jobs.                                             *)
(***************************************************************************)
EXTENDS JobQueue, FiniteSetTheorems, SequenceTheorems, TLAPS

(* Every set of numbers that is not empty has a least one. *)
LEMMA Least == ASSUME NEW T, T \subseteq Nat, T # {} PROVE \E x \in T : \A y \in T : x <= y
<1>1. PICK n \in T : TRUE
  OBVIOUS
<1> DEFINE Below == {x \in T : x <= n}
           Intervals == {0..x : x \in Below}
<1>2. Intervals \subseteq FiniteSubsetsOf(0..n)
  <2>1. IsFiniteSet(0..n)
    BY FS_Interval
  <2>2. \A x \in Below : 0..x \subseteq 0..n
    OBVIOUS
  <2>3. FiniteSubsetsOf(0..n) = SUBSET (0..n)
    BY <2>1, FS_FiniteSubsetsOfFinite
  <2> QED
    BY <2>2, <2>3
<1>3. Intervals # {}
  <2>1. n \in Below
    OBVIOUS
  <2> QED
    BY <2>1
<1>4. PICK c \in Intervals : \A d \in Intervals : <<d, c>> \notin StrictSubsetOrdering(0..n)
  <2> HIDE DEF Intervals
  <2> QED
    BY <1>2, <1>3, FS_StrictSubsetOrderingWellFounded, WFMin
<1>5. PICK x \in Below : c = 0..x
  OBVIOUS
<1>6. ASSUME NEW y \in Below, y < x PROVE FALSE
  <2>1. 0..y \in Intervals /\ 0..y \in SUBSET (0..n) /\ 0..x \in SUBSET (0..n)
    OBVIOUS
  <2>2. 0..y \subseteq 0..x /\ x \in 0..x /\ x \notin 0..y
    BY <1>6
  <2> QED
    BY <1>4, <1>5, <2>1, <2>2 DEF StrictSubsetOrdering
<1> QED
  BY <1>6

(* Induction, over a set of numbers. *)
LEMMA NatSetInduction ==
  ASSUME NEW T, 0 \in T, \A n \in Nat : n \in T => n + 1 \in T PROVE Nat \subseteq T
<1> SUFFICES ASSUME Nat \ T # {} PROVE FALSE
  OBVIOUS
<1>1. PICK x \in Nat \ T : \A y \in Nat \ T : x <= y
  BY Least
<1>2. x # 0 /\ x - 1 \in Nat /\ x - 1 \in T
  BY <1>1
<1> QED
  BY <1>2

\* f is the function that Posted(q) is defined by, up to place m.
Keeps(f, q, m) ==
  f = [n \in 0..m |-> IF n = 0 THEN <<>> ELSE IF q[n] = "loop" THEN f[n - 1] ELSE Append(f[n - 1], q[n])]

LEMMA KeepsExists == ASSUME NEW q PROVE \A m \in Nat : \E f : Keeps(f, q, m)
<1> DEFINE T == {m \in Nat : \E f : Keeps(f, q, m)}
<1>1. 0 \in T
  <2> DEFINE f == [n \in 0..0 |-> <<>>]
  <2>1. Keeps(f, q, 0)
    BY DEF Keeps
  <2> QED
    BY <2>1
<1>2. ASSUME NEW m \in Nat, m \in T PROVE m + 1 \in T
  <2>1. PICK f : Keeps(f, q, m)
    BY <1>2
  <2> DEFINE last == IF q[m + 1] = "loop" THEN f[m] ELSE Append(f[m], q[m + 1])
             g == [n \in 0..(m + 1) |-> IF n = m + 1 THEN last ELSE f[n]]
             h == [n \in 0..(m + 1) |-> IF n = 0 THEN <<>> ELSE IF q[n] = "loop" THEN g[n - 1] ELSE Append(g[n - 1], q[n])]
  <2>2. \A n \in 0..m : f[n] = IF n = 0 THEN <<>> ELSE IF q[n] = "loop" THEN f[n - 1] ELSE Append(f[n - 1], q[n])
    BY <2>1 DEF Keeps
  <2>3. ASSUME NEW n \in 0..(m + 1) PROVE g[n] = h[n]
    <3>1. CASE n = m + 1
      <4>1. g[n - 1] = f[m] /\ n # 0
        BY <3>1
      <4> QED
        BY <3>1, <4>1
    <3>2. CASE n \in 0..m /\ n # 0
      <4>1. g[n - 1] = f[n - 1] /\ n # m + 1 /\ g[n] = f[n]
        BY <3>2
      <4> QED
        BY <2>2, <3>2, <4>1
    <3>3. CASE n = 0
      BY <2>2, <3>3
    <3> QED
      BY <3>1, <3>2, <3>3
  <2>4. g = h
    BY <2>3
  <2>5. Keeps(g, q, m + 1)
    BY <2>4 DEF Keeps
  <2> QED
    BY <2>5
<1> HIDE DEF T
<1>3. Nat \subseteq T
  BY <1>1, <1>2, NatSetInduction
<1> QED
  BY <1>3 DEF T

LEMMA KeepsUnique ==
  ASSUME NEW q, NEW p, NEW m \in Nat, NEW f, NEW g, Keeps(f, p, m), NEW k \in Nat, Keeps(g, q, k), m <= k,
         \A n \in 1..m : p[n] = q[n]
  PROVE  f[m] = g[m]
<1> DEFINE T == {n \in Nat : n <= m => f[n] = g[n]}
<1>1. \A n \in 0..m : f[n] = IF n = 0 THEN <<>> ELSE IF p[n] = "loop" THEN f[n - 1] ELSE Append(f[n - 1], p[n])
  BY DEF Keeps
<1>2. \A n \in 0..k : g[n] = IF n = 0 THEN <<>> ELSE IF q[n] = "loop" THEN g[n - 1] ELSE Append(g[n - 1], q[n])
  BY DEF Keeps
<1>3. 0 \in T
  BY <1>1, <1>2
<1>4. ASSUME NEW n \in Nat, n \in T PROVE n + 1 \in T
  BY <1>1, <1>2, <1>4
<1> HIDE DEF T
<1>5. Nat \subseteq T
  BY <1>3, <1>4, NatSetInduction
<1> QED
  BY <1>5 DEF T

LEMMA PostedIs ==
  ASSUME NEW q, Len(q) \in Nat
  PROVE  \E f : Keeps(f, q, Len(q)) /\ Posted(q) = f[Len(q)]
<1> DEFINE f == CHOOSE f : Keeps(f, q, Len(q))
<1>1. Keeps(f, q, Len(q))
  BY KeepsExists
<1>2. Posted(q) = f[Len(q)]
  BY DEF Posted, Keeps
<1> QED BY <1>1, <1>2

(* An empty queue has no posted job. *)
LEMMA PostedEmpty == Posted(<<>>) = <<>>
<1>1. Len(<<>>) = 0
  OBVIOUS
<1>2. PICK f : Keeps(f, <<>>, 0) /\ Posted(<<>>) = f[0]
  BY <1>1, PostedIs
<1> QED
  BY <1>2 DEF Keeps

(* Posting a job posts that job, behind all others. *)
LEMMA PostedAppend ==
  ASSUME NEW S, NEW q \in Seq(S), NEW x \in S
  PROVE  Posted(Append(q, x)) = IF x = "loop" THEN Posted(q) ELSE Append(Posted(q), x)
<1> DEFINE a == Append(q, x)
           n == Len(q)
<1>1. n \in Nat /\ Len(a) = n + 1 /\ a[n + 1] = x /\ \A i \in 1..n : q[i] = a[i]
  OBVIOUS
<1>2. PICK f : Keeps(f, q, n) /\ Posted(q) = f[n]
  BY <1>1, PostedIs
<1> HIDE DEF a
<1>3. PICK g : Keeps(g, a, n + 1) /\ Posted(a) = g[n + 1]
  BY <1>1, PostedIs
<1> HIDE DEF n
<1>4. f[n] = g[n]
  <2>1. n + 1 \in Nat /\ n <= n + 1
    BY <1>1
  <2> QED
    BY <1>1, <1>2, <1>3, <2>1, KeepsUnique
<1>5. g[n + 1] = IF a[n + 1] = "loop" THEN g[n] ELSE Append(g[n], a[n + 1])
  <2>1. \A i \in 0..(n + 1) : g[i] = IF i = 0 THEN <<>> ELSE IF a[i] = "loop" THEN g[i - 1] ELSE Append(g[i - 1], a[i])
    BY <1>3 DEF Keeps
  <2>2. n + 1 \in 0..(n + 1) /\ n + 1 # 0 /\ (n + 1) - 1 = n
    BY <1>1
  <2> QED
    BY <2>1, <2>2
<1> QED
  BY <1>1, <1>2, <1>3, <1>4, <1>5 DEF a

(* A posted job is a job. *)
LEMMA PostedType ==
  ASSUME NEW S, NEW q \in Seq(S)
  PROVE  Posted(q) \in Seq(S \ {"loop"})
<1>1. PICK f : Keeps(f, q, Len(q)) /\ Posted(q) = f[Len(q)]
  BY PostedIs
<1> DEFINE T == {n \in Nat : n <= Len(q) => f[n] \in Seq(S \ {"loop"})}
<1>2. \A n \in 0..Len(q) : f[n] = IF n = 0 THEN <<>> ELSE IF q[n] = "loop" THEN f[n - 1] ELSE Append(f[n - 1], q[n])
  BY <1>1 DEF Keeps
<1>3. 0 \in T
  <2>1. f[0] = <<>>
    BY <1>2
  <2>2. <<>> \in Seq(S \ {"loop"})
    OBVIOUS
  <2> QED
    BY <2>1, <2>2
<1>4. ASSUME NEW n \in Nat, n \in T PROVE n + 1 \in T
  <2> SUFFICES ASSUME n + 1 <= Len(q) PROVE f[n + 1] \in Seq(S \ {"loop"})
    OBVIOUS
  <2>1. f[n] \in Seq(S \ {"loop"}) /\ q[n + 1] \in S
    BY <1>4
  <2>2. f[n + 1] = IF q[n + 1] = "loop" THEN f[n] ELSE Append(f[n], q[n + 1])
    BY <1>2
  <2> QED
    BY <2>1, <2>2
<1> HIDE DEF T
<1>5. Nat \subseteq T
  BY <1>3, <1>4, NatSetInduction
<1> QED
  BY <1>1, <1>5 DEF T

(* Appending to the second of two sequences appends to both together. *)
LEMMA AppendConcat ==
  ASSUME NEW S, NEW s \in Seq(S), NEW t \in Seq(S), NEW x \in S
  PROVE  Append(s \o t, x) = s \o Append(t, x)
<1>1. s \o t \in Seq(S) /\ <<x>> \in Seq(S)
  BY ConcatProperties
<1>2. Append(s \o t, x) = (s \o t) \o <<x>> /\ Append(t, x) = t \o <<x>>
  BY <1>1, AppendIsConcat
<1> QED
  BY <1>1, <1>2, ConcatAssociative

(* Taking the first job takes it from the posted ones, unless it is a loop. *)
LEMMA PostedTail ==
  ASSUME NEW S, NEW q \in Seq(S), q # <<>>
  PROVE  /\ Head(q) = "loop" => Posted(Tail(q)) = Posted(q)
         /\ Head(q) # "loop" => /\ Posted(q) # <<>>
                                /\ Head(Posted(q)) = Head(q)
                                /\ Tail(Posted(q)) = Posted(Tail(q))
<1> DEFINE t == Tail(q)
           m == Len(t)
           front == IF Head(q) = "loop" THEN <<>> ELSE <<Head(q)>>
<1>1. /\ t \in Seq(S) /\ m \in Nat /\ Len(q) = m + 1 /\ q[1] = Head(q) /\ Head(q) \in S
      /\ \A i \in 1..m : q[i + 1] = t[i]
  OBVIOUS
<1>2. PICK f : Keeps(f, q, m + 1) /\ Posted(q) = f[m + 1]
  BY <1>1, PostedIs
<1>3. PICK g : Keeps(g, t, m) /\ Posted(t) = g[m]
  BY <1>1, PostedIs
<1> HIDE DEF t, m
<1>4. \A n \in 0..(m + 1) : f[n] = IF n = 0 THEN <<>> ELSE IF q[n] = "loop" THEN f[n - 1] ELSE Append(f[n - 1], q[n])
  BY <1>2 DEF Keeps
<1>5. \A n \in 0..m : g[n] = IF n = 0 THEN <<>> ELSE IF t[n] = "loop" THEN g[n - 1] ELSE Append(g[n - 1], t[n])
  BY <1>3 DEF Keeps
<1> DEFINE T == {n \in Nat : n <= m => g[n] \in Seq(S) /\ f[n + 1] = front \o g[n]}
<1>6. 0 \in T
  <2>1. f[0] = <<>> /\ g[0] = <<>>
    BY <1>1, <1>4, <1>5
  <2>2. f[1] = IF q[1] = "loop" THEN f[0] ELSE Append(f[0], q[1])
    BY <1>1, <1>4
  <2>3. f[1] = front
    BY <1>1, <2>1, <2>2
  <2>4. front \in Seq(S) /\ <<>> \in Seq(S)
    BY <1>1
  <2> HIDE DEF front
  <2>5. front \o <<>> = front
    BY <2>4
  <2>6. g[0] \in Seq(S) /\ f[0 + 1] = front \o g[0]
    BY <2>1, <2>3, <2>4, <2>5
  <2> QED
    BY <2>6
<1>7. ASSUME NEW n \in Nat, n \in T PROVE n + 1 \in T
  <2>5. front \in Seq(S)
    BY <1>1
  <2> HIDE DEF front
  <2> SUFFICES ASSUME n + 1 <= m PROVE g[n + 1] \in Seq(S) /\ f[(n + 1) + 1] = front \o g[n + 1]
    OBVIOUS
  <2>1. g[n] \in Seq(S) /\ f[n + 1] = front \o g[n]
    BY <1>1, <1>7
  <2>2. t[n + 1] \in S /\ q[n + 2] = t[n + 1]
    BY <1>1
  <2>3. g[n + 1] = IF t[n + 1] = "loop" THEN g[n] ELSE Append(g[n], t[n + 1])
    BY <1>1, <1>5
  <2>4. f[n + 2] = IF q[n + 2] = "loop" THEN f[n + 1] ELSE Append(f[n + 1], q[n + 2])
    BY <1>1, <1>4
  <2>6. Append(front \o g[n], t[n + 1]) = front \o Append(g[n], t[n + 1])
    <3>1. g[n] \in Seq(S) /\ t[n + 1] \in S
      BY <2>1, <2>2
    <3>2. \A s, u \in Seq(S), x \in S : Append(s \o u, x) = s \o Append(u, x)
      BY AppendConcat
    <3> QED
      BY <3>1, <3>2, <2>5, Zenon
  <2>7. (n + 1) + 1 = n + 2
    OBVIOUS
  <2>8. g[n + 1] \in Seq(S)
    BY <2>1, <2>2, <2>3
  <2> HIDE DEF T
  <2> QED
    BY <2>1, <2>2, <2>3, <2>4, <2>6, <2>7, <2>8
<1>8. Nat \subseteq T
  <2> HIDE DEF T
  <2> QED
    BY <1>6, <1>7, NatSetInduction
<1>9. Posted(t) \in Seq(S) /\ Posted(q) = front \o Posted(t)
  <2> HIDE DEF T
  <2>1. m \in T
    BY <1>1, <1>8
  <2>2. g[m] \in Seq(S) /\ f[m + 1] = front \o g[m]
    <3> HIDE DEF front
    <3> QED
      BY <1>1, <2>1 DEF T
  <2> QED
    BY <1>2, <1>3, <2>2, Zenon
<1> QED
  BY <1>1, <1>9 DEF t
===============================================================================
