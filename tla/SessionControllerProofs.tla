------------------------ MODULE SessionControllerProofs ------------------------
(***************************************************************************)
(* The calculator is never left dead, its panels and trace flags catch up  *)
(* with its debug state: for every set of frontends, any number of         *)
(* operations, any program counter and any length of the queues.           *)
(*                                                                         *)
(* What is still to be done is in the programs of the two threads, so the  *)
(* invariants are about those: every change of the debug state has the     *)
(* step that makes it known after it, every stop has the step that starts  *)
(* the machine again.  What they may still post fits in the queue, so the  *)
(* run loop in the session takes no step that EmulationRunner does not.    *)
(***************************************************************************)
EXTENDS SessionController, SequenceTheorems, TLAPS

-----------------------------------------------------------------------------
(* Programs: what is still to come.                                         *)

(* Some A is still to come. *)
Has(p, A) == \E i \in 1..Len(p) : p[i] \in A

(* Every A that is still to come has a B after it. *)
Leads(p, A, B) == \A i \in 1..Len(p) : p[i] \in A => \E j \in (i + 1)..Len(p) : p[j] \in B

(* At most one A is in p. *)
Once(p, A) == \A i, j \in 1..Len(p) : p[i] \in A /\ p[j] \in A => i = j

(* Nothing follows an A. *)
Ends(p, A) == \A i \in 1..Len(p) : p[i] \in A => i = Len(p)

LEMMA OneOp ==
  ASSUME NEW S, NEW a \in S, NEW A, NEW B
  PROVE  /\ <<>> \in Seq(S) /\ <<a>> \in Seq(S) /\ <<a>> # <<>>
         /\ ~Has(<<>>, A) /\ (Has(<<a>>, A) <=> a \in A)
         /\ Leads(<<>>, A, B) /\ (Leads(<<a>>, A, B) <=> a \notin A)
  BY DEF Has, Leads

(* What is to come in a program that is a part and its rest. *)
LEMMA Joined ==
  ASSUME NEW S, NEW p \in Seq(S), NEW q \in Seq(S), NEW A, NEW B
  PROVE  /\ p \o q \in Seq(S)
         /\ Has(p \o q, A) <=> Has(p, A) \/ Has(q, A)
         /\ Leads(p \o q, A, B) <=> Leads(q, A, B) /\ (Leads(p, A, B) \/ Has(q, B))
<1>1. p \o q \in Seq(S) /\ Len(p \o q) = Len(p) + Len(q) /\ Len(p) \in Nat /\ Len(q) \in Nat
  BY ConcatProperties
<1>2. \A i \in 1..Len(p) : i \in 1..Len(p \o q) /\ (p \o q)[i] = p[i]
  BY <1>1, ConcatProperties
<1>3. \A i \in 1..Len(q) : i + Len(p) \in 1..Len(p \o q) /\ (p \o q)[i + Len(p)] = q[i]
  BY <1>1, ConcatProperties
<1>4. \A i \in 1..Len(p \o q) : i \in 1..Len(p) \/ (\E j \in 1..Len(q) : i = j + Len(p))
  <2> SUFFICES ASSUME NEW i \in 1..Len(p \o q), i \notin 1..Len(p)
               PROVE  \E j \in 1..Len(q) : i = j + Len(p)
    OBVIOUS
  <2>1. i - Len(p) \in 1..Len(q) /\ i = (i - Len(p)) + Len(p)
    BY <1>1
  <2> QED
    BY <2>1
<1>5. Has(p \o q, A) <=> Has(p, A) \/ Has(q, A)
  <2>1. Has(p, A) => Has(p \o q, A)
    BY <1>2 DEF Has
  <2>2. Has(q, A) => Has(p \o q, A)
    BY <1>3 DEF Has
  <2>3. ASSUME Has(p \o q, A) PROVE Has(p, A) \/ Has(q, A)
    <3>1. PICK i \in 1..Len(p \o q) : (p \o q)[i] \in A
      BY <2>3 DEF Has
    <3> QED
      BY <3>1, <1>2, <1>3, <1>4 DEF Has
  <2> QED
    BY <2>1, <2>2, <2>3
<1>6. ASSUME Leads(p \o q, A, B) PROVE Leads(q, A, B)
  <2> SUFFICES ASSUME NEW i \in 1..Len(q), q[i] \in A
               PROVE  \E j \in (i + 1)..Len(q) : q[j] \in B
    BY DEF Leads
  <2>1. PICK j \in (i + Len(p) + 1)..Len(p \o q) : (p \o q)[j] \in B
    BY <1>1, <1>3, <1>6 DEF Leads
  <2>2. j - Len(p) \in (i + 1)..Len(q) /\ j - Len(p) \in 1..Len(q) /\ j = (j - Len(p)) + Len(p)
    BY <1>1
  <2>3. q[j - Len(p)] \in B
    BY <1>3, <2>1, <2>2
  <2> QED
    BY <2>2, <2>3
<1>7. ASSUME Leads(p \o q, A, B), ~Has(q, B) PROVE Leads(p, A, B)
  <2> SUFFICES ASSUME NEW i \in 1..Len(p), p[i] \in A
               PROVE  \E j \in (i + 1)..Len(p) : p[j] \in B
    BY DEF Leads
  <2>1. PICK j \in (i + 1)..Len(p \o q) : (p \o q)[j] \in B
    BY <1>1, <1>2, <1>7 DEF Leads
  <2>2. j \in 1..Len(p \o q)
    BY <1>1
  <2>3. CASE j \in 1..Len(p)
    BY <1>2, <2>1, <2>3, <1>1
  <2>4. CASE \E k \in 1..Len(q) : j = k + Len(p)
    BY <1>3, <2>1, <2>4, <1>7 DEF Has
  <2> QED
    BY <1>4, <2>2, <2>3, <2>4
<1>8. ASSUME Leads(q, A, B), Leads(p, A, B) \/ Has(q, B) PROVE Leads(p \o q, A, B)
  <2> SUFFICES ASSUME NEW i \in 1..Len(p \o q), (p \o q)[i] \in A
               PROVE  \E j \in (i + 1)..Len(p \o q) : (p \o q)[j] \in B
    BY DEF Leads
  <2>1. CASE i \in 1..Len(p) /\ Has(q, B)
    <3>1. PICK k \in 1..Len(q) : q[k] \in B
      BY <2>1 DEF Has
    <3>2. k + Len(p) \in (i + 1)..Len(p \o q)
      BY <1>1, <2>1
    <3> QED
      BY <1>3, <3>1, <3>2
  <2>2. CASE i \in 1..Len(p) /\ Leads(p, A, B)
    <3>1. PICK j \in (i + 1)..Len(p) : p[j] \in B
      BY <2>2, <1>2 DEF Leads
    <3>2. j \in 1..Len(p) /\ j \in (i + 1)..Len(p \o q)
      BY <1>1, <2>2
    <3> QED
      BY <1>2, <3>1, <3>2
  <2>3. CASE \E k \in 1..Len(q) : i = k + Len(p)
    <3>1. PICK k \in 1..Len(q) : i = k + Len(p)
      BY <2>3
    <3>2. PICK j \in (k + 1)..Len(q) : q[j] \in B
      BY <3>1, <1>3, <1>8 DEF Leads
    <3>3. j \in 1..Len(q) /\ j + Len(p) \in (i + 1)..Len(p \o q)
      BY <1>1, <3>1
    <3> QED
      BY <1>3, <3>2, <3>3
  <2> QED
    BY <1>4, <1>8, <2>1, <2>2, <2>3
<1> QED
  BY <1>1, <1>5, <1>6, <1>7, <1>8

(* A program is its head and its tail. *)
LEMMA HeadAndTail ==
  ASSUME NEW S, NEW p \in Seq(S), p # <<>>
  PROVE  Head(p) \in S /\ Tail(p) \in Seq(S) /\ p = <<Head(p)>> \o Tail(p)
<1>1. Head(p) \in S /\ Tail(p) \in Seq(S) /\ Len(Tail(p)) = Len(p) - 1 /\ Len(p) \in Nat \ {0}
      /\ \A i \in 1..Len(Tail(p)) : Tail(p)[i] = p[i + 1]
  BY HeadTailProperties, EmptySeq
<1>2. <<Head(p)>> \in Seq(S) /\ Len(<<Head(p)>>) = 1 /\ <<Head(p)>>[1] = p[1]
  BY <1>1
<1>3. /\ <<Head(p)>> \o Tail(p) \in Seq(S)
      /\ Len(<<Head(p)>> \o Tail(p)) = Len(p)
      /\ \A i \in 1..Len(p) : (<<Head(p)>> \o Tail(p))[i] = IF i <= 1 THEN p[1] ELSE Tail(p)[i - 1]
  <2>1. /\ <<Head(p)>> \o Tail(p) \in Seq(S)
        /\ Len(<<Head(p)>> \o Tail(p)) = Len(<<Head(p)>>) + Len(Tail(p))
        /\ \A i \in 1..Len(<<Head(p)>>) + Len(Tail(p)) :
             (<<Head(p)>> \o Tail(p))[i] = IF i <= Len(<<Head(p)>>) THEN <<Head(p)>>[i] ELSE Tail(p)[i - Len(<<Head(p)>>)]
    BY <1>1, <1>2, ConcatProperties
  <2> QED
    BY <1>1, <1>2, <2>1
<1>4. \A i \in 1..Len(p) : (<<Head(p)>> \o Tail(p))[i] = p[i]
  <2> SUFFICES ASSUME NEW i \in 1..Len(p) PROVE (<<Head(p)>> \o Tail(p))[i] = p[i]
    OBVIOUS
  <2>1. CASE i = 1
    BY <1>3, <2>1
  <2>2. CASE i # 1
    <3>1. i - 1 \in 1..Len(Tail(p)) /\ (i - 1) + 1 = i
      BY <1>1, <2>2
    <3> QED
      BY <1>1, <1>3, <2>2, <3>1
  <2> QED
    BY <2>1, <2>2
<1>5. <<Head(p)>> \o Tail(p) = p
  BY <1>3, <1>4, SeqEqual
<1> QED
  BY <1>1, <1>5

(* What is to come of a program that begins. *)
LEMMA Begun ==
  ASSUME NEW S, NEW p \in Seq(S), p # <<>>, NEW A, NEW B
  PROVE  /\ Has(p, A) <=> Head(p) \in A \/ Has(Tail(p), A)
         /\ Leads(p, A, B) <=> Leads(Tail(p), A, B) /\ (Head(p) \in A => Has(Tail(p), B))
<1>1. Head(p) \in S /\ Tail(p) \in Seq(S) /\ p = <<Head(p)>> \o Tail(p)
  BY HeadAndTail
<1>2. <<Head(p)>> \in Seq(S)
  BY <1>1, OneOp
<1>3. /\ Has(<<Head(p)>> \o Tail(p), A) <=> Has(<<Head(p)>>, A) \/ Has(Tail(p), A)
      /\ Leads(<<Head(p)>> \o Tail(p), A, B) <=> Leads(Tail(p), A, B) /\ (Leads(<<Head(p)>>, A, B) \/ Has(Tail(p), B))
  BY <1>1, <1>2, Joined
<1>4. (Has(<<Head(p)>>, A) <=> Head(p) \in A) /\ (Leads(<<Head(p)>>, A, B) <=> Head(p) \notin A)
  BY <1>1, OneOp
<1>5. /\ Has(p, A) <=> Has(<<Head(p)>> \o Tail(p), A)
      /\ Leads(p, A, B) <=> Leads(<<Head(p)>> \o Tail(p), A, B)
  BY <1>1, Zenon
<1> QED
  BY <1>3, <1>4, <1>5

(* A queue loses its head and gains an element at its end.                  *)
LEMMA Queued ==
  ASSUME NEW S, NEW p \in Seq(S), NEW A
  PROVE  /\ p # <<>> /\ Once(p, A) => Once(Tail(p), A) /\ (Head(p) \in A => ~Has(Tail(p), A))
         /\ \A e \in S : /\ Append(p, e) \in Seq(S)
                         /\ Has(Append(p, e), A) <=> Has(p, A) \/ e \in A
                         /\ Once(p, A) /\ (e \in A => ~Has(p, A)) => Once(Append(p, e), A)
<1>1. ASSUME p # <<>>, Once(p, A)
      PROVE  Once(Tail(p), A) /\ (Head(p) \in A => ~Has(Tail(p), A))
  <2>1. /\ Len(Tail(p)) = Len(p) - 1 /\ Len(p) \in Nat \ {0} /\ Head(p) = p[1]
        /\ \A i \in 1..Len(Tail(p)) : Tail(p)[i] = p[i + 1]
    BY <1>1, HeadTailProperties, EmptySeq
  <2>2. \A i \in 1..Len(Tail(p)) : i + 1 \in 1..Len(p) /\ i + 1 # 1
    BY <2>1
  <2>3. Once(Tail(p), A)
    <3> SUFFICES ASSUME NEW i \in 1..Len(Tail(p)), NEW j \in 1..Len(Tail(p)), Tail(p)[i] \in A, Tail(p)[j] \in A
                 PROVE  i = j
      BY DEF Once
    <3>1. i + 1 = j + 1
      BY <1>1, <2>1, <2>2 DEF Once
    <3> QED
      BY <3>1
  <2>4. ASSUME Head(p) \in A, Has(Tail(p), A) PROVE FALSE
    <3>1. PICK i \in 1..Len(Tail(p)) : Tail(p)[i] \in A
      BY <2>4 DEF Has
    <3> QED
      BY <1>1, <2>1, <2>2, <2>4, <3>1 DEF Once
  <2> QED
    BY <2>3, <2>4
<1>2. ASSUME NEW e \in S
      PROVE  /\ Append(p, e) \in Seq(S)
             /\ Has(Append(p, e), A) <=> Has(p, A) \/ e \in A
             /\ Once(p, A) /\ (e \in A => ~Has(p, A)) => Once(Append(p, e), A)
  <2>1. /\ Append(p, e) \in Seq(S) /\ Len(Append(p, e)) = Len(p) + 1 /\ Len(p) \in Nat
        /\ \A i \in 1..Len(p) : Append(p, e)[i] = p[i]
        /\ Append(p, e)[Len(p) + 1] = e
    BY AppendProperties
  <2>2. 1..Len(Append(p, e)) = 1..Len(p) \union {Len(p) + 1}
    BY <2>1
  <2>3. Has(Append(p, e), A) <=> Has(p, A) \/ e \in A
    BY <2>1, <2>2 DEF Has
  <2>4. ASSUME Once(p, A), e \in A => ~Has(p, A)
        PROVE  Once(Append(p, e), A)
    BY <2>1, <2>2, <2>4 DEF Once, Has
  <2> QED
    BY <2>1, <2>3, <2>4
<1> QED
  BY <1>1, <1>2

LEMMA Consed ==
  ASSUME NEW S, NEW a \in S, NEW q \in Seq(S)
  PROVE  /\ <<a>> \o q \in Seq(S) /\ <<a>> \o q # <<>>
         /\ Head(<<a>> \o q) = a /\ Tail(<<a>> \o q) = q
<1>1. <<a>> \in Seq(S) /\ Len(<<a>>) = 1 /\ <<a>>[1] = a
  OBVIOUS
<1>2. /\ <<a>> \o q \in Seq(S) /\ Len(<<a>> \o q) = 1 + Len(q) /\ Len(q) \in Nat
      /\ \A i \in 1..(1 + Len(q)) : (<<a>> \o q)[i] = IF i <= 1 THEN <<a>>[i] ELSE q[i - 1]
  BY <1>1, ConcatProperties
<1>3. <<a>> \o q # <<>> /\ Head(<<a>> \o q) = a
  BY <1>1, <1>2
<1>4. /\ Tail(<<a>> \o q) \in Seq(S) /\ Len(Tail(<<a>> \o q)) = Len(q)
      /\ \A i \in 1..Len(q) : Tail(<<a>> \o q)[i] = (<<a>> \o q)[i + 1]
  BY <1>2, <1>3, HeadTailProperties
<1>5. \A i \in 1..Len(q) : Tail(<<a>> \o q)[i] = q[i]
  <2> SUFFICES ASSUME NEW i \in 1..Len(q) PROVE Tail(<<a>> \o q)[i] = q[i]
    OBVIOUS
  <2>1. i + 1 \in 1..(1 + Len(q)) /\ ~(i + 1 <= 1) /\ (i + 1) - 1 = i
    BY <1>2
  <2> QED
    BY <1>2, <1>4, <2>1
<1>6. Tail(<<a>> \o q) = q
  BY <1>4, <1>5, SeqEqual
<1> QED
  BY <1>2, <1>3, <1>6

LEMMA Ended ==
  ASSUME NEW S, NEW p \in Seq(S), NEW A
  PROVE  /\ ~Has(p, A) => Ends(p, A)
         /\ \A a \in S : Ends(<<a>>, A)
         /\ p # <<>> /\ Ends(p, A) => Ends(Tail(p), A) /\ (Head(p) \in A => Tail(p) = <<>>)
         /\ \A q \in Seq(S) : ~Has(q, A) /\ Ends(p, A) => Ends(q \o p, A)
<1>1. (~Has(p, A) => Ends(p, A)) /\ \A a \in S : Ends(<<a>>, A)
  BY DEF Has, Ends
<1>2. ASSUME p # <<>>, Ends(p, A)
      PROVE  Ends(Tail(p), A) /\ (Head(p) \in A => Tail(p) = <<>>)
  <2>1. /\ Tail(p) \in Seq(S) /\ Len(Tail(p)) = Len(p) - 1 /\ Len(p) \in Nat \ {0} /\ Head(p) = p[1]
        /\ \A i \in 1..Len(Tail(p)) : Tail(p)[i] = p[i + 1]
    BY <1>2, HeadTailProperties, EmptySeq
  <2>2. ASSUME NEW i \in 1..Len(Tail(p))
        PROVE  i + 1 \in 1..Len(p) /\ (i + 1 = Len(p) => i = Len(Tail(p)))
    <3>1. i + 1 \in 1..Len(p)
      BY <2>1
    <3>0. Len(Tail(p)) = Len(p) - 1 /\ Len(p) \in Nat
      BY <2>1
    <3>2. i + 1 = Len(p) => i = Len(Tail(p))
      BY <3>0
    <3> QED
      BY <3>1, <3>2
  <2>3. Ends(Tail(p), A)
    BY <1>2, <2>1, <2>2 DEF Ends
  <2>4. Head(p) \in A => Tail(p) = <<>>
    <3>0. 1 \in 1..Len(p)
      BY <2>1
    <3>1. Head(p) \in A => Len(p) = 1
      BY <1>2, <2>1, <3>0 DEF Ends
    <3>2. Len(Tail(p)) = 0 => Tail(p) = <<>>
      BY <2>1, EmptySeq
    <3> QED
      BY <2>1, <3>1, <3>2
  <2> QED
    BY <2>3, <2>4
<1>3. ASSUME NEW q \in Seq(S), ~Has(q, A), Ends(p, A)
      PROVE  Ends(q \o p, A)
  <2>1. /\ Len(q \o p) = Len(q) + Len(p) /\ Len(p) \in Nat /\ Len(q) \in Nat
        /\ \A i \in 1..(Len(q) + Len(p)) : (q \o p)[i] = IF i <= Len(q) THEN q[i] ELSE p[i - Len(q)]
    BY ConcatProperties
  <2> SUFFICES ASSUME NEW i \in 1..Len(q \o p), (q \o p)[i] \in A
               PROVE  i = Len(q \o p)
    BY DEF Ends
  <2>2. ~(i <= Len(q))
    BY <1>3, <2>1 DEF Has
  <2>3. i - Len(q) \in 1..Len(p) /\ p[i - Len(q)] \in A
    BY <2>1, <2>2
  <2>4. i - Len(q) = Len(p)
    BY <1>3, <2>3 DEF Ends
  <2> QED
    BY <2>1, <2>4
<1> QED
  BY <1>1, <1>2, <1>3

LEMMA Pair ==
  ASSUME NEW S, NEW a \in S, NEW b \in S
  PROVE  <<a>> \o <<b>> = <<a, b>>
<1>1. <<a>> \in Seq(S) /\ <<b>> \in Seq(S) /\ <<a, b>> \in Seq(S)
  OBVIOUS
<1>2. Len(<<a>>) = 1 /\ Len(<<b>>) = 1 /\ Len(<<a, b>>) = 2 /\ <<a>>[1] = a /\ <<b>>[1] = b /\ <<a, b>>[1] = a /\ <<a, b>>[2] = b
  OBVIOUS
<1>3. /\ <<a>> \o <<b>> \in Seq(S) /\ Len(<<a>> \o <<b>>) = Len(<<a>>) + Len(<<b>>)
      /\ \A i \in 1..(Len(<<a>>) + Len(<<b>>)) : (<<a>> \o <<b>>)[i] = IF i <= Len(<<a>>) THEN <<a>>[i] ELSE <<b>>[i - Len(<<a>>)]
  BY <1>1, ConcatProperties
<1>4. Len(<<a>> \o <<b>>) = 2 /\ (<<a>> \o <<b>>)[1] = a /\ (<<a>> \o <<b>>)[2] = b
  BY <1>2, <1>3
<1>5. \A i \in 1..2 : (<<a>> \o <<b>>)[i] = <<a, b>>[i]
  <2>1. \A i \in 1..2 : i = 1 \/ i = 2
    OBVIOUS
  <2> QED
    BY <2>1, <1>2, <1>4
<1> QED
  BY <1>1, <1>2, <1>3, <1>4, <1>5, SeqEqual

-----------------------------------------------------------------------------
(* What each variable may hold. *)

SyncKinds == {"softReset", "applyState", "applyReload", "runAsmOverlay", "nothing"}
Jobs == [kind : StepKinds \union SyncKinds \union {"loop"}, gen : Nat]
StepJobs == {j \in Jobs : j.kind \in StepKinds}
SyncJobs == {j \in Jobs : j.kind \in SyncKinds}

DisarmOps == [op : {"store"}, field : {"pcArmed", "scanArmed", "seenLoop"}, value : {FALSE}]
ArmOps == [op : {"store"}, field : {"pcArmed", "scanArmed"}, value : {TRUE}]
          \union [op : {"store"}, field : {"armPC"}, value : PC]
SetFrozenOps == [op : {"setFrozen"}, frozen : BOOLEAN, owner : Owners \union {"none"}]
SetArmedOps == [op : {"setArmed"}, pcArmed : {"TRUE", "FALSE", "keep"}, scanArmed : {"TRUE", "FALSE", "keep"}]
PostOps == [op : {"post"}, job : StepJobs]
SyncOps == [op : {"sync"}, job : SyncJobs]
EnteredOps == [op : {"entered"}, freezeOnStart : BOOLEAN]
PlainNames == {"start", "stop", "postLoop", "postFreeze", "applyTraceFlags", "readPc", "await", "pull",
                   "cleanReset", "readFrozen", "readArmed", "startUnlessShownFrozen", "readRunning",
                   "startIfSuspendedRunning", "stepKeycode", "stepInstruction", "buildView"}
PlainOps == [op : PlainNames]
ViewOps == [op : {"onFrozenView"}, gen : Nat]

UiOps == DisarmOps \union ArmOps \union SetFrozenOps \union SetArmedOps \union PostOps \union SyncOps
         \union EnteredOps \union PlainOps \union ViewOps

FreezeOps == {o \in SetFrozenOps : o.frozen}
UnfreezeOps == {o \in SetFrozenOps : ~o.frozen}

EventOps == [op : {"debugStateChanged"}] \union [op : {"frozenView"}, gen : Nat]
EmuNames == {"applyTraceFlags", "beginNextStep", "frozenViewReady", "debugStateChanged"}
EmuOps == DisarmOps \union FreezeOps \union EventOps
          \union [op : {"applyTraceFlags", "beginNextStep", "frozenViewReady"}]

DebugStates == [frozen : BOOLEAN, owner : Owners \union {"none"}, pcChangeArmed : BOOLEAN,
                scanLoopExitArmed : BOOLEAN, generation : Nat]
Places == {"wait", "job", "posted", "enter", "top", "batch", "pause", "fired"}

RunnerOK ==
  /\ running \in BOOLEAN /\ jobs \in Seq(Jobs) /\ thread \in Places /\ left \in Nat
  /\ thread \in {"job", "posted"} => job \in StepJobs \union SyncJobs
StateOK ==
  /\ state \in DebugStates /\ tracing \in BOOLEAN /\ events \in Seq(EventOps)
  /\ shown \in [generation : Nat, current : BOOLEAN]
TodoOK ==
  /\ DOMAIN todo = Threads /\ todo = [t \in Threads |-> todo[t]]
  /\ todo["ui"] \in Seq(UiOps) /\ todo["emu"] \in Seq(EmuOps)
ControllerOK ==
  /\ frontend \in Frontends /\ mirror \in DebugStates
  /\ suspendedRunning \in BOOLEAN /\ suspended \in BOOLEAN /\ asmFailed \in BOOLEAN /\ calls \in Nat

(* sync() waits for the one job it posted. *)
Awaiting == Next1("ui", "await")
Executing == thread \in {"job", "posted"}
SyncOK ==
  /\ Executing /\ job \in SyncJobs => Awaiting /\ ~Has(jobs, SyncJobs)
  /\ Has(jobs, SyncJobs) => Awaiting
  /\ Once(jobs, SyncJobs)

TypeOK == FreezeTypeOK /\ RunnerOK /\ StateOK /\ TodoOK /\ ControllerOK /\ SyncOK

-----------------------------------------------------------------------------
Changes == SetFrozenOps \union SetArmedOps
Flags == {Op("applyTraceFlags")}
FlagsDue ==
  /\ Leads(todo["ui"], Changes, Flags) /\ Leads(todo["emu"], Changes, Flags)
  /\ tracing = TraceWanted(state) \/ Has(todo["ui"], Flags) \/ Has(todo["emu"], Flags)

Pulls == {Op("pull")}
WillChange == Changes \union EnteredOps \union {Op("readPc")}
Raises == {Op("debugStateChanged")}
MirrorDue ==
  /\ Leads(todo["ui"], WillChange, Pulls) /\ Leads(todo["emu"], Changes, Raises)
  /\ mirror = state \/ Has(todo["ui"], Pulls) \/ Has(todo["emu"], Raises) \/ events # <<>>

(* A machine shown frozen that is not: the pull is to come. *)
ThawShown == mirror.frozen /\ ~state.frozen => Has(todo["ui"], Pulls)

Starts == {Op("start")} \union EnteredOps
Stops == {Op("stop")}
Revivers == Starts \union FreezeOps \union {Op("startUnlessShownFrozen")}
LastOps == {Op("readFrozen"), Op("readArmed"), Op("startUnlessShownFrozen"), Op("startIfSuspendedRunning")}
Suspending == todo["ui"] = <<Op("readRunning"), Op("stop")>>

StopsAreRevived ==
  /\ Leads(todo["ui"], UnfreezeOps, Starts)
  /\ \/ Leads(todo["ui"], Stops, Revivers)
     \/ (state.frozen \/ suspended \/ Suspending) /\ ~Has(todo["ui"], UnfreezeOps)
  /\ Has(todo["ui"], {Op("readRunning")}) => Suspending
  /\ Ends(todo["ui"], LastOps)
  /\ suspended => todo["ui"] \in {<<>>, <<Op("stop")>>, <<Op("startIfSuspendedRunning")>>}
  /\ Has(todo["ui"], {Op("startIfSuspendedRunning")}) => suspended
Revived ==
  /\ ~running => \/ state.frozen \/ suspended \/ asmFailed
                 \/ Has(todo["emu"], FreezeOps) \/ Has(todo["ui"], Revivers)
  /\ suspended /\ ~suspendedRunning => state.frozen \/ asmFailed \/ Has(todo["emu"], FreezeOps)

LEMMA UiHead ==
  ASSUME NEW h \in UiOps
  PROVE  /\ h.op = "store" => h \in DisarmOps \union ArmOps
         /\ h.op = "setFrozen" => h \in SetFrozenOps
         /\ h.op = "setArmed" => h \in SetArmedOps
         /\ h.op = "post" => h \in PostOps
         /\ h.op = "sync" => h \in SyncOps
         /\ h.op = "entered" => h \in EnteredOps
         /\ h.op = "onFrozenView" => h \in ViewOps
         /\ h.op \in PlainNames => h = Op(h.op)
         /\ h.op \in PlainNames \union {"store", "setFrozen", "setArmed", "post", "sync", "entered", "onFrozenView"}
<1>1. CASE h \in DisarmOps
  BY <1>1 DEF DisarmOps, PlainNames
<1>2. CASE h \in ArmOps
  BY <1>2 DEF ArmOps, PlainNames
<1>3. CASE h \in SetFrozenOps
  BY <1>3 DEF SetFrozenOps, PlainNames
<1>4. CASE h \in SetArmedOps
  BY <1>4 DEF SetArmedOps, PlainNames
<1>5. CASE h \in PostOps
  BY <1>5 DEF PostOps, PlainNames
<1>6. CASE h \in SyncOps
  BY <1>6 DEF SyncOps, PlainNames
<1>7. CASE h \in EnteredOps
  BY <1>7 DEF EnteredOps, PlainNames
<1>8. CASE h \in PlainOps
  BY <1>8 DEF PlainOps, PlainNames, Op
<1>9. CASE h \in ViewOps
  BY <1>9 DEF ViewOps, PlainNames
<1> QED
  BY <1>1, <1>2, <1>3, <1>4, <1>5, <1>6, <1>7, <1>8, <1>9 DEF UiOps

LEMMA EmuHead ==
  ASSUME NEW h \in EmuOps
  PROVE  /\ h.op = "store" => h \in DisarmOps
         /\ h.op = "setFrozen" => h \in FreezeOps
         /\ h.op \in EmuNames => h = Op(h.op)
         /\ h.op = "frozenView" => h \in EventOps
         /\ h.op \in EmuNames \union {"store", "setFrozen", "frozenView"}
<1>1. CASE h \in DisarmOps
  BY <1>1 DEF DisarmOps, EmuNames
<1>2. CASE h \in FreezeOps
  BY <1>2 DEF FreezeOps, SetFrozenOps, EmuNames
<1>3. CASE h \in EventOps
  BY <1>3 DEF EventOps, EmuNames, Op
<1>4. CASE h \in [op : {"applyTraceFlags", "beginNextStep", "frozenViewReady"}]
  BY <1>4 DEF EmuNames, Op
<1> QED
  BY <1>1, <1>2, <1>3, <1>4 DEF EmuOps

-----------------------------------------------------------------------------
(* Every program is made of the micro-operations above.                     *)

(* The micro-operations that occur in programs. *)
LEMMA UiAtoms ==
  /\ \A n \in PlainNames : Op(n) \in UiOps
  /\ \A f \in {"pcArmed", "scanArmed", "seenLoop"} : Store(f, FALSE) \in UiOps /\ Store(f, FALSE) \in EmuOps
  /\ \A f \in {"pcArmed", "scanArmed"} : Store(f, TRUE) \in UiOps
  /\ \A p \in PC : Store("armPC", p) \in UiOps
  /\ \A f \in BOOLEAN, o \in Owners \union {"none"} : SetFrozen(f, o) \in UiOps
  /\ \A v, w \in {"TRUE", "FALSE", "keep"} : SetArmed(v, w) \in UiOps
  /\ \A k \in StepKinds, g \in Nat : PostStep(k, g) \in UiOps
  /\ \A k \in SyncKinds : SyncOn(k) \in UiOps
  /\ \A f \in BOOLEAN : [op |-> "entered", freezeOnStart |-> f] \in UiOps
  /\ \A g \in Nat : [op |-> "onFrozenView", gen |-> g] \in UiOps
<1>1. \A n \in PlainNames : Op(n) \in UiOps
  BY DEF UiOps, PlainOps, Op
<1>2. \A f \in {"pcArmed", "scanArmed", "seenLoop"} : Store(f, FALSE) \in UiOps /\ Store(f, FALSE) \in EmuOps
  BY DEF UiOps, EmuOps, DisarmOps, Store
<1>3. \A f \in {"pcArmed", "scanArmed"} : Store(f, TRUE) \in UiOps
  BY DEF UiOps, ArmOps, Store
<1>4. \A p \in PC : Store("armPC", p) \in UiOps
  BY DEF UiOps, ArmOps, Store
<1>5. \A f \in BOOLEAN, o \in Owners \union {"none"} : SetFrozen(f, o) \in UiOps
  BY DEF UiOps, SetFrozenOps, SetFrozen
<1>6. \A v, w \in {"TRUE", "FALSE", "keep"} : SetArmed(v, w) \in UiOps
  BY DEF UiOps, SetArmedOps, SetArmed
<1>7. \A k \in StepKinds, g \in Nat : PostStep(k, g) \in UiOps
  BY DEF UiOps, PostOps, PostStep, Job, StepJobs, Jobs
<1>8. \A k \in SyncKinds : SyncOn(k) \in UiOps
  BY DEF UiOps, SyncOps, SyncOn, Job, SyncJobs, Jobs
<1>9. \A f \in BOOLEAN : [op |-> "entered", freezeOnStart |-> f] \in UiOps
  BY DEF UiOps, EnteredOps
<1>10. \A g \in Nat : [op |-> "onFrozenView", gen |-> g] \in UiOps
  BY DEF UiOps, ViewOps
<1> QED
  BY <1>1, <1>2, <1>3, <1>4, <1>5, <1>6, <1>7, <1>8, <1>9, <1>10

LEMMA Tuples ==
  ASSUME NEW S, NEW a \in S, NEW b \in S, NEW c \in S, NEW d \in S
  PROVE  <<a>> \in Seq(S) /\ <<a, b>> \in Seq(S) /\ <<a, b, c>> \in Seq(S) /\ <<a, b, c, d>> \in Seq(S)
  OBVIOUS

LEMMA ConcatTyped ==
  ASSUME NEW S, NEW p \in Seq(S), NEW q \in Seq(S)
  PROVE  p \o q \in Seq(S)
  BY ConcatProperties

(* The parts of programs. *)
LEMMA PartsTyped ==
  /\ <<>> \in Seq(UiOps)
  /\ \A n \in PlainNames : <<Op(n)>> \in Seq(UiOps)
  /\ DisarmBoth \in Seq(UiOps) /\ ArmPcChange \in Seq(UiOps) /\ DisarmPcChange \in Seq(UiOps)
  /\ DisarmScanLoopExit \in Seq(UiOps)
  /\ \A p \in PC : ArmScanLoopExit(p) \in Seq(UiOps)
  /\ \A f \in BOOLEAN, o \in Owners \union {"none"} : <<SetFrozen(f, o)>> \in Seq(UiOps)
  /\ \A v, w \in {"TRUE", "FALSE", "keep"} : <<SetArmed(v, w)>> \in Seq(UiOps)
  /\ \A k \in StepKinds, g \in Nat : <<PostStep(k, g)>> \in Seq(UiOps)
  /\ \A k \in SyncKinds : <<SyncOn(k)>> \in Seq(UiOps)
  /\ \A f \in BOOLEAN : <<[op |-> "entered", freezeOnStart |-> f]>> \in Seq(UiOps)
  /\ \A g \in Nat : <<[op |-> "onFrozenView", gen |-> g]>> \in Seq(UiOps)
<1>1. \A a, b, c, d \in UiOps : /\ <<a>> \in Seq(UiOps) /\ <<a, b>> \in Seq(UiOps)
                                /\ <<a, b, c>> \in Seq(UiOps) /\ <<a, b, c, d>> \in Seq(UiOps)
  BY Tuples
<1>2. DisarmBoth \in Seq(UiOps) /\ DisarmPcChange \in Seq(UiOps) /\ DisarmScanLoopExit \in Seq(UiOps)
  BY <1>1, UiAtoms DEF DisarmBoth, DisarmPcChange, DisarmScanLoopExit
<1>3. ArmPcChange \in Seq(UiOps)
  BY <1>1, UiAtoms DEF ArmPcChange
<1>4. ASSUME NEW p \in PC PROVE ArmScanLoopExit(p) \in Seq(UiOps)
  BY <1>1, UiAtoms DEF ArmScanLoopExit
<1>5. <<>> \in Seq(UiOps)
  BY EmptySeq
<1> QED
  BY <1>1, <1>2, <1>3, <1>4, <1>5, UiAtoms

LEMMA SetFrozenTyped ==
  ASSUME NEW f \in BOOLEAN, NEW o \in Owners \union {"none"}
  PROVE  SetFrozenState(f, o) \in Seq(UiOps)
<1>1. (IF f THEN DisarmBoth ELSE <<>>) \in Seq(UiOps) /\ <<SetFrozen(f, o)>> \in Seq(UiOps)
  BY PartsTyped
<1>2. ApplyTraceFlags \in Seq(UiOps)
  BY PartsTyped DEF ApplyTraceFlags, PlainNames
<1> QED
  BY <1>1, <1>2, ConcatTyped DEF SetFrozenState

LEMMA PlainParts ==
  /\ Start \in Seq(UiOps) /\ Stop \in Seq(UiOps) /\ Pull \in Seq(UiOps) /\ ApplyTraceFlags \in Seq(UiOps)
  /\ ArmScanLoop \in Seq(UiOps)
  BY PartsTyped DEF Start, Stop, Pull, ApplyTraceFlags, ArmScanLoop, PlainNames

LEMMA OperationsTyped ==
  /\ \A o \in Owners : Freeze(o) \in Seq(UiOps) /\ FreezeInPlace(o) \in Seq(UiOps)
  /\ Resume \in Seq(UiOps) /\ ClearFreeze \in Seq(UiOps)
  /\ ArmPc \in Seq(UiOps) /\ DisarmPc \in Seq(UiOps) /\ DisarmScanLoop \in Seq(UiOps)
  /\ SoftResetStopped \in Seq(UiOps)
  /\ \A f \in BOOLEAN : RunAsm(f) \in Seq(UiOps)
<1>1. ASSUME NEW o \in Owners
      PROVE  Freeze(o) \in Seq(UiOps) /\ FreezeInPlace(o) \in Seq(UiOps)
  <2>1. SetFrozenState(TRUE, o) \in Seq(UiOps)
    BY SetFrozenTyped
  <2>2. <<Op("postFreeze")>> \in Seq(UiOps)
    BY PartsTyped DEF PlainNames
  <2> QED
    BY <2>1, <2>2, PlainParts, ConcatTyped DEF Freeze, FreezeInPlace
<1>2. Resume \in Seq(UiOps) /\ ClearFreeze \in Seq(UiOps)
  <2>1. SetFrozenState(FALSE, "none") \in Seq(UiOps)
    BY SetFrozenTyped
  <2> QED
    BY <2>1, PlainParts, ConcatTyped DEF Resume, ClearFreeze
<1>3. ArmPc \in Seq(UiOps) /\ DisarmPc \in Seq(UiOps) /\ DisarmScanLoop \in Seq(UiOps)
  <2>1. /\ <<SetArmed("TRUE", "FALSE")>> \in Seq(UiOps) /\ <<SetArmed("FALSE", "keep")>> \in Seq(UiOps)
        /\ <<SetArmed("keep", "FALSE")>> \in Seq(UiOps)
    BY PartsTyped
  <2> QED
    BY <2>1, PartsTyped, PlainParts, ConcatTyped DEF ArmPc, DisarmPc, DisarmScanLoop
<1>4. SoftResetStopped \in Seq(UiOps)
  <2>1. <<SyncOn("softReset")>> \in Seq(UiOps)
    BY PartsTyped DEF SyncKinds
  <2> QED
    BY <2>1, PlainParts, ConcatTyped DEF SoftResetStopped
<1>5. ASSUME NEW f \in BOOLEAN
      PROVE  RunAsm(f) \in Seq(UiOps)
  <2>1. <<SyncOn("runAsmOverlay")>> \in Seq(UiOps) /\ <<[op |-> "entered", freezeOnStart |-> f]>> \in Seq(UiOps)
    BY PartsTyped DEF SyncKinds
  <2> QED
    BY <1>2, <1>3, <2>1, PlainParts, ConcatTyped DEF RunAsm
<1> QED
  BY <1>1, <1>2, <1>3, <1>4, <1>5

LEMMA ProgramTyped ==
  ASSUME NEW c \in Operations
  PROVE  Program(c) \in Seq(UiOps)
<1>1. CASE c = "freeze"
  BY <1>1, OperationsTyped, PlainParts, ConcatTyped DEF Program, Owners
<1>2. CASE c = "resume"
  BY <1>2, OperationsTyped, PlainParts, ConcatTyped DEF Program
<1>3. CASE c = "armPcChange"
  BY <1>3, OperationsTyped, PlainParts, ConcatTyped DEF Program
<1>4. CASE c = "armScanLoopExit"
  BY <1>4, PlainParts, ConcatTyped DEF Program
<1>5. CASE c = "disarm"
  BY <1>5, OperationsTyped, PlainParts, ConcatTyped DEF Program
<1>6. CASE c \in {"stepKeycode", "stepInstruction"}
  BY <1>6, PartsTyped DEF Program, PlainNames
<1>7. CASE c = "resetMachine"
  BY <1>7, OperationsTyped, PlainParts, ConcatTyped DEF Program
<1>8. CASE c = "cleanReset"
  <2>1. <<Op("cleanReset")>> \in Seq(UiOps)
    BY PartsTyped DEF PlainNames
  <2> QED
    BY <1>8, <2>1, OperationsTyped, PlainParts, ConcatTyped DEF Program
<1>9. CASE c = "applyState"
  <2>1. <<SyncOn("applyState")>> \in Seq(UiOps)
    BY PartsTyped DEF SyncKinds
  <2> QED
    BY <1>9, <2>1, OperationsTyped, PlainParts, ConcatTyped DEF Program
<1>10. CASE c \in {"applyReload", "runAsm", "resumeAfterSuspend"}
  BY <1>10, PartsTyped DEF Program, PlainNames
<1>11. CASE c = "failedSwitch"
  <2>1. <<SyncOn("nothing")>> \in Seq(UiOps) /\ <<Op("startUnlessShownFrozen")>> \in Seq(UiOps)
    BY PartsTyped DEF PlainNames, SyncKinds
  <2> QED
    BY <1>11, <2>1, PlainParts, ConcatTyped DEF Program
<1>12. CASE c = "suspend"
  <2>1. <<Op("readRunning")>> \in Seq(UiOps)
    BY PartsTyped DEF PlainNames
  <2> QED
    BY <1>12, <2>1, PlainParts, ConcatTyped DEF Program
<1> QED
  BY <1>1, <1>2, <1>3, <1>4, <1>5, <1>6, <1>7, <1>8, <1>9, <1>10, <1>11, <1>12 DEF Operations, DebuggerCalls

(* What the emulation thread does when a freeze fires. *)
LEMMA FiredParts ==
  ASSUME NEW o \in Owners
  PROVE  /\ DisarmBoth \in Seq(EmuOps) /\ <<SetFrozen(TRUE, o)>> \in Seq(EmuOps) /\ ApplyTraceFlags \in Seq(EmuOps)
         /\ (IF o = "Calculator" THEN <<Op("beginNextStep")>> ELSE <<>>) \in Seq(EmuOps)
         /\ <<Op("debugStateChanged"), Op("frozenViewReady")>> \in Seq(EmuOps)
<1>1. DisarmBoth \in Seq(EmuOps)
  BY UiAtoms, Tuples DEF DisarmBoth
<1>2. SetFrozen(TRUE, o) \in EmuOps /\ Op("applyTraceFlags") \in EmuOps /\ Op("beginNextStep") \in EmuOps
      /\ Op("debugStateChanged") \in EmuOps /\ Op("frozenViewReady") \in EmuOps
  BY DEF EmuOps, FreezeOps, SetFrozenOps, SetFrozen, EventOps, Op
<1>3. /\ <<SetFrozen(TRUE, o)>> \in Seq(EmuOps) /\ ApplyTraceFlags \in Seq(EmuOps)
      /\ <<Op("beginNextStep")>> \in Seq(EmuOps) /\ <<Op("debugStateChanged"), Op("frozenViewReady")>> \in Seq(EmuOps)
  BY <1>2, Tuples DEF ApplyTraceFlags
<1> QED
  BY <1>1, <1>3, EmptySeq

LEMMA FiredTyped ==
  ASSUME NEW o \in Owners
  PROVE  OnFreezeFired(o) \in Seq(EmuOps)
<1>1. SetFrozenState(TRUE, o) \in Seq(EmuOps)
  BY FiredParts, ConcatTyped DEF SetFrozenState
<1> QED
  BY <1>1, FiredParts, ConcatTyped DEF OnFreezeFired

-----------------------------------------------------------------------------
(* One step of one program.                                                 *)

(* setFrozenState stamps what follows it with the new generation. *)
Stamp(o, g) == IF o.op = "postFreeze" THEN PostStep("freeze", g)
               ELSE IF o.op = "frozenViewReady" THEN [op |-> "frozenView", gen |-> g]
               ELSE o
Stamped(p, g) == [i \in 1..(Len(p) - 1) |-> Stamp(p[i + 1], g)]

(* The stamp leaves A alone. *)
Unstamped(S, A, g) == \A o \in S : Stamp(o, g) \in A <=> o \in A

LEMMA StampedSeq ==
  ASSUME NEW S, NEW p \in Seq(S), p # <<>>, NEW g, \A o \in S : Stamp(o, g) \in S
  PROVE  Stamped(p, g) \in Seq(S)
<1>1. Len(p) - 1 \in Nat /\ \A i \in 1..(Len(p) - 1) : p[i + 1] \in S
  BY EmptySeq, ElementOfSeq
<1>2. Stamped(p, g) \in [1..(Len(p) - 1) -> S]
  BY <1>1 DEF Stamped
<1> QED
  BY <1>1, <1>2, SeqDef

LEMMA StampedLen ==
  ASSUME NEW S, NEW p \in Seq(S), p # <<>>, NEW g, \A o \in S : Stamp(o, g) \in S
  PROVE  /\ Len(Stamped(p, g)) = Len(Tail(p))
         /\ \A i \in 1..Len(Tail(p)) : Stamped(p, g)[i] = Stamp(Tail(p)[i], g) /\ Tail(p)[i] \in S
<1>1. Tail(p) \in Seq(S) /\ Len(Tail(p)) = Len(p) - 1 /\ Len(p) \in Nat \ {0}
      /\ \A i \in 1..Len(Tail(p)) : Tail(p)[i] = p[i + 1] /\ Tail(p)[i] \in S
  BY HeadTailProperties, EmptySeq
<1>2. /\ DOMAIN Stamped(p, g) = 1..Len(Tail(p))
      /\ \A i \in 1..Len(Tail(p)) : Stamped(p, g)[i] = Stamp(Tail(p)[i], g)
  BY <1>1 DEF Stamped
<1>3. DOMAIN Stamped(p, g) = 1..Len(Stamped(p, g)) /\ Len(Stamped(p, g)) \in Nat
  BY StampedSeq, LenProperties
<1>4. 1..Len(Stamped(p, g)) = 1..Len(Tail(p))
  BY <1>2, <1>3, Zenon
<1>5. Len(Stamped(p, g)) = Len(Tail(p))
  <2>1. Len(Tail(p)) \in Nat /\ Len(Stamped(p, g)) \in Nat
    BY <1>1, <1>3
  <2> QED
    BY <1>4, <2>1
<1> QED
  BY <1>1, <1>2, <1>5

LEMMA StampedTail ==
  ASSUME NEW S, NEW p \in Seq(S), p # <<>>, NEW g, \A o \in S : Stamp(o, g) \in S,
         NEW A, Unstamped(S, A, g), NEW B, Unstamped(S, B, g)
  PROVE  /\ Has(Stamped(p, g), A) <=> Has(Tail(p), A)
         /\ Has(Stamped(p, g), B) <=> Has(Tail(p), B)
         /\ Leads(Stamped(p, g), A, B) <=> Leads(Tail(p), A, B)
<1>1. Len(Tail(p)) \in Nat
  BY HeadTailProperties
<1>2. /\ Len(Stamped(p, g)) = Len(Tail(p))
      /\ \A i \in 1..Len(Tail(p)) : Stamped(p, g)[i] = Stamp(Tail(p)[i], g) /\ Tail(p)[i] \in S
  BY StampedLen
<1>6. Has(Stamped(p, g), A) <=> Has(Tail(p), A)
  <2>1. \A i \in 1..Len(Tail(p)) : Stamped(p, g)[i] \in A <=> Tail(p)[i] \in A
    BY <1>2 DEF Unstamped
  <2> QED
    BY <2>1, <1>2 DEF Has
<1>8. Has(Stamped(p, g), B) <=> Has(Tail(p), B)
  <2>1. \A i \in 1..Len(Tail(p)) : Stamped(p, g)[i] \in B <=> Tail(p)[i] \in B
    BY <1>2 DEF Unstamped
  <2> QED
    BY <2>1, <1>2 DEF Has
<1>7. Leads(Stamped(p, g), A, B) <=> Leads(Tail(p), A, B)
  <2>1. \A i \in 1..Len(Tail(p)) : /\ Stamped(p, g)[i] \in A <=> Tail(p)[i] \in A
                                   /\ Stamped(p, g)[i] \in B <=> Tail(p)[i] \in B
    BY <1>2 DEF Unstamped
  <2>2. \A i \in 1..Len(Tail(p)) : \A j \in (i + 1)..Len(Tail(p)) : j \in 1..Len(Tail(p))
    BY <1>1
  <2> QED
    BY <2>1, <2>2, <1>2 DEF Leads
<1> QED
  BY <1>6, <1>7, <1>8

(* A thread makes the first step of its program. *)
LEMMA UiReplaced ==
  ASSUME TodoOK, todo["ui"] # <<>>, NEW q \in Seq(UiOps), Replace("ui", q)
  PROVE  TodoOK' /\ todo'["ui"] = q \o Tail(todo["ui"]) /\ todo'["emu"] = todo["emu"]
<1>1. todo'["ui"] = q \o Tail(todo["ui"]) /\ todo'["emu"] = todo["emu"] /\ DOMAIN todo' = Threads
      /\ todo' = [t \in Threads |-> todo'[t]]
  BY DEF TodoOK, Replace, Threads
<1>2. q \o Tail(todo["ui"]) \in Seq(UiOps)
  BY HeadAndTail, ConcatTyped DEF TodoOK
<1> QED
  BY <1>1, <1>2 DEF TodoOK

LEMMA UiDone ==
  ASSUME TodoOK, todo["ui"] # <<>>, Done("ui")
  PROVE  TodoOK' /\ todo'["ui"] = Tail(todo["ui"]) /\ todo'["emu"] = todo["emu"]
<1>1. todo'["ui"] = Tail(todo["ui"]) /\ todo'["emu"] = todo["emu"] /\ DOMAIN todo' = Threads
      /\ todo' = [t \in Threads |-> todo'[t]]
  BY DEF TodoOK, Done, Threads
<1>2. Tail(todo["ui"]) \in Seq(UiOps)
  BY HeadAndTail DEF TodoOK
<1> QED
  BY <1>1, <1>2 DEF TodoOK

LEMMA EmuDone ==
  ASSUME TodoOK, todo["emu"] # <<>>, Done("emu")
  PROVE  TodoOK' /\ todo'["emu"] = Tail(todo["emu"]) /\ todo'["ui"] = todo["ui"]
<1>1. todo'["emu"] = Tail(todo["emu"]) /\ todo'["ui"] = todo["ui"] /\ DOMAIN todo' = Threads
      /\ todo' = [t \in Threads |-> todo'[t]]
  BY DEF TodoOK, Done, Threads
<1>2. Tail(todo["emu"]) \in Seq(EmuOps)
  BY HeadAndTail DEF TodoOK
<1> QED
  BY <1>1, <1>2 DEF TodoOK

LEMMA UiBegins ==
  ASSUME TodoOK, NEW q \in Seq(UiOps), todo' = [todo EXCEPT !["ui"] = q]
  PROVE  TodoOK' /\ todo'["ui"] = q /\ todo'["emu"] = todo["emu"]
  BY DEF TodoOK, Threads

LEMMA EmuBegins ==
  ASSUME TodoOK, NEW q \in Seq(EmuOps), todo' = [todo EXCEPT !["emu"] = q]
  PROVE  TodoOK' /\ todo'["emu"] = q /\ todo'["ui"] = todo["ui"]
  BY DEF TodoOK, Threads

LEMMA StampTyped ==
  ASSUME NEW g \in Nat
  PROVE  (\A o \in UiOps : Stamp(o, g) \in UiOps) /\ (\A o \in EmuOps : Stamp(o, g) \in EmuOps)
<1>1. PostStep("freeze", g) \in UiOps
  BY UiAtoms DEF StepKinds
<1>2. [op |-> "frozenView", gen |-> g] \in EmuOps
  BY DEF EmuOps, EventOps
<1>3. \A o \in UiOps : o.op # "frozenViewReady"
  BY UiHead DEF PlainNames
<1>4. \A o \in EmuOps : o.op # "postFreeze"
  BY EmuHead DEF EmuNames
<1> QED
  BY <1>1, <1>2, <1>3, <1>4 DEF Stamp

LEMMA Locked ==
  ASSUME TodoOK, StateOK, NEW t \in Threads, SetFrozenLocked(t)
  PROVE  /\ TodoOK' /\ todo'[t] = Stamped(todo[t], state.generation + 1)
         /\ \A u \in Threads \ {t} : todo'[u] = todo[u]
         /\ todo[t] # <<>> /\ Head(todo[t]) \in SetFrozenOps /\ (t = "emu" => Head(todo[t]) \in FreezeOps)
         /\ state'.frozen = Head(todo[t]).frozen
         /\ state'.generation = state.generation + 1 /\ state.generation \in Nat
         /\ state'.pcChangeArmed = (state.pcChangeArmed /\ ~Head(todo[t]).frozen)
         /\ state'.scanLoopExitArmed = (state.scanLoopExitArmed /\ ~Head(todo[t]).frozen)
         /\ state' \in DebugStates
<1>1. state.generation \in Nat /\ state.generation + 1 \in Nat /\ state.pcChangeArmed \in BOOLEAN /\ state.scanLoopExitArmed \in BOOLEAN
  BY DEF StateOK, DebugStates
<1>2. todo[t] # <<>> /\ Head(todo[t]).op = "setFrozen"
  BY DEF SetFrozenLocked, Next1
<1>3. Head(todo[t]) \in SetFrozenOps /\ (t = "emu" => Head(todo[t]) \in FreezeOps)
  <2>1. CASE t = "ui"
    <3>1. Head(todo["ui"]) \in UiOps
      BY <1>2, <2>1, HeadAndTail DEF TodoOK
    <3> QED
      BY <1>2, <2>1, <3>1, UiHead
  <2>2. CASE t = "emu"
    <3>1. Head(todo["emu"]) \in EmuOps
      BY <1>2, <2>2, HeadAndTail DEF TodoOK
    <3> QED
      BY <1>2, <2>2, <3>1, EmuHead DEF FreezeOps
  <2> QED
    BY <2>1, <2>2 DEF Threads
<1>4. /\ todo'[t] = Stamped(todo[t], state.generation + 1)
      /\ \A u \in Threads \ {t} : todo'[u] = todo[u]
      /\ DOMAIN todo' = Threads /\ todo' = [u \in Threads |-> todo'[u]]
  <2>1. todo' = [todo EXCEPT ![t] = Stamped(todo[t], state.generation + 1)]
    BY DEF SetFrozenLocked, Stamped, Stamp
  <2> QED
    BY <2>1 DEF TodoOK
<1>5. CASE t = "ui"
  <2>1. Stamped(todo["ui"], state.generation + 1) \in Seq(UiOps)
    <3>1. \A o \in UiOps : Stamp(o, state.generation + 1) \in UiOps
      BY <1>1, StampTyped
    <3> QED
      BY <1>2, <1>5, <3>1, StampedSeq DEF TodoOK
  <2>2. TodoOK'
    BY <1>4, <1>5, <2>1 DEF TodoOK, Threads
  <2> QED
    BY <1>1, <1>2, <1>3, <1>4, <2>2 DEF SetFrozenLocked, Debug, SetFrozenOps, DebugStates
<1>6. CASE t = "emu"
  <2>1. Stamped(todo["emu"], state.generation + 1) \in Seq(EmuOps)
    <3>1. \A o \in EmuOps : Stamp(o, state.generation + 1) \in EmuOps
      BY <1>1, StampTyped
    <3> QED
      BY <1>2, <1>6, <3>1, StampedSeq DEF TodoOK
  <2>2. TodoOK'
    BY <1>4, <1>6, <2>1 DEF TodoOK, Threads
  <2> QED
    BY <1>1, <1>2, <1>3, <1>4, <2>2 DEF SetFrozenLocked, Debug, SetFrozenOps, DebugStates
<1> QED
  BY <1>5, <1>6 DEF Threads

-----------------------------------------------------------------------------
(* The steps keep the types.                                                *)

LEMMA InitTyped == Init => TypeOK
<1> SUFFICES ASSUME Init PROVE TypeOK
  OBVIOUS
<1>1. FreezeTypeOK
  BY PcAssumption DEF PcAssumption, Init, FreezeInit, FreezeTypeOK, CheckStates
<1>2. RunnerOK /\ SyncOK
  <2>1. jobs = <<>> /\ thread = "wait" /\ running = FALSE /\ left = 0
    BY DEF Init
  <2>2. jobs \in Seq(Jobs) /\ ~Has(jobs, SyncJobs) /\ Once(jobs, SyncJobs)
    BY <2>1, EmptySeq DEF Has, Once
  <2> QED
    BY <2>1, <2>2 DEF RunnerOK, SyncOK, Places, Executing
<1>3. StateOK
  BY EmptySeq DEF Init, StateOK, DebugStates, Debug
<1>4. TodoOK
  <2>1. todo["ui"] = Start /\ todo["emu"] = <<>> /\ DOMAIN todo = Threads /\ todo = [t \in Threads |-> todo[t]]
    BY DEF Init, Threads
  <2> QED
    BY <2>1, PlainParts, EmptySeq DEF TodoOK
<1>5. ControllerOK
  BY <1>3 DEF Init, ControllerOK, StateOK
<1> QED
  BY <1>1, <1>2, <1>3, <1>4, <1>5 DEF TypeOK

(* While nobody waits for it no sync job is queued or executed. *)
LEMMA NobodyWaits ==
  ASSUME RunnerOK, SyncOK, ~Awaiting, UNCHANGED <<thread, job>>,
         \/ jobs' = jobs
         \/ \E j \in Jobs : jobs' = Append(jobs, j) /\ (j \in SyncJobs => Awaiting')
  PROVE  SyncOK'
<1>1. ~Has(jobs, SyncJobs) /\ ~(Executing /\ job \in SyncJobs)
  BY DEF SyncOK
<1>2. Executing' = Executing
  BY DEF Executing
<1>3. CASE jobs' = jobs
  BY <1>1, <1>2, <1>3 DEF SyncOK
<1>4. ASSUME NEW j \in Jobs, jobs' = Append(jobs, j), j \in SyncJobs => Awaiting'
      PROVE  SyncOK'
  <2>1. (Has(jobs', SyncJobs) <=> Has(jobs, SyncJobs) \/ j \in SyncJobs) /\ Once(jobs', SyncJobs)
    BY <1>1, <1>4, Queued DEF RunnerOK, SyncOK
  <2> QED
    BY <1>1, <1>2, <1>4, <2>1 DEF SyncOK
<1> QED
  BY <1>3, <1>4

LEMMA StoredTyped ==
  ASSUME FreezeTypeOK, NEW s \in DisarmOps \union ArmOps, DoStore(s)
  PROVE  flag' \in [pcArmed : BOOLEAN, scanArmed : BOOLEAN, seenLoop : BOOLEAN, armPC : PC \union {NoPC}]
<1>1. CASE s.field = "armPC"
  BY <1>1 DEF DisarmOps, ArmOps, DoStore, FreezeTypeOK
<1>2. CASE s.field = "pcArmed"
  BY <1>2 DEF DisarmOps, ArmOps, DoStore, FreezeTypeOK
<1>3. CASE s.field = "scanArmed"
  BY <1>3 DEF DisarmOps, ArmOps, DoStore, FreezeTypeOK
<1>4. CASE s.field = "seenLoop"
  BY <1>4 DEF DisarmOps, ArmOps, DoStore, FreezeTypeOK
<1> QED
  BY <1>1, <1>2, <1>3, <1>4 DEF DisarmOps, ArmOps

(* What is next for a thread. *)
LEMMA UiNext ==
  ASSUME TodoOK, NEW n, Next1("ui", n)
  PROVE  todo["ui"] # <<>> /\ todo["ui"] \in Seq(UiOps) /\ Head(todo["ui"]) \in UiOps /\ Head(todo["ui"]).op = n
  BY HeadAndTail DEF TodoOK, Next1

LEMMA EmuNext ==
  ASSUME TodoOK, NEW n, Next1("emu", n)
  PROVE  todo["emu"] # <<>> /\ todo["emu"] \in Seq(EmuOps) /\ Head(todo["emu"]) \in EmuOps /\ Head(todo["emu"]).op = n
  BY HeadAndTail DEF TodoOK, Next1

SessionTyped == FreezeTypeOK /\ RunnerOK /\ StateOK /\ TodoOK /\ SyncOK

LEMMA UiMicroTyped == SessionTyped /\ MicroOp("ui") => SessionTyped'
<1> SUFFICES ASSUME SessionTyped, MicroOp("ui") PROVE SessionTyped'
  OBVIOUS
<1> USE DEF SessionTyped
<1>0. ASSUME NEW n, n # "await", Next1("ui", n) PROVE ~Awaiting
  BY <1>0 DEF Awaiting, Next1
<1>1. CASE StoreFlag("ui")
  <2>1. Head(todo["ui"]) \in DisarmOps \union ArmOps
    BY <1>1, UiNext, UiHead DEF StoreFlag
  <2>2. flag' \in [pcArmed : BOOLEAN, scanArmed : BOOLEAN, seenLoop : BOOLEAN, armPC : PC \union {NoPC}]
    BY <1>1, <2>1, StoredTyped DEF StoreFlag
  <2>3. FreezeTypeOK'
    BY <1>1, <2>2 DEF StoreFlag, FreezeTypeOK
  <2>4. TodoOK'
    BY <1>1, UiDone DEF StoreFlag, Next1
  <2>5. SyncOK'
    BY <1>0, <1>1, NobodyWaits DEF StoreFlag, emuVars
  <2> QED
    BY <1>1, <2>3, <2>4, <2>5 DEF StoreFlag, emuVars, RunnerOK, StateOK
<1>2. CASE SetFrozenLocked("ui")
  <2>1. TodoOK' /\ state' \in DebugStates
    BY <1>2, Locked DEF Threads
  <2>2. SyncOK'
    BY <1>0, <1>2, NobodyWaits DEF SetFrozenLocked, emuVars
  <2> QED
    BY <1>2, <2>1, <2>2 DEF SetFrozenLocked, fcVars, emuVars, FreezeTypeOK, RunnerOK, StateOK
<1>3. CASE SetArmedLocked("ui")
  <2>1. Head(todo["ui"]) \in SetArmedOps
    BY <1>3, UiNext, UiHead DEF SetArmedLocked
  <2>2. state' \in DebugStates
    BY <1>3, <2>1 DEF SetArmedLocked, SetArmedOps, StateOK, DebugStates
  <2>3. TodoOK'
    BY <1>3, UiDone DEF SetArmedLocked, Next1
  <2>4. SyncOK'
    BY <1>0, <1>3, NobodyWaits DEF SetArmedLocked, emuVars
  <2> QED
    BY <1>3, <2>2, <2>3, <2>4 DEF SetArmedLocked, fcVars, emuVars, FreezeTypeOK, RunnerOK, StateOK
<1>4. CASE RefreshTraceFlags("ui")
  <2>1. TodoOK'
    BY <1>4, UiDone DEF RefreshTraceFlags, Next1
  <2>2. SyncOK'
    BY <1>0, <1>4, NobodyWaits DEF RefreshTraceFlags, emuVars
  <2>3. TraceWanted(state) \in BOOLEAN
    BY DEF TraceWanted, StateOK, DebugStates
  <2> QED
    BY <1>4, <2>1, <2>2, <2>3 DEF RefreshTraceFlags, fcVars, emuVars, FreezeTypeOK, RunnerOK, StateOK
<1>5. CASE ReadPc("ui")
  <2>1. ArmScanLoopExit(pc) \o <<SetArmed("FALSE", "TRUE")>> \o ApplyTraceFlags \in Seq(UiOps)
    BY PartsTyped, PlainParts, ConcatTyped DEF FreezeTypeOK
  <2>2. TodoOK'
    BY <1>5, <2>1, UiReplaced DEF ReadPc, Next1
  <2>3. SyncOK'
    BY <1>0, <1>5, NobodyWaits DEF ReadPc, emuVars
  <2> QED
    BY <1>5, <2>2, <2>3 DEF ReadPc, fcVars, emuVars, FreezeTypeOK, RunnerOK, StateOK
<1>6. CASE StopLoop("ui")
  <2>1. TodoOK'
    BY <1>6, UiDone DEF StopLoop, Next1
  <2>2. SyncOK'
    BY <1>0, <1>6, NobodyWaits DEF StopLoop
  <2> QED
    BY <1>6, <2>1, <2>2 DEF StopLoop, fcVars, FreezeTypeOK, RunnerOK, StateOK
<1>7. CASE StartLoop("ui")
  <2>1. (IF running THEN <<>> ELSE <<Op("postLoop")>>) \in Seq(UiOps)
    BY PartsTyped DEF PlainNames
  <2>2. TodoOK'
    BY <1>7, <2>1, UiReplaced DEF StartLoop, Next1
  <2>3. SyncOK'
    BY <1>0, <1>7, NobodyWaits DEF StartLoop
  <2> QED
    BY <1>7, <2>2, <2>3 DEF StartLoop, fcVars, FreezeTypeOK, RunnerOK, StateOK
<1>8. CASE PostLoop("ui")
  <2>1. Job("loop", 0) \in Jobs \ SyncJobs
    BY DEF Job, Jobs, SyncJobs, SyncKinds
  <2>2. jobs' \in Seq(Jobs)
    BY <1>8, <2>1, Queued DEF PostLoop, RunnerOK
  <2>3. TodoOK'
    BY <1>8, UiDone DEF PostLoop, Next1
  <2>4. SyncOK'
    BY <1>0, <1>8, <2>1, NobodyWaits DEF PostLoop
  <2> QED
    BY <1>8, <2>2, <2>3, <2>4 DEF PostLoop, fcVars, FreezeTypeOK, RunnerOK, StateOK
<1>9. CASE PostJob("ui")
  <2>1. Head(todo["ui"]) \in PostOps
    BY <1>9, UiNext, UiHead DEF PostJob
  <2>2. Head(todo["ui"]).job \in Jobs \ SyncJobs
    BY <2>1 DEF PostOps, StepJobs, Jobs, SyncJobs, SyncKinds, StepKinds
  <2>3. jobs' \in Seq(Jobs)
    BY <1>9, <2>2, Queued DEF PostJob, RunnerOK
  <2>4. TodoOK'
    BY <1>9, UiDone DEF PostJob, Next1
  <2>5. SyncOK'
    BY <1>0, <1>9, <2>2, NobodyWaits DEF PostJob
  <2> QED
    BY <1>9, <2>3, <2>4, <2>5 DEF PostJob, fcVars, FreezeTypeOK, RunnerOK, StateOK
<1>10. CASE PostSync("ui")
  <2>1. Head(todo["ui"]) \in SyncOps
    BY <1>10, UiNext, UiHead DEF PostSync
  <2>2. Head(todo["ui"]).job \in Jobs
    BY <2>1 DEF SyncOps, SyncJobs
  <2>3. jobs' \in Seq(Jobs)
    BY <1>10, <2>2, Queued DEF PostSync, RunnerOK
  <2>4. <<Op("await")>> \in Seq(UiOps)
    BY PartsTyped DEF PlainNames
  <2>5. TodoOK' /\ todo'["ui"] = <<Op("await")>> \o Tail(todo["ui"])
    BY <1>10, <2>4, UiReplaced DEF PostSync, Next1
  <2>6. Awaiting'
    <3>1. Op("await") \in UiOps /\ Tail(todo["ui"]) \in Seq(UiOps)
      BY <1>10, UiAtoms, HeadAndTail DEF PlainNames, PostSync, Next1, TodoOK
    <3>2. todo'["ui"] # <<>> /\ Head(todo'["ui"]) = Op("await")
      BY <2>5, <3>1, Consed
    <3> QED
      BY <3>2 DEF Awaiting, Next1, Op
  <2>7. SyncOK'
    BY <1>0, <1>10, <2>2, <2>6, NobodyWaits DEF PostSync
  <2> QED
    BY <1>10, <2>3, <2>5, <2>7 DEF PostSync, fcVars, FreezeTypeOK, RunnerOK, StateOK
<1>11. ASSUME NEW k \in {"stepKeycode", "stepInstruction"}, PostStepIfFrozen("ui", k) PROVE SessionTyped'
  <2>1. (IF state.frozen THEN <<PostStep(k, state.generation)>> ELSE <<>>) \in Seq(UiOps)
    BY PartsTyped DEF StepKinds, StateOK, DebugStates
  <2>2. TodoOK'
    BY <1>11, <2>1, UiReplaced DEF PostStepIfFrozen, Next1
  <2>3. SyncOK'
    BY <1>0, <1>11, NobodyWaits DEF PostStepIfFrozen, emuVars
  <2> QED
    BY <1>11, <2>2, <2>3 DEF PostStepIfFrozen, fcVars, emuVars, FreezeTypeOK, RunnerOK, StateOK
<1>12. ~BeginNextStep("ui") /\ ~Raise("ui")
  <2>1. ASSUME NEW n \in {"beginNextStep", "debugStateChanged", "frozenView"}, Next1("ui", n) PROVE FALSE
    BY <2>1, UiNext, UiHead DEF PlainNames
  <2> QED
    BY <2>1 DEF BeginNextStep, Raise
<1> QED
  BY <1>1, <1>2, <1>3, <1>4, <1>5, <1>6, <1>7, <1>8, <1>9, <1>10, <1>11, <1>12 DEF MicroOp

(* The micro-operations of the emulation thread. *)
LEMMA EmuMicroOps ==
  ASSUME TodoOK, MicroOp("emu")
  PROVE  StoreFlag("emu") \/ SetFrozenLocked("emu") \/ RefreshTraceFlags("emu") \/ BeginNextStep("emu") \/ Raise("emu")
<1>0. ASSUME NEW n, n \in {"setArmed", "readPc", "stop", "start", "postLoop", "post", "sync", "stepKeycode", "stepInstruction"},
             Next1("emu", n)
      PROVE  FALSE
  BY <1>0, EmuNext, EmuHead DEF EmuNames
<1> QED
  BY <1>0 DEF MicroOp, SetArmedLocked, ReadPc, StopLoop, StartLoop, PostLoop, PostJob, PostSync, PostStepIfFrozen

LEMMA EmuMicroTyped == SessionTyped /\ MicroOp("emu") => SessionTyped'
<1> SUFFICES ASSUME SessionTyped, MicroOp("emu") PROVE SessionTyped'
  OBVIOUS
<1> USE DEF SessionTyped
<1>s. ASSUME UNCHANGED <<thread, job, jobs>>, todo'["ui"] = todo["ui"] PROVE SyncOK'
  BY <1>s DEF SyncOK, Executing, Awaiting, Next1
<1>1. CASE StoreFlag("emu")
  <2>1. Head(todo["emu"]) \in DisarmOps \union ArmOps
    BY <1>1, EmuNext, EmuHead DEF StoreFlag
  <2>2. flag' \in [pcArmed : BOOLEAN, scanArmed : BOOLEAN, seenLoop : BOOLEAN, armPC : PC \union {NoPC}]
    BY <1>1, <2>1, StoredTyped DEF StoreFlag
  <2>3. FreezeTypeOK'
    BY <1>1, <2>2 DEF StoreFlag, FreezeTypeOK
  <2>4. TodoOK' /\ todo'["ui"] = todo["ui"]
    BY <1>1, EmuDone DEF StoreFlag, Next1
  <2> QED
    BY <1>1, <1>s, <2>3, <2>4 DEF StoreFlag, emuVars, RunnerOK, StateOK
<1>2. CASE SetFrozenLocked("emu")
  <2>1. TodoOK' /\ state' \in DebugStates /\ todo'["ui"] = todo["ui"]
    BY <1>2, Locked DEF Threads
  <2> QED
    BY <1>2, <1>s, <2>1 DEF SetFrozenLocked, fcVars, emuVars, FreezeTypeOK, RunnerOK, StateOK
<1>3. CASE RefreshTraceFlags("emu")
  <2>1. TodoOK' /\ todo'["ui"] = todo["ui"]
    BY <1>3, EmuDone DEF RefreshTraceFlags, Next1
  <2>2. TraceWanted(state) \in BOOLEAN
    BY DEF TraceWanted, StateOK, DebugStates
  <2> QED
    BY <1>3, <1>s, <2>1, <2>2 DEF RefreshTraceFlags, fcVars, emuVars, FreezeTypeOK, RunnerOK, StateOK
<1>4. CASE BeginNextStep("emu")
  <2>1. TodoOK' /\ todo'["ui"] = todo["ui"]
    BY <1>4, EmuDone DEF BeginNextStep, Next1
  <2>2. shown' \in [generation : Nat, current : BOOLEAN]
    BY <1>4 DEF BeginNextStep, Moved, StateOK
  <2> QED
    BY <1>4, <1>s, <2>1, <2>2 DEF BeginNextStep, fcVars, emuVars, FreezeTypeOK, RunnerOK, StateOK
<1>5. CASE Raise("emu")
  <2>1. TodoOK' /\ todo'["ui"] = todo["ui"]
    BY <1>5, EmuDone DEF Raise, Next1
  <2>2. Next1("emu", "frozenView") => Head(todo["emu"]) \in EventOps
    BY EmuNext, EmuHead
  <2>3. Op("debugStateChanged") \in EventOps
    BY DEF EventOps, Op
  <2>4. events' \in Seq(EventOps)
    BY <1>5, <2>2, <2>3, Queued DEF Raise, StateOK
  <2> QED
    BY <1>5, <1>s, <2>1, <2>4 DEF Raise, fcVars, emuVars, FreezeTypeOK, RunnerOK, StateOK
<1> QED
  BY <1>1, <1>2, <1>3, <1>4, <1>5, EmuMicroOps

(* The run loop. *)
LEMMA LoopTyped ==
  SessionTyped /\ EmulationThread /\ ~MicroOp("emu") => SessionTyped'
<1> SUFFICES ASSUME SessionTyped, EmulationThread, ~MicroOp("emu") PROVE SessionTyped'
  OBVIOUS
<1> USE DEF SessionTyped
<1>m. ASSUME Moved PROVE shown' \in [generation : Nat, current : BOOLEAN]
  BY <1>m DEF Moved, StateOK
<1>1. CASE TakeJob
  <2>1. Head(jobs) \in Jobs /\ jobs' \in Seq(Jobs)
    BY <1>1, HeadAndTail DEF TakeJob, RunnerOK
  <2>2. Head(jobs).kind # "loop" => Head(jobs) \in StepJobs \union SyncJobs
    BY <2>1 DEF Jobs, StepJobs, SyncJobs
  <2>3. RunnerOK'
    BY <1>1, <2>1, <2>2 DEF TakeJob, RunnerOK, Places
  <2>4. /\ Has(jobs, SyncJobs) <=> Head(jobs) \in SyncJobs \/ Has(Tail(jobs), SyncJobs)
        /\ Once(Tail(jobs), SyncJobs) /\ (Head(jobs) \in SyncJobs => ~Has(Tail(jobs), SyncJobs))
    <3>1. jobs \in Seq(Jobs) /\ jobs # <<>> /\ Once(jobs, SyncJobs)
      BY <1>1 DEF TakeJob, RunnerOK, SyncOK
    <3> QED
      BY <3>1, Begun, Queued
  <2>5. Awaiting' = Awaiting
    BY <1>1 DEF TakeJob, sessionVars, Awaiting, Next1
  <2>6. SyncOK'
    BY <1>1, <2>4, <2>5 DEF TakeJob, SyncOK, Executing
  <2> QED
    BY <1>1, <2>3, <2>6 DEF TakeJob, fcVars, sessionVars, FreezeTypeOK, StateOK, TodoOK
<1>2. CASE ExecuteJob
  <2>1. FreezeTypeOK' /\ RunnerOK' /\ TodoOK'
    BY <1>2 DEF ExecuteJob, FreezeTypeOK, RunnerOK, TodoOK, Places
  <2>2. SyncOK'
    BY <1>2 DEF ExecuteJob, SyncOK, Executing, Awaiting, Next1
  <2> QED
    BY <1>2, <1>m, <2>1, <2>2 DEF ExecuteJob, StateOK
<1>3. CASE FinishJob
  <2>1. RunnerOK' /\ FreezeTypeOK'
    BY <1>3 DEF FinishJob, fcVars, FreezeTypeOK, RunnerOK, Places
  <2>2. CASE job.kind \in StepKinds
    <3>1. [op |-> "frozenView", gen |-> job.gen] \in EventOps
      BY <1>3 DEF FinishJob, RunnerOK, StepJobs, SyncJobs, Jobs, EventOps
    <3>2. events' \in Seq(EventOps)
      BY <1>3, <2>2, <3>1, Queued DEF FinishJob, StateOK
    <3>3. SyncOK'
      BY <1>3, <2>2 DEF FinishJob, SyncOK, Executing, Awaiting, Next1
    <3> QED
      BY <1>3, <2>1, <2>2, <3>2, <3>3 DEF FinishJob, StateOK, TodoOK
  <2>3. CASE job.kind \notin StepKinds
    <3>1. Executing /\ job \in SyncJobs
      BY <1>3, <2>3 DEF FinishJob, RunnerOK, StepJobs, Executing
    <3>2. Awaiting /\ ~Has(jobs, SyncJobs)
      BY <3>1 DEF SyncOK
    <3>3. TodoOK'
      BY <1>3, <2>3, <3>2, UiDone DEF FinishJob, Awaiting, Next1
    <3>4. SyncOK'
      BY <1>3, <3>2 DEF FinishJob, SyncOK, Executing
    <3> QED
      BY <1>3, <2>1, <2>3, <3>3, <3>4 DEF FinishJob, StateOK
  <2> QED
    BY <2>2, <2>3
<1>4. CASE LoopTest
  <2>1. RunnerOK'
    BY <1>4, SessionAssumption DEF SessionAssumption, LoopTest, RunnerOK, Places
  <2>2. SyncOK'
    BY <1>4 DEF LoopTest, sessionVars, SyncOK, Executing, Awaiting, Next1
  <2> QED
    BY <1>4, <2>1, <2>2 DEF LoopTest, fcVars, sessionVars, FreezeTypeOK, StateOK, TodoOK
<1>5. CASE Instruction
  <2>1. FreezeTypeOK'
    BY <1>5 DEF Instruction, Step, FreezeTypeOK, CheckStates
  <2>2. RunnerOK'
    BY <1>5 DEF Instruction, RunnerOK, Places
  <2>3. SyncOK'
    BY <1>5 DEF Instruction, SyncOK, Executing, Awaiting, Next1
  <2> QED
    BY <1>5, <1>m, <2>1, <2>2, <2>3 DEF Instruction, StateOK, TodoOK
<1>6. CASE CheckFreeze
  <2>1. FreezeTypeOK'
    BY <1>6 DEF CheckFreeze, CheckStep, TestPcArmed, ClearPcArmed, TestScanArmed, MarkSeen, TestLeftLoop,
       DisarmFired, DoStore, Store, DisarmScanLoopExit, FreezeTypeOK, CheckStates
  <2> QED
    BY <1>6, <2>1 DEF CheckFreeze, emuVars, sessionVars, RunnerOK, StateOK, TodoOK, SyncOK, Executing, Awaiting, Next1
<1>7. CASE BatchEnds \/ LeaveLoop \/ BatchDone
  <2>1. RunnerOK'
    BY <1>7 DEF BatchEnds, LeaveLoop, BatchDone, RunnerOK, Places
  <2>2. SyncOK'
    BY <1>7 DEF BatchEnds, LeaveLoop, BatchDone, sessionVars, SyncOK, Executing, Awaiting, Next1
  <2> QED
    BY <1>7, <2>1, <2>2 DEF BatchEnds, LeaveLoop, BatchDone, fcVars, sessionVars, FreezeTypeOK, StateOK, TodoOK
<1>8. CASE FreezeFires
  <2>1. TodoOK' /\ todo'["ui"] = todo["ui"]
    BY <1>8, FiredTyped, EmuBegins DEF FreezeFires
  <2>2. FreezeTypeOK' /\ RunnerOK'
    BY <1>8 DEF FreezeFires, FreezeTypeOK, CheckStates, RunnerOK, Places
  <2>3. SyncOK'
    BY <1>8, <2>1 DEF FreezeFires, SyncOK, Executing, Awaiting, Next1
  <2> QED
    BY <1>8, <2>1, <2>2, <2>3 DEF FreezeFires, StateOK
<1> QED
  BY <1>1, <1>2, <1>3, <1>4, <1>5, <1>6, <1>7, <1>8 DEF EmulationThread

(* The programs the controller's own steps put in front of the rest. *)
LEMMA ReplacementsTyped ==
  /\ \A f \in BOOLEAN : Stop \o <<SyncOn("applyReload")>> \o (IF f THEN <<>> ELSE Start) \in Seq(UiOps)
  /\ \A f \in BOOLEAN : (IF f THEN FreezeInPlace("Cpu") \o <<Op("buildView")>> ELSE Start) \in Seq(UiOps)
  /\ \A f \in BOOLEAN : (IF f THEN <<>> ELSE Start) \in Seq(UiOps) /\ (IF f THEN Start ELSE <<>>) \in Seq(UiOps)
  /\ \A e \in EventOps : Pull \o (IF e.op = "frozenView" THEN <<[op |-> "onFrozenView", gen |-> e.gen]>> ELSE <<>>) \in Seq(UiOps)
<1>1. \A f \in BOOLEAN : (IF f THEN <<>> ELSE Start) \in Seq(UiOps) /\ (IF f THEN Start ELSE <<>>) \in Seq(UiOps)
  BY PlainParts, PartsTyped
<1>2. ASSUME NEW f \in BOOLEAN
      PROVE  Stop \o <<SyncOn("applyReload")>> \o (IF f THEN <<>> ELSE Start) \in Seq(UiOps)
  <2>1. <<SyncOn("applyReload")>> \in Seq(UiOps)
    BY PartsTyped DEF SyncKinds
  <2> QED
    BY <1>1, <2>1, PlainParts, ConcatTyped
<1>3. ASSUME NEW f \in BOOLEAN
      PROVE  (IF f THEN FreezeInPlace("Cpu") \o <<Op("buildView")>> ELSE Start) \in Seq(UiOps)
  <2>1. FreezeInPlace("Cpu") \in Seq(UiOps) /\ <<Op("buildView")>> \in Seq(UiOps)
    BY OperationsTyped, PartsTyped DEF PlainNames, Owners
  <2> QED
    BY <2>1, PlainParts, ConcatTyped
<1>4. ASSUME NEW e \in EventOps
      PROVE  Pull \o (IF e.op = "frozenView" THEN <<[op |-> "onFrozenView", gen |-> e.gen]>> ELSE <<>>) \in Seq(UiOps)
  <2>1. e.op = "frozenView" => e.gen \in Nat
    BY DEF EventOps
  <2>2. (IF e.op = "frozenView" THEN <<[op |-> "onFrozenView", gen |-> e.gen]>> ELSE <<>>) \in Seq(UiOps)
    BY <2>1, PartsTyped
  <2> QED
    BY <2>2, PlainParts, ConcatTyped
<1> QED
  BY <1>1, <1>2, <1>3, <1>4

LEMMA ControllerTyped == TypeOK /\ (UiThread \/ \E c \in frontend.calls : Call(c)) => TypeOK'
<1> SUFFICES ASSUME TypeOK, UiThread \/ \E c \in frontend.calls : Call(c) PROVE TypeOK'
  OBVIOUS
<1>0. SessionTyped /\ ControllerOK
  BY DEF TypeOK, SessionTyped
<1> USE DEF SessionTyped
<1>s. ASSUME NEW n, n # "await", todo["ui"] = <<>> \/ Next1("ui", n), UNCHANGED <<thread, job, jobs>> PROVE SyncOK'
  <2>1. ~Awaiting
    BY <1>s DEF Awaiting, Next1
  <2> QED
    BY <1>0, <1>s, <2>1, NobodyWaits
<1>1. CASE SessionOp
  <2>1. SessionTyped'
    BY <1>0, <1>1, UiMicroTyped DEF SessionOp
  <2> QED
    BY <1>0, <1>1, <2>1 DEF SessionOp, ControllerOK, TypeOK
<1>2. ASSUME NEW c \in frontend.calls, Call(c) PROVE TypeOK'
  <2>1. c \in Operations
    BY <1>0, <1>2, ControllerAssumption DEF ControllerAssumption, ControllerOK
  <2>2. TodoOK'
    BY <1>0, <1>2, <2>1, ProgramTyped, UiBegins DEF Call
  <2>3. SyncOK'
    BY <1>2, <1>s DEF Call, emuVars
  <2>4. ControllerOK'
    BY <1>0, <1>2 DEF Call, ControllerOK
  <2> QED
    BY <1>0, <1>2, <2>2, <2>3, <2>4 DEF Call, fcVars, emuVars, TypeOK, FreezeTypeOK, RunnerOK, StateOK
<1>3. CASE PullDebugState
  <2>1. TodoOK'
    BY <1>0, <1>3, UiDone DEF PullDebugState, Next1
  <2>2. SyncOK'
    BY <1>3, <1>s DEF PullDebugState, emuVars
  <2>3. ControllerOK'
    BY <1>0, <1>3 DEF PullDebugState, ControllerOK, StateOK
  <2> QED
    BY <1>0, <1>3, <2>1, <2>2, <2>3 DEF PullDebugState, fcVars, emuVars, TypeOK, FreezeTypeOK, RunnerOK, StateOK
<1>4. CASE CleanReset
  <2>1. TodoOK'
    BY <1>0, <1>4, UiDone DEF CleanReset, Next1
  <2>2. SyncOK'
    BY <1>4, <1>s DEF CleanReset, emuVars
  <2>3. FreezeTypeOK' /\ StateOK'
    BY <1>0, <1>4, PcAssumption DEF PcAssumption, CleanReset, Moved, FreezeTypeOK, StateOK
  <2> QED
    BY <1>0, <1>4, <2>1, <2>2, <2>3 DEF CleanReset, emuVars, controllerVars, TypeOK, RunnerOK, ControllerOK
<1>5. ASSUME NEW n \in {"readFrozen", "readArmed", "startUnlessShownFrozen"}, NEW q \in Seq(UiOps),
             Next1("ui", n), Replace("ui", q),
             UNCHANGED <<fcVars, emuVars, state, tracing, events, shown, controllerVars>>
      PROVE  TypeOK'
  <2>1. TodoOK'
    BY <1>0, <1>5, UiReplaced DEF Next1
  <2>2. SyncOK'
    BY <1>5, <1>s DEF emuVars
  <2> QED
    BY <1>0, <1>5, <2>1, <2>2 DEF fcVars, emuVars, controllerVars, TypeOK, FreezeTypeOK, RunnerOK, StateOK, ControllerOK
<1>6. CASE ReadFrozen \/ ReadArmed \/ StartUnlessShownFrozen
  <2>1. state.frozen \in BOOLEAN /\ state.scanLoopExitArmed \in BOOLEAN /\ mirror.frozen \in BOOLEAN
    BY <1>0 DEF StateOK, ControllerOK, DebugStates
  <2>2. RunAsm(state.scanLoopExitArmed) \in Seq(UiOps)
    BY <2>1, OperationsTyped
  <2>3. (IF mirror.frozen THEN <<>> ELSE Start) \in Seq(UiOps)
    BY <2>1, ReplacementsTyped
  <2>4. Stop \o <<SyncOn("applyReload")>> \o (IF state.frozen THEN <<>> ELSE Start) \in Seq(UiOps)
    BY <2>1, ReplacementsTyped
  <2> QED
    BY <1>5, <1>6, <2>2, <2>3, <2>4 DEF ReadFrozen, ReadArmed, StartUnlessShownFrozen
<1>7. CASE Entered
  <2>1. Next1("ui", "entered") /\ todo["ui"] # <<>>
    BY <1>7 DEF Entered, Next1
  <2>2. Head(todo["ui"]).freezeOnStart \in BOOLEAN
    <3>1. Head(todo["ui"]) \in EnteredOps
      BY <1>0, <2>1, UiNext, UiHead
    <3> QED
      BY <3>1 DEF EnteredOps
  <2>3. TodoOK'
    <3>1. (IF Head(todo["ui"]).freezeOnStart THEN FreezeInPlace("Cpu") \o <<Op("buildView")>> ELSE Start) \in Seq(UiOps)
      BY <2>2, ReplacementsTyped
    <3> QED
      BY <1>0, <1>7, <2>1, <3>1, UiReplaced, UiDone DEF Entered
  <2>4. SyncOK'
    BY <1>7, <1>s, <2>1 DEF Entered, emuVars
  <2>5. ControllerOK'
    BY <1>0, <1>7 DEF Entered, ControllerOK
  <2> QED
    BY <1>0, <1>7, <2>3, <2>4, <2>5 DEF Entered, fcVars, emuVars, TypeOK, FreezeTypeOK, RunnerOK, StateOK
<1>8. CASE ReadRunning
  <2>1. TodoOK'
    BY <1>0, <1>8, UiDone DEF ReadRunning, Next1
  <2>2. SyncOK'
    BY <1>8, <1>s DEF ReadRunning, emuVars
  <2>3. ControllerOK'
    BY <1>0, <1>8 DEF ReadRunning, ControllerOK, RunnerOK
  <2> QED
    BY <1>0, <1>8, <2>1, <2>2, <2>3 DEF ReadRunning, fcVars, emuVars, TypeOK, FreezeTypeOK, RunnerOK, StateOK
<1>9. CASE StartIfSuspendedRunning
  <2>1. (IF suspendedRunning THEN Start ELSE <<>>) \in Seq(UiOps)
    BY <1>0, ReplacementsTyped DEF ControllerOK
  <2>2. TodoOK'
    BY <1>0, <1>9, <2>1, UiReplaced DEF StartIfSuspendedRunning, Next1
  <2>3. SyncOK'
    BY <1>9, <1>s DEF StartIfSuspendedRunning, emuVars
  <2>4. ControllerOK'
    BY <1>0, <1>9 DEF StartIfSuspendedRunning, ControllerOK
  <2> QED
    BY <1>0, <1>9, <2>2, <2>3, <2>4 DEF StartIfSuspendedRunning, fcVars, emuVars, TypeOK, FreezeTypeOK, RunnerOK, StateOK
<1>10. CASE TakeEvent
  <2>1. events' \in Seq(EventOps) /\ Head(events) \in EventOps
    BY <1>0, <1>10, HeadAndTail DEF TakeEvent, StateOK
  <2>2. TodoOK'
    BY <1>0, <1>10, <2>1, ReplacementsTyped, UiBegins DEF TakeEvent
  <2>3. SyncOK'
    <3>1. ~Awaiting
      BY <1>10 DEF TakeEvent, Awaiting, Next1
    <3> QED
      BY <1>0, <1>10, <3>1, NobodyWaits DEF TakeEvent, emuVars
  <2> QED
    BY <1>0, <1>10, <2>1, <2>2, <2>3 DEF TakeEvent, fcVars, emuVars, controllerVars, TypeOK, FreezeTypeOK, RunnerOK, StateOK, ControllerOK
<1>11. CASE OnFrozenView \/ BuildView
  <2>1. TodoOK'
    BY <1>0, <1>11, UiDone DEF OnFrozenView, BuildView, Next1
  <2>2. SyncOK'
    BY <1>11, <1>s DEF OnFrozenView, BuildView, emuVars
  <2>3. shown' \in [generation : Nat, current : BOOLEAN]
    <3>1. mirror.generation \in Nat /\ state.generation \in Nat /\ shown \in [generation : Nat, current : BOOLEAN]
      BY <1>0 DEF StateOK, ControllerOK, DebugStates
    <3>2. [generation |-> mirror.generation, current |-> TRUE] \in [generation : Nat, current : BOOLEAN]
      BY <3>1
    <3>3. [generation |-> state.generation, current |-> TRUE] \in [generation : Nat, current : BOOLEAN]
      BY <3>1
    <3>4. CASE OnFrozenView
      BY <3>1, <3>2, <3>4 DEF OnFrozenView
    <3>5. CASE BuildView
      BY <3>3, <3>5 DEF BuildView
    <3> QED
      BY <1>11, <3>4, <3>5
  <2> QED
    BY <1>0, <1>11, <2>1, <2>2, <2>3 DEF OnFrozenView, BuildView, fcVars, emuVars, controllerVars, TypeOK, FreezeTypeOK, RunnerOK, StateOK, ControllerOK
<1> QED
  BY <1>1, <1>2, <1>3, <1>4, <1>6, <1>7, <1>8, <1>9, <1>10, <1>11 DEF UiThread, ControllerOp

LEMMA StepTyped == TypeOK /\ [Next]_vars => TypeOK'
<1> SUFFICES ASSUME TypeOK, [Next]_vars PROVE TypeOK'
  OBVIOUS
<1>1. CASE Emulation
  <2>1. SessionTyped
    BY DEF TypeOK, SessionTyped
  <2>2. SessionTyped'
    BY <1>1, <2>1, LoopTyped, EmuMicroTyped DEF Emulation
  <2> QED
    BY <1>1, <2>2 DEF Emulation, controllerVars, TypeOK, SessionTyped, ControllerOK
<1>2. CASE UNCHANGED vars
  BY <1>2 DEF vars, fcVars, emuVars, sessionVars, controllerVars, TypeOK, FreezeTypeOK, RunnerOK, StateOK, TodoOK, ControllerOK,
     SyncOK, Executing, Awaiting, Next1
<1> QED
  BY <1>1, <1>2, ControllerTyped DEF Next

(* Every reachable state of the session is well typed, and sync() waits for *)
(* exactly the job it posted: nothing else ends its wait.                   *)
THEOREM TypeCorrect == Spec => []TypeOK
<1>1. Init => TypeOK
  BY InitTyped
<1>2. TypeOK /\ [Next]_vars => TypeOK'
  BY StepTyped
<1> QED
  BY <1>1, <1>2, PTL DEF Spec

-----------------------------------------------------------------------------
(* Trace flags.                                                             *)

(* Programs in which the trace flags are recomputed after every change.     *)
Flagged == {p \in Seq(UiOps) : Leads(p, Changes, Flags)}

LEMMA FlaggedConcat ==
  ASSUME NEW p \in Flagged, NEW q \in Flagged
  PROVE  p \o q \in Flagged
  BY Joined DEF Flagged

LEMMA FlaggedChange ==
  ASSUME NEW p \in Seq(UiOps)
  PROVE  p \o ApplyTraceFlags \in Flagged
<1>1. ApplyTraceFlags \in Seq(UiOps) /\ Op("applyTraceFlags") \in UiOps
  BY PlainParts, UiAtoms DEF PlainNames
<1>2. Op("applyTraceFlags") \notin Changes /\ Op("applyTraceFlags") \in Flags
  BY DEF Changes, SetFrozenOps, SetArmedOps, Op, Flags
<1>3. Has(ApplyTraceFlags, Flags) /\ Leads(ApplyTraceFlags, Changes, Flags)
  BY <1>1, <1>2, OneOp DEF ApplyTraceFlags
<1> QED
  BY <1>1, <1>3, Joined DEF Flagged

LEMMA FlaggedOne ==
  ASSUME NEW o \in UiOps, o \notin Changes
  PROVE  <<o>> \in Flagged
  BY OneOp DEF Flagged

LEMMA FlaggedParts ==
  /\ <<>> \in Flagged
  /\ \A n \in PlainNames : <<Op(n)>> \in Flagged
  /\ \A k \in StepKinds, g \in Nat : <<PostStep(k, g)>> \in Flagged
  /\ \A k \in SyncKinds : <<SyncOn(k)>> \in Flagged
  /\ \A f \in BOOLEAN : <<[op |-> "entered", freezeOnStart |-> f]>> \in Flagged
  /\ \A g \in Nat : <<[op |-> "onFrozenView", gen |-> g]>> \in Flagged
  /\ Start \in Flagged /\ Stop \in Flagged /\ Pull \in Flagged
<1>1. <<>> \in Flagged
  BY EmptySeq DEF Flagged, Leads
<1>2. \A n \in PlainNames : Op(n) \notin Changes
  BY DEF PlainNames, Changes, SetFrozenOps, SetArmedOps, Op
<1>3. \A k, g : PostStep(k, g) \notin Changes /\ SyncOn(k) \notin Changes
  BY DEF Changes, SetFrozenOps, SetArmedOps, PostStep, SyncOn
<1>4. \A f : [op |-> "entered", freezeOnStart |-> f] \notin Changes /\ [op |-> "onFrozenView", gen |-> f] \notin Changes
  BY DEF Changes, SetFrozenOps, SetArmedOps
<1>5. \A n \in PlainNames : <<Op(n)>> \in Flagged
  BY <1>2, UiAtoms, FlaggedOne
<1>6. \A k \in StepKinds, g \in Nat : <<PostStep(k, g)>> \in Flagged
  BY <1>3, UiAtoms, FlaggedOne
<1>7. \A k \in SyncKinds : <<SyncOn(k)>> \in Flagged
  BY <1>3, UiAtoms, FlaggedOne
<1>8. \A f \in BOOLEAN : <<[op |-> "entered", freezeOnStart |-> f]>> \in Flagged
  BY <1>4, UiAtoms, FlaggedOne
<1>9. \A g \in Nat : <<[op |-> "onFrozenView", gen |-> g]>> \in Flagged
  BY <1>4, UiAtoms, FlaggedOne
<1>10. Start \in Flagged /\ Stop \in Flagged /\ Pull \in Flagged
  BY <1>5 DEF Start, Stop, Pull, PlainNames
<1> QED
  BY <1>1, <1>5, <1>6, <1>7, <1>8, <1>9, <1>10

LEMMA FlaggedOperations ==
  /\ \A f \in BOOLEAN, o \in Owners \union {"none"} : SetFrozenState(f, o) \in Flagged
  /\ \A o \in Owners : Freeze(o) \in Flagged /\ FreezeInPlace(o) \in Flagged
  /\ Resume \in Flagged /\ ClearFreeze \in Flagged
  /\ ArmPc \in Flagged /\ ArmScanLoop \in Flagged /\ DisarmPc \in Flagged /\ DisarmScanLoop \in Flagged
  /\ SoftResetStopped \in Flagged
  /\ \A p \in PC : ArmScanLoopExit(p) \o <<SetArmed("FALSE", "TRUE")>> \o ApplyTraceFlags \in Flagged
<1>1. ASSUME NEW f \in BOOLEAN, NEW o \in Owners \union {"none"}
      PROVE  SetFrozenState(f, o) \in Flagged
  <2>1. (IF f THEN DisarmBoth ELSE <<>>) \o <<SetFrozen(f, o)>> \in Seq(UiOps)
    BY PartsTyped, ConcatTyped
  <2> QED
    BY <2>1, FlaggedChange DEF SetFrozenState
<1>2. ASSUME NEW o \in Owners
      PROVE  Freeze(o) \in Flagged /\ FreezeInPlace(o) \in Flagged
  <2>1. SetFrozenState(TRUE, o) \in Flagged
    BY <1>1
  <2>2. <<Op("postFreeze")>> \in Flagged
    BY FlaggedParts DEF PlainNames
  <2> QED
    BY <2>1, <2>2, FlaggedParts, FlaggedConcat DEF Freeze, FreezeInPlace
<1>3. Resume \in Flagged /\ ClearFreeze \in Flagged
  <2>1. SetFrozenState(FALSE, "none") \in Flagged
    BY <1>1
  <2> QED
    BY <2>1, FlaggedParts, FlaggedConcat DEF Resume, ClearFreeze
<1>4. ArmPc \in Flagged /\ DisarmPc \in Flagged /\ DisarmScanLoop \in Flagged
  <2>1. /\ ArmPcChange \o <<SetArmed("TRUE", "FALSE")>> \in Seq(UiOps)
        /\ DisarmPcChange \o <<SetArmed("FALSE", "keep")>> \in Seq(UiOps)
        /\ DisarmScanLoopExit \o <<SetArmed("keep", "FALSE")>> \in Seq(UiOps)
    BY PartsTyped, ConcatTyped
  <2> QED
    BY <2>1, FlaggedChange DEF ArmPc, DisarmPc, DisarmScanLoop
<1>5. ArmScanLoop \in Flagged
  BY FlaggedParts DEF ArmScanLoop, PlainNames
<1>6. ASSUME NEW p \in PC
      PROVE  ArmScanLoopExit(p) \o <<SetArmed("FALSE", "TRUE")>> \o ApplyTraceFlags \in Flagged
  <2>1. ArmScanLoopExit(p) \o <<SetArmed("FALSE", "TRUE")>> \in Seq(UiOps)
    BY PartsTyped, ConcatTyped
  <2> QED
    BY <2>1, FlaggedChange
<1>7. SoftResetStopped \in Flagged
  <2>1. <<SyncOn("softReset")>> \in Flagged
    BY FlaggedParts DEF SyncKinds
  <2> QED
    BY <2>1, FlaggedParts, FlaggedConcat DEF SoftResetStopped
<1> QED
  BY <1>1, <1>2, <1>3, <1>4, <1>5, <1>6, <1>7

LEMMA FlaggedProgram ==
  ASSUME NEW c \in Operations
  PROVE  Program(c) \in Flagged
<1>1. CASE c = "freeze"
  BY <1>1, FlaggedOperations, FlaggedParts, FlaggedConcat DEF Program, Owners
<1>2. CASE c \in {"resume", "armPcChange", "armScanLoopExit", "disarm", "resetMachine"}
  BY <1>2, FlaggedOperations, FlaggedParts, FlaggedConcat DEF Program
<1>3. CASE c \in {"stepKeycode", "stepInstruction", "applyReload", "runAsm", "resumeAfterSuspend"}
  BY <1>3, FlaggedParts DEF Program, PlainNames
<1>4. CASE c = "cleanReset"
  <2>1. <<Op("cleanReset")>> \in Flagged
    BY FlaggedParts DEF PlainNames
  <2> QED
    BY <1>4, <2>1, FlaggedOperations, FlaggedParts, FlaggedConcat DEF Program
<1>5. CASE c = "applyState"
  <2>1. <<SyncOn("applyState")>> \in Flagged
    BY FlaggedParts DEF SyncKinds
  <2> QED
    BY <1>5, <2>1, FlaggedOperations, FlaggedParts, FlaggedConcat DEF Program
<1>6. CASE c = "failedSwitch"
  <2>1. <<SyncOn("nothing")>> \in Flagged /\ <<Op("startUnlessShownFrozen")>> \in Flagged
    BY FlaggedParts DEF SyncKinds, PlainNames
  <2> QED
    BY <1>6, <2>1, FlaggedParts, FlaggedConcat DEF Program
<1>7. CASE c = "suspend"
  <2>1. <<Op("readRunning")>> \in Flagged
    BY FlaggedParts DEF PlainNames
  <2> QED
    BY <1>7, <2>1, FlaggedParts, FlaggedConcat DEF Program
<1> QED
  BY <1>1, <1>2, <1>3, <1>4, <1>5, <1>6, <1>7 DEF Operations, DebuggerCalls

LEMMA FlaggedReplacements ==
  /\ \A f \in BOOLEAN : Stop \o <<SyncOn("applyReload")>> \o (IF f THEN <<>> ELSE Start) \in Flagged
  /\ \A f \in BOOLEAN : RunAsm(f) \in Flagged
  /\ \A f \in BOOLEAN : (IF f THEN FreezeInPlace("Cpu") \o <<Op("buildView")>> ELSE Start) \in Flagged
  /\ \A f \in BOOLEAN : (IF f THEN <<>> ELSE Start) \in Flagged /\ (IF f THEN Start ELSE <<>>) \in Flagged
  /\ \A f \in BOOLEAN : (IF f THEN <<>> ELSE <<Op("postLoop")>>) \in Flagged
  /\ \A e \in EventOps : Pull \o (IF e.op = "frozenView" THEN <<[op |-> "onFrozenView", gen |-> e.gen]>> ELSE <<>>) \in Flagged
<1>1. \A f \in BOOLEAN : /\ (IF f THEN <<>> ELSE Start) \in Flagged /\ (IF f THEN Start ELSE <<>>) \in Flagged
                         /\ (IF f THEN <<>> ELSE <<Op("postLoop")>>) \in Flagged
  BY FlaggedParts DEF PlainNames
<1>2. ASSUME NEW f \in BOOLEAN
      PROVE  Stop \o <<SyncOn("applyReload")>> \o (IF f THEN <<>> ELSE Start) \in Flagged
  <2>1. <<SyncOn("applyReload")>> \in Flagged
    BY FlaggedParts DEF SyncKinds
  <2> QED
    BY <1>1, <2>1, FlaggedParts, FlaggedConcat
<1>3. ASSUME NEW f \in BOOLEAN
      PROVE  RunAsm(f) \in Flagged
  <2>1. <<SyncOn("runAsmOverlay")>> \in Flagged /\ <<[op |-> "entered", freezeOnStart |-> f]>> \in Flagged
    BY FlaggedParts DEF SyncKinds
  <2> QED
    BY <2>1, FlaggedOperations, FlaggedParts, FlaggedConcat DEF RunAsm
<1>4. ASSUME NEW f \in BOOLEAN
      PROVE  (IF f THEN FreezeInPlace("Cpu") \o <<Op("buildView")>> ELSE Start) \in Flagged
  <2>1. <<Op("buildView")>> \in Flagged /\ FreezeInPlace("Cpu") \in Flagged
    BY FlaggedParts, FlaggedOperations DEF PlainNames, Owners
  <2> QED
    BY <2>1, FlaggedParts, FlaggedConcat
<1>5. ASSUME NEW e \in EventOps
      PROVE  Pull \o (IF e.op = "frozenView" THEN <<[op |-> "onFrozenView", gen |-> e.gen]>> ELSE <<>>) \in Flagged
  <2>1. (IF e.op = "frozenView" THEN <<[op |-> "onFrozenView", gen |-> e.gen]>> ELSE <<>>) \in Flagged
    BY FlaggedParts DEF EventOps
  <2> QED
    BY <2>1, FlaggedParts, FlaggedConcat
<1> QED
  BY <1>1, <1>2, <1>3, <1>4, <1>5

LEMMA FlaggedFire ==
  ASSUME NEW o \in Owners
  PROVE  Leads(OnFreezeFired(o), Changes, Flags) /\ Has(OnFreezeFired(o), Flags)
<1>1. DisarmBoth \in Seq(EmuOps) /\ <<SetFrozen(TRUE, o)>> \in Seq(EmuOps) /\ ApplyTraceFlags \in Seq(EmuOps)
      /\ (IF o = "Calculator" THEN <<Op("beginNextStep")>> ELSE <<>>) \in Seq(EmuOps)
      /\ <<Op("debugStateChanged"), Op("frozenViewReady")>> \in Seq(EmuOps)
  BY FiredParts
<1>2. Op("applyTraceFlags") \in EmuOps /\ Op("applyTraceFlags") \notin Changes /\ Op("applyTraceFlags") \in Flags
  BY DEF EmuOps, Changes, SetFrozenOps, SetArmedOps, Op, Flags
<1>3. Has(ApplyTraceFlags, Flags) /\ Leads(ApplyTraceFlags, Changes, Flags)
  BY <1>2, OneOp DEF ApplyTraceFlags
<1>4. /\ SetFrozenState(TRUE, o) \in Seq(EmuOps) /\ Leads(SetFrozenState(TRUE, o), Changes, Flags)
      /\ Has(SetFrozenState(TRUE, o), Flags)
  <2>1. DisarmBoth \o <<SetFrozen(TRUE, o)>> \in Seq(EmuOps)
    BY <1>1, ConcatTyped
  <2> QED
    BY <1>1, <1>3, <2>1, Joined DEF SetFrozenState
<1>5. \A n \in EmuNames : Op(n) \notin Changes
  BY DEF EmuNames, Op, Changes, SetFrozenOps, SetArmedOps
<1>6. Leads(IF o = "Calculator" THEN <<Op("beginNextStep")>> ELSE <<>>, Changes, Flags)
  BY <1>5 DEF Leads, EmuNames
<1>7. Leads(<<Op("debugStateChanged"), Op("frozenViewReady")>>, Changes, Flags)
  BY <1>5 DEF Leads, EmuNames
<1> DEFINE p == SetFrozenState(TRUE, o)
           q == IF o = "Calculator" THEN <<Op("beginNextStep")>> ELSE <<>>
           r == <<Op("debugStateChanged"), Op("frozenViewReady")>>
<1>8. p \in Seq(EmuOps) /\ q \in Seq(EmuOps) /\ r \in Seq(EmuOps)
      /\ Leads(p, Changes, Flags) /\ Has(p, Flags) /\ Leads(q, Changes, Flags) /\ Leads(r, Changes, Flags)
  BY <1>1, <1>4, <1>6, <1>7
<1>9. OnFreezeFired(o) = p \o q \o r
  BY DEF OnFreezeFired
<1> HIDE DEF p, q, r
<1>10. p \o q \in Seq(EmuOps) /\ Leads(p \o q, Changes, Flags) /\ Has(p \o q, Flags)
  BY <1>8, Joined
<1>11. Leads((p \o q) \o r, Changes, Flags) /\ Has((p \o q) \o r, Flags)
  BY <1>8, <1>10, Joined
<1> QED
  BY <1>9, <1>11

(* A thread that does not recompute the flags keeps them due, or right.     *)
LEMMA UiKeepsFlags ==
  ASSUME TodoOK, FlagsDue, todo["ui"] # <<>>, Head(todo["ui"]) \notin Flags,
         \/ todo'["ui"] = Tail(todo["ui"])
         \/ \E q \in Flagged : todo'["ui"] = q \o Tail(todo["ui"]),
         todo'["emu"] = todo["emu"],
         UNCHANGED <<state, tracing>> \/ Head(todo["ui"]) \in Changes
  PROVE  FlagsDue'
<1>1. todo["ui"] \in Seq(UiOps) /\ Tail(todo["ui"]) \in Seq(UiOps)
  BY HeadAndTail DEF TodoOK
<1>2. /\ Has(todo["ui"], Flags) <=> Has(Tail(todo["ui"]), Flags)
      /\ Leads(Tail(todo["ui"]), Changes, Flags)
      /\ Head(todo["ui"]) \in Changes => Has(Tail(todo["ui"]), Flags)
  BY <1>1, Begun DEF FlagsDue
<1>3. /\ Has(Tail(todo["ui"]), Flags) => Has(todo'["ui"], Flags)
      /\ Leads(todo'["ui"], Changes, Flags)
  <2>1. CASE todo'["ui"] = Tail(todo["ui"])
    BY <1>2, <2>1
  <2>2. ASSUME NEW q \in Flagged, todo'["ui"] = q \o Tail(todo["ui"])
        PROVE  /\ Has(Tail(todo["ui"]), Flags) => Has(todo'["ui"], Flags)
               /\ Leads(todo'["ui"], Changes, Flags)
    <3>1. q \in Seq(UiOps) /\ Leads(q, Changes, Flags)
      BY DEF Flagged
    <3>2. /\ Has(Tail(todo["ui"]), Flags) => Has(q \o Tail(todo["ui"]), Flags)
          /\ Leads(q \o Tail(todo["ui"]), Changes, Flags)
      BY <1>1, <1>2, <3>1, Joined
    <3> QED
      BY <2>2, <3>2
  <2> QED
    BY <2>1, <2>2
<1> QED
  BY <1>2, <1>3 DEF FlagsDue, TraceWanted

LEMMA EmuKeepsFlags ==
  ASSUME TodoOK, FlagsDue, todo["emu"] # <<>>, Head(todo["emu"]) \notin Flags,
         todo'["emu"] = Tail(todo["emu"]), todo'["ui"] = todo["ui"],
         UNCHANGED <<state, tracing>>
  PROVE  FlagsDue'
<1>1. todo["emu"] \in Seq(EmuOps)
  BY DEF TodoOK
<1>2. /\ Has(todo["emu"], Flags) <=> Has(Tail(todo["emu"]), Flags)
      /\ Leads(Tail(todo["emu"]), Changes, Flags)
  BY <1>1, Begun DEF FlagsDue
<1> QED
  BY <1>2 DEF FlagsDue, TraceWanted

LEMMA LockedKeepsFlags ==
  ASSUME TodoOK, StateOK, FlagsDue, NEW t \in Threads, SetFrozenLocked(t)
  PROVE  FlagsDue'
<1>1. /\ todo'[t] = Stamped(todo[t], state.generation + 1) /\ \A u \in Threads \ {t} : todo'[u] = todo[u]
      /\ todo[t] # <<>> /\ Head(todo[t]) \in Changes /\ state.generation + 1 \in Nat
  BY Locked DEF Changes
<1>2. \A o : (Stamp(o, state.generation + 1) \in Changes <=> o \in Changes) /\ (Stamp(o, state.generation + 1) \in Flags <=> o \in Flags)
  BY DEF Stamp, Changes, Flags, SetFrozenOps, SetArmedOps, PostStep, Op
<1>3. CASE t = "ui"
  <2>1. todo["ui"] \in Seq(UiOps) /\ \A o \in UiOps : Stamp(o, state.generation + 1) \in UiOps
    BY <1>1, StampTyped DEF TodoOK
  <2>2. /\ Has(Stamped(todo["ui"], state.generation + 1), Flags) <=> Has(Tail(todo["ui"]), Flags)
        /\ Leads(Stamped(todo["ui"], state.generation + 1), Changes, Flags) <=> Leads(Tail(todo["ui"]), Changes, Flags)
    <3>1. Unstamped(UiOps, Changes, state.generation + 1) /\ Unstamped(UiOps, Flags, state.generation + 1)
      BY <1>2 DEF Unstamped
    <3>2. todo["ui"] # <<>>
      BY <1>1, <1>3
    <3> QED
      BY <2>1, <3>1, <3>2, StampedTail
  <2>3. Has(Tail(todo["ui"]), Flags) /\ Leads(Tail(todo["ui"]), Changes, Flags)
    BY <1>1, <1>3, <2>1, Begun DEF FlagsDue
  <2> QED
    BY <1>1, <1>3, <2>2, <2>3 DEF FlagsDue, Threads
<1>4. CASE t = "emu"
  <2>1. todo["emu"] \in Seq(EmuOps) /\ \A o \in EmuOps : Stamp(o, state.generation + 1) \in EmuOps
    BY <1>1, StampTyped DEF TodoOK
  <2>2. /\ Has(Stamped(todo["emu"], state.generation + 1), Flags) <=> Has(Tail(todo["emu"]), Flags)
        /\ Leads(Stamped(todo["emu"], state.generation + 1), Changes, Flags) <=> Leads(Tail(todo["emu"]), Changes, Flags)
    <3>1. Unstamped(EmuOps, Changes, state.generation + 1) /\ Unstamped(EmuOps, Flags, state.generation + 1)
      BY <1>2 DEF Unstamped
    <3>2. todo["emu"] # <<>>
      BY <1>1, <1>4
    <3> QED
      BY <2>1, <3>1, <3>2, StampedTail
  <2>3. Has(Tail(todo["emu"]), Flags) /\ Leads(Tail(todo["emu"]), Changes, Flags)
    BY <1>1, <1>4, <2>1, Begun DEF FlagsDue
  <2> QED
    BY <1>1, <1>4, <2>2, <2>3 DEF FlagsDue, Threads
<1> QED
  BY <1>3, <1>4 DEF Threads

(* The names of the micro-operations that are no change of the flags. *)
LEMMA HeadOp ==
  /\ \A h \in Flags : h.op = "applyTraceFlags"
  /\ \A h \in Changes : h.op \in {"setFrozen", "setArmed"}
  BY DEF Flags, Op, Changes, SetFrozenOps, SetArmedOps

LEMMA UiFlags ==
  ASSUME TypeOK, FlagsDue, UiThread \/ (\E c \in frontend.calls : Call(c))
  PROVE  FlagsDue'
<1>0. TodoOK /\ StateOK /\ RunnerOK /\ ControllerOK /\ FreezeTypeOK
  BY DEF TypeOK
<1>1. ASSUME NEW n, n # "applyTraceFlags", Next1("ui", n), Done("ui"), UNCHANGED <<state, tracing>>
      PROVE  FlagsDue'
  BY <1>0, <1>1, UiDone, UiKeepsFlags, HeadOp DEF Next1
<1>2. ASSUME NEW n, n # "applyTraceFlags", Next1("ui", n), NEW q \in Flagged, Replace("ui", q), UNCHANGED <<state, tracing>>
      PROVE  FlagsDue'
  <2>1. q \in Seq(UiOps)
    BY DEF Flagged
  <2> QED
    BY <1>0, <1>2, <2>1, UiReplaced, UiKeepsFlags, HeadOp DEF Next1
<1>3. CASE StoreFlag("ui") \/ StopLoop("ui") \/ PostLoop("ui") \/ PostJob("ui") \/ PullDebugState \/ CleanReset
           \/ ReadRunning \/ OnFrozenView \/ BuildView \/ BeginNextStep("ui") \/ Raise("ui")
  BY <1>1, <1>3 DEF StoreFlag, StopLoop, PostLoop, PostJob, PullDebugState, CleanReset, ReadRunning, OnFrozenView,
     BuildView, BeginNextStep, Raise
<1>4. CASE SetFrozenLocked("ui")
  BY <1>0, <1>4, LockedKeepsFlags DEF Threads
<1>5. CASE SetArmedLocked("ui")
  <2>1. Head(todo["ui"]) \in Changes /\ todo["ui"] # <<>>
    BY <1>0, <1>5, UiNext, UiHead DEF SetArmedLocked, Changes
  <2>2. Head(todo["ui"]) \notin Flags
    BY <1>5, HeadOp DEF SetArmedLocked, Next1
  <2> QED
    BY <1>0, <1>5, <2>1, <2>2, UiDone, UiKeepsFlags DEF SetArmedLocked
<1>6. CASE RefreshTraceFlags("ui")
  <2>1. todo'["ui"] = Tail(todo["ui"]) /\ todo'["emu"] = todo["emu"] /\ todo["ui"] # <<>>
    BY <1>0, <1>6, UiDone DEF RefreshTraceFlags, Next1
  <2>2. Leads(Tail(todo["ui"]), Changes, Flags)
    BY <1>0, <2>1, Begun DEF FlagsDue, TodoOK
  <2>3. tracing' = TraceWanted(state)'
    BY <1>6 DEF RefreshTraceFlags, TraceWanted
  <2> QED
    BY <2>1, <2>2, <2>3 DEF FlagsDue
<1>7. CASE ReadPc("ui")
  BY <1>0, <1>2, <1>7, FlaggedOperations DEF ReadPc, FreezeTypeOK
<1>8. CASE StartLoop("ui")
  BY <1>0, <1>2, <1>8, FlaggedReplacements DEF StartLoop, RunnerOK
<1>9. CASE PostSync("ui")
  <2>1. <<Op("await")>> \in Flagged
    BY FlaggedParts DEF PlainNames
  <2> QED
    BY <1>2, <1>9, <2>1 DEF PostSync
<1>10. ASSUME NEW k \in {"stepKeycode", "stepInstruction"}, PostStepIfFrozen("ui", k) PROVE FlagsDue'
  <2>1. (IF state.frozen THEN <<PostStep(k, state.generation)>> ELSE <<>>) \in Flagged
    BY <1>0, FlaggedParts DEF StepKinds, StateOK, DebugStates
  <2> QED
    BY <1>2, <1>10, <2>1 DEF PostStepIfFrozen
<1>11. CASE ReadFrozen \/ ReadArmed \/ StartUnlessShownFrozen \/ StartIfSuspendedRunning
  <2>1. state.frozen \in BOOLEAN /\ state.scanLoopExitArmed \in BOOLEAN /\ mirror.frozen \in BOOLEAN /\ suspendedRunning \in BOOLEAN
    BY <1>0 DEF StateOK, ControllerOK, DebugStates
  <2>2. /\ Stop \o <<SyncOn("applyReload")>> \o (IF state.frozen THEN <<>> ELSE Start) \in Flagged
        /\ RunAsm(state.scanLoopExitArmed) \in Flagged
        /\ (IF mirror.frozen THEN <<>> ELSE Start) \in Flagged
        /\ (IF suspendedRunning THEN Start ELSE <<>>) \in Flagged
    BY <2>1, FlaggedReplacements
  <2> QED
    BY <1>2, <1>11, <2>2 DEF ReadFrozen, ReadArmed, StartUnlessShownFrozen, StartIfSuspendedRunning
<1>12. CASE Entered
  <2>1. Next1("ui", "entered")
    BY <1>12 DEF Entered
  <2>2. Head(todo["ui"]).freezeOnStart \in BOOLEAN
    <3>1. Head(todo["ui"]) \in EnteredOps
      BY <1>0, <2>1, UiNext, UiHead
    <3> QED
      BY <3>1 DEF EnteredOps
  <2>3. (IF Head(todo["ui"]).freezeOnStart THEN FreezeInPlace("Cpu") \o <<Op("buildView")>> ELSE Start) \in Flagged
    BY <2>2, FlaggedReplacements
  <2> QED
    BY <1>1, <1>2, <1>12, <2>3 DEF Entered
<1>13. ASSUME todo["ui"] = <<>>, NEW q \in Flagged, todo' = [todo EXCEPT !["ui"] = q], UNCHANGED <<state, tracing>>
       PROVE  FlagsDue'
  <2>1. todo'["ui"] = q /\ todo'["emu"] = todo["emu"] /\ Leads(q, Changes, Flags)
    BY <1>0, <1>13, UiBegins DEF Flagged
  <2>2. ~Has(todo["ui"], Flags)
    BY <1>13 DEF Has
  <2> QED
    BY <1>13, <2>1, <2>2 DEF FlagsDue, TraceWanted
<1>14. CASE TakeEvent
  <2>1. Head(events) \in EventOps
    BY <1>0, <1>14, HeadAndTail DEF TakeEvent, StateOK
  <2> QED
    BY <1>13, <1>14, <2>1, FlaggedReplacements DEF TakeEvent
<1>15. ASSUME NEW c \in frontend.calls, Call(c) PROVE FlagsDue'
  <2>1. c \in Operations
    BY <1>0, ControllerAssumption DEF ControllerAssumption, ControllerOK
  <2> QED
    BY <1>13, <1>15, <2>1, FlaggedProgram DEF Call
<1> QED
  BY <1>3, <1>4, <1>5, <1>6, <1>7, <1>8, <1>9, <1>10, <1>11, <1>12, <1>14, <1>15
     DEF UiThread, SessionOp, ControllerOp, MicroOp

LEMMA EmuFlags ==
  ASSUME TypeOK, FlagsDue, Emulation
  PROVE  FlagsDue'
<1>0. TodoOK /\ StateOK /\ SyncOK /\ RunnerOK
  BY DEF TypeOK
<1>k. ASSUME UNCHANGED <<todo, state, tracing>> PROVE FlagsDue'
  BY <1>k DEF FlagsDue, TraceWanted
<1>1. CASE TakeJob \/ ExecuteJob \/ LoopTest \/ Instruction \/ CheckFreeze \/ BatchEnds \/ LeaveLoop \/ BatchDone
  BY <1>k, <1>1 DEF TakeJob, ExecuteJob, LoopTest, Instruction, CheckFreeze, BatchEnds, LeaveLoop, BatchDone, sessionVars
<1>2. CASE FinishJob
  <2>1. CASE job.kind \in StepKinds
    BY <1>k, <1>2, <2>1 DEF FinishJob
  <2>2. CASE job.kind \notin StepKinds
    <3>1. Awaiting
      BY <1>0, <1>2, <2>2 DEF FinishJob, RunnerOK, StepJobs, SyncOK, Executing
    <3>2. Head(todo["ui"]) \notin Flags /\ todo["ui"] # <<>>
      BY <3>1, HeadOp DEF Awaiting, Next1
    <3> QED
      BY <1>0, <1>2, <2>2, <3>2, UiDone, UiKeepsFlags DEF FinishJob
  <2> QED
    BY <2>1, <2>2
<1>3. CASE FreezeFires
  <2>1. OnFreezeFired(check) \in Seq(EmuOps) /\ Leads(OnFreezeFired(check), Changes, Flags) /\ Has(OnFreezeFired(check), Flags)
    BY <1>3, FiredTyped, FlaggedFire DEF FreezeFires
  <2>2. todo'["emu"] = OnFreezeFired(check) /\ todo'["ui"] = todo["ui"]
    BY <1>0, <1>3, <2>1, EmuBegins DEF FreezeFires
  <2> QED
    BY <1>3, <2>1, <2>2 DEF FlagsDue
<1>4. CASE MicroOp("emu")
  <2>1. CASE StoreFlag("emu") \/ BeginNextStep("emu") \/ Raise("emu")
    <3>1. Done("emu") /\ UNCHANGED <<state, tracing>> /\ \E n \in {"store", "beginNextStep", "debugStateChanged", "frozenView"} : Next1("emu", n)
      BY <2>1 DEF StoreFlag, BeginNextStep, Raise
    <3>2. Head(todo["emu"]) \notin Flags /\ todo["emu"] # <<>>
      BY <3>1, HeadOp DEF Next1
    <3> QED
      BY <1>0, <3>1, <3>2, EmuDone, EmuKeepsFlags
  <2>2. CASE SetFrozenLocked("emu")
    BY <1>0, <2>2, LockedKeepsFlags DEF Threads
  <2>3. CASE RefreshTraceFlags("emu")
    <3>1. todo'["emu"] = Tail(todo["emu"]) /\ todo'["ui"] = todo["ui"] /\ todo["emu"] # <<>>
      BY <1>0, <2>3, EmuDone DEF RefreshTraceFlags, Next1
    <3>2. Leads(Tail(todo["emu"]), Changes, Flags)
      BY <1>0, <3>1, Begun DEF FlagsDue, TodoOK
    <3>3. tracing' = TraceWanted(state)'
      BY <2>3 DEF RefreshTraceFlags, TraceWanted
    <3> QED
      BY <3>1, <3>2, <3>3 DEF FlagsDue
  <2> QED
    BY <1>0, <1>4, <2>1, <2>2, <2>3, EmuMicroOps
<1> QED
  BY <1>1, <1>2, <1>3, <1>4 DEF Emulation, EmulationThread

(* Whenever nothing is under way the trace flags are as their consumers     *)
(* want them: in any interleaving of the two threads, for any operations.   *)
THEOREM TraceFlagsSettle == Spec => []TraceFlagsCurrent
<1>1. Init => FlagsDue
  <2> SUFFICES ASSUME Init PROVE FlagsDue
    OBVIOUS
  <2>1. todo["ui"] = Start /\ todo["emu"] = <<>> /\ tracing = TraceWanted(state)
    BY DEF Init, Debug, TraceWanted
  <2>2. Leads(Start, Changes, Flags) /\ Leads(<<>>, Changes, Flags)
    BY FlaggedParts DEF Flagged
  <2> QED
    BY <2>1, <2>2 DEF FlagsDue
<1>2. TypeOK /\ FlagsDue /\ [Next]_vars => FlagsDue'
  <2>1. TypeOK /\ FlagsDue /\ UNCHANGED vars => FlagsDue'
    BY DEF vars, sessionVars, FlagsDue, TraceWanted
  <2> QED
    BY <2>1, UiFlags, EmuFlags DEF Next
<1>3. FlagsDue => TraceFlagsCurrent
  BY DEF FlagsDue, TraceFlagsCurrent, Settled, UiIdle, Has
<1> QED
  BY <1>1, <1>2, <1>3, TypeCorrect, PTL DEF Spec

-----------------------------------------------------------------------------
(* The panels' copy of the debug state.                                     *)

(* Programs in which the panels are told after every change.                *)
Shown == {p \in Seq(UiOps) : Leads(p, WillChange, Pulls)}

LEMMA ShownConcat ==
  ASSUME NEW p \in Shown, NEW q \in Shown
  PROVE  p \o q \in Shown
  BY Joined DEF Shown

LEMMA ShownPull ==
  ASSUME NEW p \in Seq(UiOps)
  PROVE  p \o Pull \in Shown /\ Has(p \o Pull, Pulls)
<1>1. Op("pull") \in UiOps /\ Op("pull") \in Pulls /\ Op("pull") \notin WillChange
  BY UiAtoms DEF PlainNames, Pulls, WillChange, Changes, SetFrozenOps, SetArmedOps, EnteredOps, Op
<1>2. Pull \in Seq(UiOps) /\ Has(Pull, Pulls) /\ Leads(Pull, WillChange, Pulls)
  BY <1>1, OneOp DEF Pull
<1> QED
  BY <1>2, Joined DEF Shown

LEMMA ShownParts ==
  /\ <<>> \in Shown
  /\ \A n \in PlainNames \ {"readPc"} : <<Op(n)>> \in Shown
  /\ \A k \in StepKinds, g \in Nat : <<PostStep(k, g)>> \in Shown
  /\ \A k \in SyncKinds : <<SyncOn(k)>> \in Shown
  /\ \A g \in Nat : <<[op |-> "onFrozenView", gen |-> g]>> \in Shown
  /\ Start \in Shown /\ Stop \in Shown
<1>0. ASSUME NEW o \in UiOps, o \notin WillChange PROVE <<o>> \in Shown
  BY <1>0, OneOp DEF Shown
<1>1. <<>> \in Shown
  BY EmptySeq DEF Shown, Leads
<1>2. \A n \in PlainNames \ {"readPc"} : Op(n) \notin WillChange
  BY DEF PlainNames, WillChange, Changes, SetFrozenOps, SetArmedOps, EnteredOps, Op
<1>3. \A k, g : PostStep(k, g) \notin WillChange /\ SyncOn(k) \notin WillChange
  BY DEF WillChange, Changes, SetFrozenOps, SetArmedOps, EnteredOps, Op, PostStep, SyncOn
<1>4. \A g : [op |-> "onFrozenView", gen |-> g] \notin WillChange
  BY DEF WillChange, Changes, SetFrozenOps, SetArmedOps, EnteredOps, Op
<1>5. \A n \in PlainNames \ {"readPc"} : <<Op(n)>> \in Shown
  BY <1>0, <1>2, UiAtoms
<1>6. \A k \in StepKinds, g \in Nat : <<PostStep(k, g)>> \in Shown
  BY <1>0, <1>3, UiAtoms
<1>7. \A k \in SyncKinds : <<SyncOn(k)>> \in Shown
  BY <1>0, <1>3, UiAtoms
<1>8. \A g \in Nat : <<[op |-> "onFrozenView", gen |-> g]>> \in Shown
  BY <1>0, <1>4, UiAtoms
<1>9. Start \in Shown /\ Stop \in Shown
  BY <1>5 DEF Start, Stop, PlainNames
<1> QED
  BY <1>1, <1>5, <1>6, <1>7, <1>8, <1>9

LEMMA ShownProgram ==
  ASSUME NEW c \in Operations
  PROVE  Program(c) \in Shown
<1>1. CASE c \in {"freeze", "resume", "armPcChange", "armScanLoopExit"}
  BY <1>1, OperationsTyped, PlainParts, ShownPull DEF Program, Owners
<1>2. CASE c = "disarm"
  BY <1>2, OperationsTyped, PlainParts, ConcatTyped, ShownPull DEF Program
<1>3. CASE c \in {"stepKeycode", "stepInstruction", "applyReload", "runAsm", "resumeAfterSuspend"}
  BY <1>3, ShownParts DEF Program, PlainNames
<1>4. CASE c = "resetMachine"
  <2>1. <<SyncOn("softReset")>> \in Shown
    BY ShownParts DEF SyncKinds
  <2>2. SoftResetStopped \in Shown
    BY <2>1, ShownParts, ShownConcat DEF SoftResetStopped
  <2>3. Resume \o Pull \in Shown
    BY OperationsTyped, ShownPull
  <2> QED
    BY <1>4, <2>2, <2>3, ShownConcat DEF Program
<1>5. CASE c = "cleanReset"
  <2>1. <<Op("cleanReset")>> \in Shown
    BY ShownParts DEF PlainNames
  <2>2. Resume \o Pull \in Shown
    BY OperationsTyped, ShownPull
  <2> QED
    BY <1>5, <2>1, <2>2, ShownConcat DEF Program
<1>6. CASE c = "applyState"
  <2>1. <<SyncOn("applyState")>> \in Seq(UiOps)
    BY PartsTyped DEF SyncKinds
  <2>2. Stop \o ClearFreeze \o <<SyncOn("applyState")>> \o Start \in Seq(UiOps)
    BY <2>1, OperationsTyped, PlainParts, ConcatTyped
  <2> QED
    BY <1>6, <2>2, ShownPull DEF Program
<1>7. CASE c = "failedSwitch"
  <2>1. <<SyncOn("nothing")>> \in Shown /\ <<Op("startUnlessShownFrozen")>> \in Shown
    BY ShownParts DEF SyncKinds, PlainNames
  <2> QED
    BY <1>7, <2>1, ShownParts, ShownConcat DEF Program
<1>8. CASE c = "suspend"
  <2>1. <<Op("readRunning")>> \in Shown
    BY ShownParts DEF PlainNames
  <2> QED
    BY <1>8, <2>1, ShownParts, ShownConcat DEF Program
<1> QED
  BY <1>1, <1>2, <1>3, <1>4, <1>5, <1>6, <1>7, <1>8 DEF Operations, DebuggerCalls

LEMMA ShownReplacements ==
  /\ \A f \in BOOLEAN : Stop \o <<SyncOn("applyReload")>> \o (IF f THEN <<>> ELSE Start) \in Shown
  /\ \A f \in BOOLEAN : RunAsm(f) \in Shown
  /\ \A f \in BOOLEAN : (IF f THEN <<>> ELSE Start) \in Shown /\ (IF f THEN Start ELSE <<>>) \in Shown
  /\ \A f \in BOOLEAN : (IF f THEN <<>> ELSE <<Op("postLoop")>>) \in Shown
  /\ \A e \in EventOps : LET q == Pull \o (IF e.op = "frozenView" THEN <<[op |-> "onFrozenView", gen |-> e.gen]>> ELSE <<>>)
                         IN  q \in Shown /\ Has(q, Pulls)
<1>1. \A f \in BOOLEAN : /\ (IF f THEN <<>> ELSE Start) \in Shown /\ (IF f THEN Start ELSE <<>>) \in Shown
                         /\ (IF f THEN <<>> ELSE <<Op("postLoop")>>) \in Shown
  BY ShownParts DEF PlainNames
<1>2. ASSUME NEW f \in BOOLEAN
      PROVE  Stop \o <<SyncOn("applyReload")>> \o (IF f THEN <<>> ELSE Start) \in Shown
  <2>1. <<SyncOn("applyReload")>> \in Shown
    BY ShownParts DEF SyncKinds
  <2> QED
    BY <1>1, <2>1, ShownParts, ShownConcat
<1>3. ASSUME NEW f \in BOOLEAN
      PROVE  RunAsm(f) \in Shown
  <2>1. <<SyncOn("runAsmOverlay")>> \in Seq(UiOps) /\ <<[op |-> "entered", freezeOnStart |-> f]>> \in Seq(UiOps)
    BY PartsTyped DEF SyncKinds
  <2>2. Stop \o DisarmPc \o DisarmScanLoop \o ClearFreeze \o <<SyncOn("runAsmOverlay")>>
        \o <<[op |-> "entered", freezeOnStart |-> f]>> \in Seq(UiOps)
    BY <2>1, OperationsTyped, PlainParts, ConcatTyped
  <2> QED
    BY <2>2, ShownPull DEF RunAsm
<1>4. ASSUME NEW e \in EventOps
      PROVE  LET q == Pull \o (IF e.op = "frozenView" THEN <<[op |-> "onFrozenView", gen |-> e.gen]>> ELSE <<>>)
             IN  q \in Shown /\ Has(q, Pulls)
  <2> DEFINE v == IF e.op = "frozenView" THEN <<[op |-> "onFrozenView", gen |-> e.gen]>> ELSE <<>>
  <2>1. v \in Shown
    BY ShownParts DEF EventOps
  <2>2. Pull \in Shown /\ Has(Pull, Pulls)
    <3>1. Op("pull") \in UiOps /\ Op("pull") \in Pulls
      BY UiAtoms DEF PlainNames, Pulls
    <3> QED
      BY <3>1, ShownParts, OneOp DEF Pull, PlainNames
  <2> HIDE DEF v
  <2>3. Pull \o v \in Shown /\ Has(Pull \o v, Pulls)
    BY <2>1, <2>2, ShownConcat, Joined DEF Shown
  <2> QED
    BY <2>3 DEF v
<1> QED
  BY <1>1, <1>2, <1>3, <1>4

LEMMA RaisedFire ==
  ASSUME NEW o \in Owners
  PROVE  Leads(OnFreezeFired(o), Changes, Raises) /\ Has(OnFreezeFired(o), Raises)
<1> DEFINE p == SetFrozenState(TRUE, o) \o (IF o = "Calculator" THEN <<Op("beginNextStep")>> ELSE <<>>)
           r == <<Op("debugStateChanged"), Op("frozenViewReady")>>
<1>1. p \in Seq(EmuOps) /\ r \in Seq(EmuOps) /\ OnFreezeFired(o) = p \o r
  BY FiredParts, ConcatTyped DEF OnFreezeFired, SetFrozenState
<1>2. Op("debugStateChanged") \in Raises /\ Op("debugStateChanged") \notin Changes /\ Op("frozenViewReady") \notin Changes
  BY DEF Raises, Op, Changes, SetFrozenOps, SetArmedOps
<1>3. Has(r, Raises) /\ Leads(r, Changes, Raises)
  BY <1>2 DEF Has, Leads
<1> HIDE DEF p, r
<1> QED
  BY <1>1, <1>3, Joined

LEMMA UiKeepsMirror ==
  ASSUME TodoOK, MirrorDue, todo["ui"] # <<>>, Head(todo["ui"]) \notin Pulls,
         \/ todo'["ui"] = Tail(todo["ui"])
         \/ \E q \in Shown : todo'["ui"] = q \o Tail(todo["ui"])
         \/ Head(todo["ui"]) \in WillChange /\ \E q \in Seq(UiOps) : todo'["ui"] = q \o Tail(todo["ui"]),
         todo'["emu"] = todo["emu"], mirror' = mirror, events' = events,
         state' = state \/ Head(todo["ui"]) \in WillChange
  PROVE  MirrorDue'
<1>1. todo["ui"] \in Seq(UiOps) /\ Tail(todo["ui"]) \in Seq(UiOps)
  BY HeadAndTail DEF TodoOK
<1>2. /\ Has(todo["ui"], Pulls) <=> Has(Tail(todo["ui"]), Pulls)
      /\ Leads(Tail(todo["ui"]), WillChange, Pulls)
      /\ Head(todo["ui"]) \in WillChange => Has(Tail(todo["ui"]), Pulls)
  BY <1>1, Begun DEF MirrorDue
<1>3. /\ Has(Tail(todo["ui"]), Pulls) => Has(todo'["ui"], Pulls)
      /\ Leads(todo'["ui"], WillChange, Pulls)
  <2>1. CASE todo'["ui"] = Tail(todo["ui"])
    BY <1>2, <2>1
  <2>2. ASSUME NEW q \in Seq(UiOps), todo'["ui"] = q \o Tail(todo["ui"]), q \in Shown \/ Head(todo["ui"]) \in WillChange
        PROVE  /\ Has(Tail(todo["ui"]), Pulls) => Has(todo'["ui"], Pulls)
               /\ Leads(todo'["ui"], WillChange, Pulls)
    <3>1. Leads(q, WillChange, Pulls) \/ Has(Tail(todo["ui"]), Pulls)
      BY <1>2, <2>2 DEF Shown
    <3>2. /\ Has(Tail(todo["ui"]), Pulls) => Has(q \o Tail(todo["ui"]), Pulls)
          /\ Leads(q \o Tail(todo["ui"]), WillChange, Pulls)
      BY <1>1, <1>2, <3>1, Joined
    <3> QED
      BY <2>2, <3>2
  <2>3. \A q \in Shown : q \in Seq(UiOps)
    BY DEF Shown
  <2> QED
    BY <2>1, <2>2, <2>3
<1> QED
  BY <1>2, <1>3 DEF MirrorDue

LEMMA EmuKeepsMirror ==
  ASSUME TodoOK, MirrorDue, todo["emu"] # <<>>, Head(todo["emu"]) \notin Raises,
         todo'["emu"] = Tail(todo["emu"]), todo'["ui"] = todo["ui"],
         UNCHANGED <<state, mirror>>, events # <<>> => events' # <<>>
  PROVE  MirrorDue'
<1>1. todo["emu"] \in Seq(EmuOps)
  BY DEF TodoOK
<1>2. /\ Has(todo["emu"], Raises) <=> Has(Tail(todo["emu"]), Raises)
      /\ Leads(Tail(todo["emu"]), Changes, Raises)
  BY <1>1, Begun DEF MirrorDue
<1> QED
  BY <1>2 DEF MirrorDue

LEMMA LockedKeepsMirror ==
  ASSUME TodoOK, StateOK, MirrorDue, NEW t \in Threads, SetFrozenLocked(t), mirror' = mirror
  PROVE  MirrorDue'
<1>1. /\ todo'[t] = Stamped(todo[t], state.generation + 1) /\ \A u \in Threads \ {t} : todo'[u] = todo[u]
      /\ todo[t] # <<>> /\ Head(todo[t]) \in Changes /\ state.generation + 1 \in Nat
  BY Locked DEF Changes
<1>2. /\ Unstamped(UiOps, WillChange, state.generation + 1) /\ Unstamped(UiOps, Pulls, state.generation + 1)
      /\ Unstamped(EmuOps, Changes, state.generation + 1) /\ Unstamped(EmuOps, Raises, state.generation + 1)
  BY DEF Unstamped, Stamp, WillChange, Changes, Pulls, Raises, SetFrozenOps, SetArmedOps, EnteredOps, PostStep, Op
<1>3. CASE t = "ui"
  <2>1. todo["ui"] \in Seq(UiOps) /\ \A o \in UiOps : Stamp(o, state.generation + 1) \in UiOps
    BY <1>1, StampTyped DEF TodoOK
  <2>2. /\ Has(Stamped(todo["ui"], state.generation + 1), Pulls) <=> Has(Tail(todo["ui"]), Pulls)
        /\ Leads(Stamped(todo["ui"], state.generation + 1), WillChange, Pulls) <=> Leads(Tail(todo["ui"]), WillChange, Pulls)
    <3>1. todo["ui"] # <<>>
      BY <1>1, <1>3
    <3> QED
      BY <1>2, <2>1, <3>1, StampedTail
  <2>3. Has(Tail(todo["ui"]), Pulls) /\ Leads(Tail(todo["ui"]), WillChange, Pulls)
    <3>1. Head(todo["ui"]) \in WillChange
      BY <1>1, <1>3 DEF WillChange
    <3> QED
      BY <1>1, <1>3, <2>1, <3>1, Begun DEF MirrorDue
  <2> QED
    BY <1>1, <1>3, <2>2, <2>3 DEF MirrorDue, Threads
<1>4. CASE t = "emu"
  <2>1. todo["emu"] \in Seq(EmuOps) /\ \A o \in EmuOps : Stamp(o, state.generation + 1) \in EmuOps
    BY <1>1, StampTyped DEF TodoOK
  <2>2. /\ Has(Stamped(todo["emu"], state.generation + 1), Raises) <=> Has(Tail(todo["emu"]), Raises)
        /\ Leads(Stamped(todo["emu"], state.generation + 1), Changes, Raises) <=> Leads(Tail(todo["emu"]), Changes, Raises)
    <3>1. todo["emu"] # <<>>
      BY <1>1, <1>4
    <3> QED
      BY <1>2, <2>1, <3>1, StampedTail
  <2>3. Has(Tail(todo["emu"]), Raises) /\ Leads(Tail(todo["emu"]), Changes, Raises)
    BY <1>1, <1>4, <2>1, Begun DEF MirrorDue
  <2> QED
    BY <1>1, <1>4, <2>2, <2>3 DEF MirrorDue, Threads
<1> QED
  BY <1>3, <1>4 DEF Threads

LEMMA PullsOp == (\A h \in Pulls : h.op = "pull") /\ (\A h \in Raises : h.op = "debugStateChanged")
  BY DEF Pulls, Raises, Op

LEMMA UiMirror ==
  ASSUME TypeOK, MirrorDue, UiThread \/ (\E c \in frontend.calls : Call(c))
  PROVE  MirrorDue'
<1>0. TodoOK /\ StateOK /\ RunnerOK /\ ControllerOK /\ FreezeTypeOK
  BY DEF TypeOK
<1>1. ASSUME NEW n, n # "pull", Next1("ui", n), Done("ui"), UNCHANGED <<state, mirror, events>>
      PROVE  MirrorDue'
  BY <1>0, <1>1, UiDone, UiKeepsMirror, PullsOp DEF Next1
<1>2. ASSUME NEW n, n # "pull", Next1("ui", n), NEW q \in Shown, Replace("ui", q), UNCHANGED <<state, mirror, events>>
      PROVE  MirrorDue'
  <2>1. q \in Seq(UiOps)
    BY DEF Shown
  <2> QED
    BY <1>0, <1>2, <2>1, UiReplaced, UiKeepsMirror, PullsOp DEF Next1
<1>3. CASE SessionOp /\ (StoreFlag("ui") \/ StopLoop("ui") \/ PostLoop("ui") \/ PostJob("ui")
           \/ RefreshTraceFlags("ui") \/ BeginNextStep("ui"))
  BY <1>1, <1>3 DEF SessionOp, StoreFlag, StopLoop, PostLoop, PostJob, RefreshTraceFlags, BeginNextStep
<1>4. CASE CleanReset \/ ReadRunning \/ OnFrozenView \/ BuildView
  BY <1>1, <1>4 DEF CleanReset, ReadRunning, OnFrozenView, BuildView, controllerVars
<1>5. CASE SessionOp /\ SetFrozenLocked("ui")
  BY <1>0, <1>5, LockedKeepsMirror DEF Threads, SessionOp
<1>6. CASE SessionOp /\ SetArmedLocked("ui")
  <2>1. Head(todo["ui"]) \in WillChange /\ todo["ui"] # <<>>
    BY <1>0, <1>6, UiNext, UiHead DEF SetArmedLocked, WillChange, Changes
  <2>2. Head(todo["ui"]) \notin Pulls
    BY <1>6, PullsOp DEF SetArmedLocked, Next1
  <2> QED
    BY <1>0, <1>6, <2>1, <2>2, UiDone, UiKeepsMirror DEF SetArmedLocked, SessionOp
<1>7. CASE PullDebugState
  <2>1. todo'["ui"] = Tail(todo["ui"]) /\ todo'["emu"] = todo["emu"] /\ todo["ui"] # <<>>
    BY <1>0, <1>7, UiDone DEF PullDebugState, Next1
  <2>2. Leads(Tail(todo["ui"]), WillChange, Pulls)
    BY <1>0, <2>1, Begun DEF MirrorDue, TodoOK
  <2> QED
    BY <1>7, <2>1, <2>2 DEF PullDebugState, MirrorDue
<1>8. CASE SessionOp /\ ReadPc("ui")
  <2>1. ArmScanLoopExit(pc) \o <<SetArmed("FALSE", "TRUE")>> \o ApplyTraceFlags \in Seq(UiOps)
    BY <1>0, PartsTyped, PlainParts, ConcatTyped DEF FreezeTypeOK
  <2>2. Head(todo["ui"]) = Op("readPc") /\ todo["ui"] # <<>>
    BY <1>0, <1>8, UiNext, UiHead DEF ReadPc, PlainNames
  <2>3. Head(todo["ui"]) \in WillChange /\ Head(todo["ui"]) \notin Pulls
    BY <2>2 DEF WillChange, Pulls, Op
  <2> QED
    BY <1>0, <1>8, <2>1, <2>2, <2>3, UiReplaced, UiKeepsMirror DEF ReadPc, SessionOp
<1>9. CASE SessionOp /\ StartLoop("ui")
  <2>1. (IF running THEN <<>> ELSE <<Op("postLoop")>>) \in Shown
    BY <1>0, ShownReplacements DEF RunnerOK
  <2> QED
    BY <1>2, <1>9, <2>1 DEF StartLoop, SessionOp
<1>10. CASE SessionOp /\ PostSync("ui")
  <2>1. <<Op("await")>> \in Shown
    BY ShownParts DEF PlainNames
  <2> QED
    BY <1>2, <1>10, <2>1 DEF PostSync, SessionOp
<1>11. ASSUME NEW k \in {"stepKeycode", "stepInstruction"}, SessionOp, PostStepIfFrozen("ui", k) PROVE MirrorDue'
  <2>1. (IF state.frozen THEN <<PostStep(k, state.generation)>> ELSE <<>>) \in Shown
    BY <1>0, ShownParts DEF StepKinds, StateOK, DebugStates
  <2> QED
    BY <1>2, <1>11, <2>1 DEF PostStepIfFrozen, SessionOp
<1>12. ~Raise("ui")
  <2>1. ASSUME NEW n \in {"debugStateChanged", "frozenView"}, Next1("ui", n) PROVE FALSE
    BY <1>0, <2>1, UiNext, UiHead DEF PlainNames
  <2> QED
    BY <2>1 DEF Raise
<1>13. CASE ReadFrozen \/ ReadArmed \/ StartUnlessShownFrozen \/ StartIfSuspendedRunning
  <2>1. state.frozen \in BOOLEAN /\ state.scanLoopExitArmed \in BOOLEAN /\ mirror.frozen \in BOOLEAN /\ suspendedRunning \in BOOLEAN
    BY <1>0 DEF StateOK, ControllerOK, DebugStates
  <2>2. /\ Stop \o <<SyncOn("applyReload")>> \o (IF state.frozen THEN <<>> ELSE Start) \in Shown
        /\ RunAsm(state.scanLoopExitArmed) \in Shown
        /\ (IF mirror.frozen THEN <<>> ELSE Start) \in Shown
        /\ (IF suspendedRunning THEN Start ELSE <<>>) \in Shown
    BY <2>1, ShownReplacements
  <2> QED
    BY <1>2, <1>13, <2>2 DEF ReadFrozen, ReadArmed, StartUnlessShownFrozen, StartIfSuspendedRunning, controllerVars
<1>14. CASE Entered
  <2>1. Next1("ui", "entered") /\ todo["ui"] # <<>>
    BY <1>14 DEF Entered, Next1
  <2>2. Head(todo["ui"]) \in EnteredOps
    BY <1>0, <2>1, UiNext, UiHead
  <2>3. (IF Head(todo["ui"]).freezeOnStart THEN FreezeInPlace("Cpu") \o <<Op("buildView")>> ELSE Start) \in Seq(UiOps)
    BY <2>2, ReplacementsTyped DEF EnteredOps
  <2>4. Head(todo["ui"]) \in WillChange /\ Head(todo["ui"]) \notin Pulls
    BY <2>2 DEF WillChange, Pulls, Op, EnteredOps
  <2> QED
    BY <1>0, <1>1, <1>14, <2>1, <2>3, <2>4, UiReplaced, UiKeepsMirror DEF Entered
<1>15. CASE TakeEvent
  <2>1. Head(events) \in EventOps
    BY <1>0, <1>15, HeadAndTail DEF TakeEvent, StateOK
  <2> DEFINE q == Pull \o (IF Head(events).op = "frozenView" THEN <<[op |-> "onFrozenView", gen |-> Head(events).gen]>> ELSE <<>>)
  <2>2. q \in Shown /\ Has(q, Pulls)
    BY <2>1, ShownReplacements
  <2>3. todo' = [todo EXCEPT !["ui"] = q] /\ UNCHANGED <<state, mirror>>
    BY <1>15 DEF TakeEvent, controllerVars
  <2> HIDE DEF q
  <2>4. todo'["ui"] = q /\ todo'["emu"] = todo["emu"] /\ Leads(q, WillChange, Pulls)
    BY <1>0, <2>2, <2>3, UiBegins DEF Shown
  <2> QED
    BY <2>2, <2>4 DEF MirrorDue
<1>16. ASSUME NEW c \in frontend.calls, Call(c) PROVE MirrorDue'
  <2>1. c \in Operations
    BY <1>0, ControllerAssumption DEF ControllerAssumption, ControllerOK
  <2>2. Program(c) \in Shown
    BY <2>1, ShownProgram
  <2>3. todo'["ui"] = Program(c) /\ todo'["emu"] = todo["emu"] /\ Leads(Program(c), WillChange, Pulls)
    BY <1>0, <1>16, <2>2, UiBegins DEF Shown, Call
  <2>4. ~Has(todo["ui"], Pulls)
    BY <1>16 DEF Has, Call
  <2> QED
    BY <1>16, <2>3, <2>4 DEF MirrorDue, Call
<1> QED
  BY <1>3, <1>4, <1>5, <1>6, <1>7, <1>8, <1>9, <1>10, <1>11, <1>12, <1>13, <1>14, <1>15, <1>16
     DEF UiThread, SessionOp, ControllerOp, MicroOp

LEMMA EmuMirror ==
  ASSUME TypeOK, MirrorDue, Emulation
  PROVE  MirrorDue'
<1>0. TodoOK /\ StateOK /\ SyncOK /\ RunnerOK /\ mirror' = mirror
  BY DEF TypeOK, Emulation, controllerVars
<1>k. ASSUME UNCHANGED <<todo, state, events>> PROVE MirrorDue'
  BY <1>0, <1>k DEF MirrorDue
<1>1. CASE TakeJob \/ ExecuteJob \/ LoopTest \/ Instruction \/ CheckFreeze \/ BatchEnds \/ LeaveLoop \/ BatchDone
  BY <1>k, <1>1 DEF TakeJob, ExecuteJob, LoopTest, Instruction, CheckFreeze, BatchEnds, LeaveLoop, BatchDone, sessionVars
<1>2. CASE FinishJob
  <2>1. CASE job.kind \in StepKinds
    <3>1. [op |-> "frozenView", gen |-> job.gen] \in EventOps
      BY <1>0, <1>2 DEF FinishJob, RunnerOK, StepJobs, SyncJobs, Jobs, EventOps
    <3>2. events' # <<>> /\ UNCHANGED <<todo, state>>
      BY <1>0, <1>2, <2>1, <3>1, AppendProperties DEF FinishJob, StateOK
    <3> QED
      BY <1>0, <3>2 DEF MirrorDue
  <2>2. CASE job.kind \notin StepKinds
    <3>1. Awaiting
      BY <1>0, <1>2, <2>2 DEF FinishJob, RunnerOK, StepJobs, SyncOK, Executing
    <3>2. Head(todo["ui"]) \notin Pulls /\ todo["ui"] # <<>>
      BY <3>1, PullsOp DEF Awaiting, Next1
    <3> QED
      BY <1>0, <1>2, <2>2, <3>2, UiDone, UiKeepsMirror DEF FinishJob
  <2> QED
    BY <2>1, <2>2
<1>3. CASE FreezeFires
  <2>1. OnFreezeFired(check) \in Seq(EmuOps) /\ Leads(OnFreezeFired(check), Changes, Raises) /\ Has(OnFreezeFired(check), Raises)
    BY <1>3, FiredTyped, RaisedFire DEF FreezeFires
  <2>2. todo'["emu"] = OnFreezeFired(check) /\ todo'["ui"] = todo["ui"]
    BY <1>0, <1>3, <2>1, EmuBegins DEF FreezeFires
  <2> QED
    BY <1>3, <2>1, <2>2 DEF MirrorDue
<1>4. CASE MicroOp("emu")
  <2>1. CASE StoreFlag("emu") \/ BeginNextStep("emu") \/ RefreshTraceFlags("emu")
    <3>1. Done("emu") /\ UNCHANGED <<state, events>> /\ \E n \in {"store", "beginNextStep", "applyTraceFlags"} : Next1("emu", n)
      BY <2>1 DEF StoreFlag, BeginNextStep, RefreshTraceFlags
    <3>2. Head(todo["emu"]) \notin Raises /\ todo["emu"] # <<>>
      BY <3>1, PullsOp DEF Next1
    <3> QED
      BY <1>0, <3>1, <3>2, EmuDone, EmuKeepsMirror
  <2>2. CASE SetFrozenLocked("emu")
    BY <1>0, <2>2, LockedKeepsMirror DEF Threads
  <2>3. CASE Raise("emu")
    <3>1. todo'["emu"] = Tail(todo["emu"]) /\ todo'["ui"] = todo["ui"] /\ todo["emu"] # <<>>
      BY <1>0, <2>3, EmuDone DEF Raise, Next1
    <3>2. Leads(Tail(todo["emu"]), Changes, Raises)
      BY <1>0, <3>1, Begun DEF MirrorDue, TodoOK
    <3>3. events' # <<>>
      <4>1. Next1("emu", "frozenView") => Head(todo["emu"]) \in EventOps
        BY <1>0, EmuNext, EmuHead
      <4>2. Op("debugStateChanged") \in EventOps
        BY DEF EventOps, Op
      <4> QED
        BY <1>0, <2>3, <4>1, <4>2, AppendProperties DEF Raise, StateOK
    <3> QED
      BY <3>1, <3>2, <3>3 DEF MirrorDue
  <2> QED
    BY <1>0, <1>4, <2>1, <2>2, <2>3, EmuMicroOps
<1> QED
  BY <1>1, <1>2, <1>3, <1>4 DEF Emulation, EmulationThread

LEMMA MirrorInit == Init => MirrorDue
<1> SUFFICES ASSUME Init PROVE MirrorDue
  OBVIOUS
<1>1. todo["ui"] = Start /\ todo["emu"] = <<>> /\ mirror = state
  BY DEF Init
<1>2. Leads(Start, WillChange, Pulls) /\ Leads(<<>>, Changes, Raises)
  BY ShownParts DEF Shown, Leads
<1> QED
  BY <1>1, <1>2 DEF MirrorDue

LEMMA MirrorStep == TypeOK /\ MirrorDue /\ [Next]_vars => MirrorDue'
<1>1. TypeOK /\ MirrorDue /\ UNCHANGED vars => MirrorDue'
  BY DEF vars, sessionVars, controllerVars, MirrorDue
<1> QED
  BY <1>1, UiMirror, EmuMirror DEF Next

(* Once the events have been taken the panels show the session's own debug  *)
(* state, whatever the two threads did to it and in whatever order.         *)
THEOREM MirrorSettles == Spec => []MirrorCurrent
<1>1. MirrorDue => MirrorCurrent
  BY DEF MirrorDue, MirrorCurrent, Settled, UiIdle, Has
<1> QED
  BY <1>1, MirrorInit, MirrorStep, TypeCorrect, PTL DEF Spec

-----------------------------------------------------------------------------
(* A machine that stops is started again, frozen, suspended or explained.   *)

(* Programs without a step that reads what it will do, and those of them    *)
(* after which the machine is not left stopped.                             *)
Inner == {p \in Seq(UiOps) : ~Has(p, LastOps) /\ ~Has(p, {Op("readRunning")})}
Reviving == {p \in Inner : Leads(p, UnfreezeOps, Starts) /\ Leads(p, Stops, Revivers)}
Quiet == {p \in Inner : ~Has(p, UnfreezeOps) /\ ~Has(p, Stops)}

LEMMA InnerConcat ==
  /\ \A p, q \in Inner : p \o q \in Inner
  /\ \A p, q \in Quiet : p \o q \in Quiet
  /\ \A p, q \in Reviving : p \o q \in Reviving
  /\ Quiet \subseteq Reviving /\ Reviving \subseteq Inner /\ Inner \subseteq Seq(UiOps)
<1>1. Quiet \subseteq Reviving
  BY DEF Quiet, Reviving, Leads, Has
<1>2. ASSUME NEW p \in Inner, NEW q \in Inner PROVE p \o q \in Inner
  BY Joined DEF Inner
<1>3. ASSUME NEW p \in Quiet, NEW q \in Quiet PROVE p \o q \in Quiet
  <2>1. p \in Inner /\ q \in Inner /\ p \in Seq(UiOps) /\ q \in Seq(UiOps)
    BY DEF Quiet, Inner
  <2>2. (Has(p \o q, UnfreezeOps) <=> Has(p, UnfreezeOps) \/ Has(q, UnfreezeOps))
        /\ (Has(p \o q, Stops) <=> Has(p, Stops) \/ Has(q, Stops))
    BY <2>1, Joined
  <2> QED
    BY <1>2, <2>1, <2>2 DEF Quiet
<1>4. ASSUME NEW p \in Reviving, NEW q \in Reviving PROVE p \o q \in Reviving
  <2>1. p \in Inner /\ q \in Inner /\ p \in Seq(UiOps) /\ q \in Seq(UiOps)
    BY DEF Reviving, Inner
  <2>2. Leads(p \o q, UnfreezeOps, Starts) /\ Leads(p \o q, Stops, Revivers)
    BY <2>1, Joined DEF Reviving
  <2> QED
    BY <1>2, <2>1, <2>2 DEF Reviving
<1> QED
  BY <1>1, <1>2, <1>3, <1>4 DEF Reviving, Inner

LEMMA RevivedBy ==
  ASSUME NEW p \in Inner, NEW q \in Reviving, Has(q, Starts)
  PROVE  p \o q \in Reviving /\ Has(p \o q, Starts)
<1>1. p \in Seq(UiOps) /\ q \in Seq(UiOps) /\ q \in Inner
  BY DEF Reviving, Inner
<1>2. Has(q, Revivers)
  BY DEF Has, Revivers
<1>3. Leads(p \o q, UnfreezeOps, Starts) /\ Leads(p \o q, Stops, Revivers) /\ Has(p \o q, Starts)
  BY <1>1, <1>2, Joined DEF Reviving
<1> QED
  BY <1>1, <1>3, InnerConcat DEF Reviving

(* The steps of the debugger are neither of these. *)
LEMMA OtherOps ==
  /\ \A o \in LastOps \union {Op("readRunning")} \union Stops : o.op \in {"readFrozen", "readArmed", "startUnlessShownFrozen", "startIfSuspendedRunning", "readRunning", "stop"}
  /\ \A o \in UnfreezeOps : o.op = "setFrozen" /\ ~o.frozen
  /\ \A o \in Starts : o.op \in {"start", "entered"}
  /\ \A o \in Revivers : o.op \in {"start", "entered", "startUnlessShownFrozen"} \/ (o.op = "setFrozen" /\ o.frozen)
  BY DEF LastOps, Stops, UnfreezeOps, Starts, EnteredOps, Revivers, FreezeOps, SetFrozenOps, Op

QuietNames == {"setArmed", "store", "post", "sync", "onFrozenView"} \union
              (PlainNames \ {"readFrozen", "readArmed", "startUnlessShownFrozen", "startIfSuspendedRunning", "readRunning", "stop"})

LEMMA QuietOne ==
  ASSUME NEW o \in UiOps, o.op \in QuietNames \union {"entered"} \/ (o.op = "setFrozen" /\ o.frozen)
  PROVE  <<o>> \in Quiet
<1>1. o \notin LastOps /\ o # Op("readRunning") /\ o \notin Stops /\ o \notin UnfreezeOps
  BY OtherOps DEF QuietNames, PlainNames
<1>2. <<o>> \in Seq(UiOps) /\ ~Has(<<o>>, LastOps) /\ ~Has(<<o>>, {Op("readRunning")}) /\ ~Has(<<o>>, Stops) /\ ~Has(<<o>>, UnfreezeOps)
  BY <1>1, OneOp
<1> QED
  BY <1>2 DEF Quiet, Inner

(* A program of quiet steps is quiet. *)
LEMMA QuietAll ==
  ASSUME NEW p \in Seq(UiOps), \A i \in 1..Len(p) : p[i].op \in QuietNames
  PROVE  p \in Quiet
<1>1. \A i \in 1..Len(p) : p[i] \notin LastOps /\ p[i] # Op("readRunning") /\ p[i] \notin Stops /\ p[i] \notin UnfreezeOps
  BY OtherOps DEF QuietNames, PlainNames
<1> QED
  BY <1>1 DEF Quiet, Inner, Has

LEMMA QuietParts ==
  /\ <<>> \in Quiet
  /\ DisarmBoth \in Quiet /\ ArmPcChange \in Quiet /\ DisarmPcChange \in Quiet /\ DisarmScanLoopExit \in Quiet
  /\ \A p \in PC : ArmScanLoopExit(p) \in Quiet
  /\ \A o \in Owners \union {"none"} : <<SetFrozen(TRUE, o)>> \in Quiet
  /\ \A v, w \in {"TRUE", "FALSE", "keep"} : <<SetArmed(v, w)>> \in Quiet
  /\ \A k \in StepKinds, g \in Nat : <<PostStep(k, g)>> \in Quiet
  /\ \A k \in SyncKinds : <<SyncOn(k)>> \in Quiet
  /\ \A f \in BOOLEAN : <<[op |-> "entered", freezeOnStart |-> f]>> \in Quiet
  /\ \A g \in Nat : <<[op |-> "onFrozenView", gen |-> g]>> \in Quiet
  /\ \A n \in PlainNames \cap QuietNames : <<Op(n)>> \in Quiet
  /\ Start \in Quiet /\ Pull \in Quiet /\ ApplyTraceFlags \in Quiet /\ ArmScanLoop \in Quiet
<1>1. <<>> \in Quiet
  BY EmptySeq DEF Quiet, Inner, Has
<1>2. DisarmBoth \in Quiet /\ ArmPcChange \in Quiet /\ DisarmPcChange \in Quiet /\ DisarmScanLoopExit \in Quiet
  <2>1. /\ \A i \in 1..Len(DisarmBoth) : DisarmBoth[i].op \in QuietNames
        /\ \A i \in 1..Len(ArmPcChange) : ArmPcChange[i].op \in QuietNames
        /\ \A i \in 1..Len(DisarmPcChange) : DisarmPcChange[i].op \in QuietNames
        /\ \A i \in 1..Len(DisarmScanLoopExit) : DisarmScanLoopExit[i].op \in QuietNames
    BY DEF QuietNames, DisarmBoth, ArmPcChange, DisarmPcChange, DisarmScanLoopExit, Store
  <2> QED
    BY <2>1, PartsTyped, QuietAll
<1>3. ASSUME NEW p \in PC PROVE ArmScanLoopExit(p) \in Quiet
  <2>1. \A i \in 1..Len(ArmScanLoopExit(p)) : ArmScanLoopExit(p)[i].op \in QuietNames
    BY DEF QuietNames, ArmScanLoopExit, Store
  <2> QED
    BY <2>1, PartsTyped, QuietAll
<1>4. \A o \in Owners \union {"none"} : <<SetFrozen(TRUE, o)>> \in Quiet
  <2>1. \A o \in Owners \union {"none"} : SetFrozen(TRUE, o) \in UiOps /\ SetFrozen(TRUE, o).op = "setFrozen" /\ SetFrozen(TRUE, o).frozen
    BY UiAtoms DEF SetFrozen
  <2> QED
    BY <2>1, QuietOne
<1>5. \A v, w \in {"TRUE", "FALSE", "keep"} : <<SetArmed(v, w)>> \in Quiet
  <2>1. \A v, w : SetArmed(v, w).op \in QuietNames
    BY DEF SetArmed, QuietNames
  <2> QED
    BY <2>1, UiAtoms, QuietOne
<1>6. /\ \A k \in StepKinds, g \in Nat : <<PostStep(k, g)>> \in Quiet
      /\ \A k \in SyncKinds : <<SyncOn(k)>> \in Quiet
  <2>1. \A k, g : PostStep(k, g).op \in QuietNames /\ SyncOn(k).op \in QuietNames
    BY DEF PostStep, SyncOn, QuietNames
  <2> QED
    BY <2>1, UiAtoms, QuietOne
<1>7. /\ \A f \in BOOLEAN : <<[op |-> "entered", freezeOnStart |-> f]>> \in Quiet
      /\ \A g \in Nat : <<[op |-> "onFrozenView", gen |-> g]>> \in Quiet
  <2>1. \A f : [op |-> "entered", freezeOnStart |-> f].op = "entered" /\ [op |-> "onFrozenView", gen |-> f].op \in QuietNames
    BY DEF QuietNames
  <2> QED
    BY <2>1, UiAtoms, QuietOne
<1>8. \A n \in PlainNames \cap QuietNames : <<Op(n)>> \in Quiet
  <2>1. \A n : Op(n).op = n
    BY DEF Op
  <2> QED
    BY <2>1, UiAtoms, QuietOne
<1>9. Start \in Quiet /\ Pull \in Quiet /\ ApplyTraceFlags \in Quiet /\ ArmScanLoop \in Quiet
  BY <1>8 DEF Start, Pull, ApplyTraceFlags, ArmScanLoop, PlainNames, QuietNames
<1> QED
  BY <1>1, <1>2, <1>3, <1>4, <1>5, <1>6, <1>7, <1>8, <1>9

LEMMA RevivingParts ==
  /\ Start \in Reviving /\ Has(Start, Starts)
  /\ \A f \in BOOLEAN : LET e == <<[op |-> "entered", freezeOnStart |-> f]>> IN e \in Reviving /\ Has(e, Starts)
  /\ Stop \in Inner /\ SetFrozenState(FALSE, "none") \in Inner
  /\ \A o \in Owners : SetFrozenState(TRUE, o) \in Quiet /\ Has(SetFrozenState(TRUE, o), Revivers)
  /\ ArmPc \in Quiet /\ DisarmPc \in Quiet /\ DisarmScanLoop \in Quiet
  /\ \A p \in PC : ArmScanLoopExit(p) \o <<SetArmed("FALSE", "TRUE")>> \o ApplyTraceFlags \in Quiet
<1>1. Start \in Reviving /\ Has(Start, Starts)
  <2>1. Op("start") \in UiOps /\ Op("start") \in Starts
    BY UiAtoms DEF PlainNames, Starts
  <2> QED
    BY <2>1, QuietParts, InnerConcat, OneOp DEF Start
<1>2. ASSUME NEW f \in BOOLEAN
      PROVE  LET e == <<[op |-> "entered", freezeOnStart |-> f]>> IN e \in Reviving /\ Has(e, Starts)
  <2>1. [op |-> "entered", freezeOnStart |-> f] \in UiOps /\ [op |-> "entered", freezeOnStart |-> f] \in Starts
    BY UiAtoms DEF Starts, EnteredOps
  <2> QED
    BY <2>1, QuietParts, InnerConcat, OneOp
<1>3. Stop \in Inner /\ <<SetFrozen(FALSE, "none")>> \in Inner
  <2>1. ASSUME NEW o \in UiOps, o \notin LastOps, o # Op("readRunning") PROVE <<o>> \in Inner
    BY <2>1, OneOp DEF Inner
  <2>2. Op("stop") \in UiOps /\ Op("stop") \notin LastOps /\ Op("stop") # Op("readRunning")
    BY UiAtoms DEF PlainNames, LastOps, Op
  <2>3. SetFrozen(FALSE, "none") \in UiOps /\ SetFrozen(FALSE, "none") \notin LastOps /\ SetFrozen(FALSE, "none") # Op("readRunning")
    BY UiAtoms DEF LastOps, Op, SetFrozen
  <2> QED
    BY <2>1, <2>2, <2>3 DEF Stop
<1>4. SetFrozenState(FALSE, "none") \in Inner
  <2>1. (IF FALSE THEN DisarmBoth ELSE <<>>) \in Inner /\ ApplyTraceFlags \in Inner
    BY QuietParts, InnerConcat
  <2> QED
    BY <1>3, <2>1, InnerConcat DEF SetFrozenState
<1>5. ASSUME NEW o \in Owners
      PROVE  SetFrozenState(TRUE, o) \in Quiet /\ Has(SetFrozenState(TRUE, o), Revivers)
  <2> DEFINE s == <<SetFrozen(TRUE, o)>>
  <2>1. s \in Quiet /\ DisarmBoth \in Quiet /\ ApplyTraceFlags \in Quiet
    BY QuietParts
  <2>2. SetFrozen(TRUE, o) \in UiOps /\ SetFrozen(TRUE, o) \in Revivers
    BY UiAtoms DEF Revivers, FreezeOps, SetFrozenOps, SetFrozen
  <2>3. Has(s, Revivers)
    BY <2>2, OneOp
  <2>4. SetFrozenState(TRUE, o) = DisarmBoth \o s \o ApplyTraceFlags
    BY DEF SetFrozenState
  <2> HIDE DEF s
  <2>5. DisarmBoth \o s \in Quiet /\ (DisarmBoth \o s) \o ApplyTraceFlags \in Quiet
    BY <2>1, InnerConcat
  <2>6. s \in Seq(UiOps) /\ DisarmBoth \in Seq(UiOps) /\ ApplyTraceFlags \in Seq(UiOps) /\ DisarmBoth \o s \in Seq(UiOps)
    BY <2>1, <2>5 DEF Quiet, Inner
  <2>7. Has((DisarmBoth \o s) \o ApplyTraceFlags, Revivers)
    <3>1. Has(DisarmBoth \o s, Revivers)
      BY <2>3, <2>6, Joined
    <3> QED
      BY <2>6, <3>1, Joined
  <2> QED
    BY <2>4, <2>5, <2>7
<1>6. ArmPc \in Quiet /\ DisarmPc \in Quiet /\ DisarmScanLoop \in Quiet
  BY QuietParts, InnerConcat DEF ArmPc, DisarmPc, DisarmScanLoop
<1>7. \A p \in PC : ArmScanLoopExit(p) \o <<SetArmed("FALSE", "TRUE")>> \o ApplyTraceFlags \in Quiet
  BY QuietParts, InnerConcat
<1> QED
  BY <1>1, <1>2, <1>3, <1>4, <1>5, <1>6, <1>7

LEMMA RevivingOperations ==
  /\ Freeze("Calculator") \in Reviving /\ Resume \in Reviving /\ SoftResetStopped \in Reviving
  /\ \A f \in BOOLEAN : RunAsm(f) \in Reviving
  /\ Stop \o <<SyncOn("applyReload")>> \o Start \in Reviving
  /\ FreezeInPlace("Cpu") \in Quiet /\ Has(FreezeInPlace("Cpu"), Revivers)
  /\ Stop \o ClearFreeze \o <<SyncOn("applyState")>> \o Start \in Reviving
<1>0. \A p, q \in Inner : p \o q \in Inner
  BY InnerConcat
<1>q. Quiet \subseteq Inner
  BY InnerConcat
<1>1. Freeze("Calculator") \in Reviving
  <2> DEFINE s == SetFrozenState(TRUE, "Calculator")
             r == <<Op("postFreeze")>>
  <2>1. s \in Quiet /\ Has(s, Revivers) /\ r \in Quiet
    BY RevivingParts, QuietParts DEF Owners, PlainNames, QuietNames
  <2>2. Freeze("Calculator") = Stop \o s \o r
    BY DEF Freeze
  <2> HIDE DEF s, r
  <2>3. Stop \in Inner /\ Stop \in Seq(UiOps) /\ s \in Reviving /\ s \in Seq(UiOps) /\ r \in Reviving
    BY <2>1, RevivingParts, InnerConcat, PlainParts DEF Quiet, Inner
  <2>4. Op("stop") \notin UnfreezeOps /\ Op("stop") \in UiOps
    BY UiAtoms DEF UnfreezeOps, SetFrozenOps, Op, PlainNames
  <2>5. Leads(Stop, UnfreezeOps, Starts)
    BY <2>4, OneOp DEF Stop
  <2>6. Leads(Stop \o s, UnfreezeOps, Starts) /\ Leads(Stop \o s, Stops, Revivers)
    BY <2>1, <2>3, <2>5, Joined DEF Reviving
  <2>7. Stop \o s \in Reviving
    BY <2>3, <2>6, InnerConcat DEF Reviving
  <2> QED
    BY <2>2, <2>3, <2>7, InnerConcat
<1>2. Resume \in Reviving
  BY RevivingParts, RevivedBy DEF Resume
<1>3. ASSUME NEW k \in SyncKinds
      PROVE  Stop \o <<SyncOn(k)>> \o Start \in Reviving
  <2>1. Stop \o <<SyncOn(k)>> \in Inner
    BY <1>0, <1>q, RevivingParts, QuietParts
  <2> QED
    BY <2>1, RevivingParts, RevivedBy
<1>4. SoftResetStopped \in Reviving /\ Stop \o <<SyncOn("applyReload")>> \o Start \in Reviving
  BY <1>3 DEF SoftResetStopped, SyncKinds
<1>5. ASSUME NEW f \in BOOLEAN
      PROVE  RunAsm(f) \in Reviving
  <2> DEFINE e == <<[op |-> "entered", freezeOnStart |-> f]>>
             p == Stop \o DisarmPc \o DisarmScanLoop \o ClearFreeze \o <<SyncOn("runAsmOverlay")>>
  <2>1. RunAsm(f) = p \o e \o Pull
    BY DEF RunAsm
  <2>2. p \in Inner
    <3>1. Stop \in Inner /\ DisarmPc \in Inner /\ DisarmScanLoop \in Inner /\ ClearFreeze \in Inner
          /\ <<SyncOn("runAsmOverlay")>> \in Inner
      BY <1>q, RevivingParts, QuietParts DEF SyncKinds, ClearFreeze
    <3> QED
      BY <1>0, <3>1
  <2>3. e \in Reviving /\ Has(e, Starts)
    BY RevivingParts
  <2> HIDE DEF e, p
  <2>4. p \o e \in Reviving
    BY <2>2, <2>3, RevivedBy
  <2> QED
    BY <2>1, <2>4, QuietParts, InnerConcat
<1>6. FreezeInPlace("Cpu") \in Quiet /\ Has(FreezeInPlace("Cpu"), Revivers)
  BY RevivingParts DEF FreezeInPlace, Owners
<1>7. Stop \o ClearFreeze \o <<SyncOn("applyState")>> \o Start \in Reviving
  <2>1. Stop \o ClearFreeze \o <<SyncOn("applyState")>> \in Inner
    BY <1>0, <1>q, RevivingParts, QuietParts DEF ClearFreeze, SyncKinds
  <2> QED
    BY <2>1, RevivingParts, RevivedBy
<1> QED
  BY <1>1, <1>2, <1>4, <1>5, <1>6, <1>7

(* An operation leaves no machine behind that nothing will start again.     *)
LEMMA RevivingProgram ==
  ASSUME NEW c \in Operations
  PROVE  /\ Leads(Program(c), UnfreezeOps, Starts)
         /\ Leads(Program(c), Stops, Revivers) \/ (c = "suspend" /\ ~Has(Program(c), UnfreezeOps))
         /\ IF c = "suspend" THEN Program(c) = <<Op("readRunning"), Op("stop")>> ELSE ~Has(Program(c), {Op("readRunning")})
         /\ Ends(Program(c), LastOps)
         /\ IF c = "resumeAfterSuspend" THEN Program(c) = <<Op("startIfSuspendedRunning")>>
            ELSE ~Has(Program(c), {Op("startIfSuspendedRunning")})
         /\ c # "failedSwitch" => ~Has(Program(c), {Op("startUnlessShownFrozen")})
<1> DEFINE R(p) == /\ Leads(p, UnfreezeOps, Starts) /\ Leads(p, Stops, Revivers) /\ ~Has(p, {Op("readRunning")})
                   /\ Ends(p, LastOps) /\ ~Has(p, {Op("startIfSuspendedRunning")})
                   /\ ~Has(p, {Op("startUnlessShownFrozen")})
<1>0. ASSUME NEW p \in Reviving PROVE R(p)
  <2>1. p \in Seq(UiOps) /\ ~Has(p, LastOps) /\ ~Has(p, {Op("readRunning")})
    BY DEF Reviving, Inner
  <2>2. Ends(p, LastOps)
    BY <2>1, Ended
  <2>3. ~Has(p, {Op("startIfSuspendedRunning")}) /\ ~Has(p, {Op("startUnlessShownFrozen")})
    BY <2>1 DEF Has, LastOps
  <2> QED
    BY <2>1, <2>2, <2>3 DEF Reviving
<1>1. CASE c \in {"freeze", "resume", "armPcChange", "armScanLoopExit", "disarm", "resetMachine", "applyState"}
  <2>1. Program(c) \in Reviving
    BY <1>1, RevivingOperations, RevivingParts, QuietParts, InnerConcat DEF Program
  <2> QED
    BY <1>0, <1>1, <2>1
<1>2. CASE c = "cleanReset"
  <2>1. <<Op("cleanReset")>> \in Quiet
    BY QuietParts DEF PlainNames, QuietNames
  <2>2. Program(c) \in Reviving
    BY <1>2, <2>1, RevivingOperations, QuietParts, InnerConcat DEF Program
  <2> QED
    BY <1>0, <1>2, <2>2
<1>3. CASE c \in {"stepKeycode", "stepInstruction"}
  <2>1. Program(c) \in Reviving
    BY <1>3, QuietParts, InnerConcat DEF Program, PlainNames, QuietNames
  <2> QED
    BY <1>0, <1>3, <2>1
<1>4. CASE c \in {"applyReload", "runAsm", "resumeAfterSuspend"}
  <2>1. PICK o \in LastOps : Program(c) = <<o>> /\ (o = Op("startIfSuspendedRunning") <=> c = "resumeAfterSuspend")
                           /\ o # Op("startUnlessShownFrozen")
    BY <1>4 DEF Program, LastOps, Op
  <2>2. o \in UiOps /\ o \notin UnfreezeOps /\ o \notin Stops /\ o # Op("readRunning")
    BY UiAtoms DEF LastOps, PlainNames, Stops, UnfreezeOps, SetFrozenOps, Op
  <2>3. /\ Leads(<<o>>, UnfreezeOps, Starts) /\ Leads(<<o>>, Stops, Revivers) /\ ~Has(<<o>>, {Op("readRunning")})
        /\ Has(<<o>>, {Op("startIfSuspendedRunning")}) <=> o = Op("startIfSuspendedRunning")
        /\ ~Has(<<o>>, {Op("startUnlessShownFrozen")})
    BY <2>1, <2>2, OneOp
  <2>4. Ends(<<o>>, LastOps)
    BY DEF Ends
  <2> QED
    BY <1>4, <2>1, <2>3, <2>4
<1>5. CASE c = "failedSwitch"
  <2> DEFINE p == Stop \o <<SyncOn("nothing")>>
             o == Op("startUnlessShownFrozen")
  <2>1. p \in Inner
    BY RevivingParts, QuietParts, InnerConcat DEF SyncKinds
  <2>2. /\ o \in UiOps /\ o \in LastOps /\ o \in Revivers /\ o \notin Stops /\ o \notin UnfreezeOps
        /\ o # Op("readRunning") /\ o # Op("startIfSuspendedRunning")
    BY UiAtoms DEF LastOps, Revivers, PlainNames, Stops, UnfreezeOps, SetFrozenOps, Op
  <2>3. ~Has(p, UnfreezeOps)
    <3>1. Op("stop") \in UiOps /\ Op("stop") \notin UnfreezeOps
      BY UiAtoms DEF UnfreezeOps, SetFrozenOps, Op, PlainNames
    <3>2. ~Has(Stop, UnfreezeOps) /\ Stop \in Seq(UiOps)
      BY <3>1, OneOp DEF Stop
    <3>3. ~Has(<<SyncOn("nothing")>>, UnfreezeOps) /\ <<SyncOn("nothing")>> \in Seq(UiOps)
      BY QuietParts DEF Quiet, Inner, SyncKinds
    <3> QED
      BY <3>2, <3>3, Joined
  <2>4. Program(c) = p \o <<o>>
    BY <1>5 DEF Program
  <2> HIDE DEF p, o
  <2>5. /\ <<o>> \in Seq(UiOps) /\ Has(<<o>>, Revivers) /\ Leads(<<o>>, Stops, Revivers) /\ Leads(<<o>>, UnfreezeOps, Starts)
        /\ ~Has(<<o>>, {Op("readRunning")}) /\ ~Has(<<o>>, {Op("startIfSuspendedRunning")}) /\ Ends(<<o>>, LastOps)
    <3>1. Ends(<<o>>, LastOps)
      BY DEF Ends
    <3> QED
      BY <2>2, <3>1, OneOp
  <2>6. p \in Seq(UiOps) /\ ~Has(p, LastOps) /\ ~Has(p, {Op("readRunning")}) /\ ~Has(p, {Op("startIfSuspendedRunning")})
    <3>1. p \in Seq(UiOps) /\ ~Has(p, LastOps) /\ ~Has(p, {Op("readRunning")})
      BY <2>1 DEF Inner
    <3>2. ~Has(p, {Op("startIfSuspendedRunning")})
      BY <3>1 DEF Has, LastOps
    <3> QED
      BY <3>1, <3>2
  <2>7. Leads(p, UnfreezeOps, Starts)
    BY <2>3 DEF Leads, Has
  <2>8. /\ Leads(p \o <<o>>, UnfreezeOps, Starts) /\ Leads(p \o <<o>>, Stops, Revivers)
        /\ ~Has(p \o <<o>>, {Op("readRunning")}) /\ ~Has(p \o <<o>>, {Op("startIfSuspendedRunning")})
    BY <2>5, <2>6, <2>7, Joined
  <2>9. Ends(p \o <<o>>, LastOps)
    BY <2>5, <2>6, Ended
  <2> QED
    BY <1>5, <2>4, <2>8, <2>9
<1>6. CASE c = "suspend"
  <2>1. Program(c) = <<Op("readRunning"), Op("stop")>>
    <3>1. <<Op("readRunning")>> \o <<Op("stop")>> = <<Op("readRunning"), Op("stop")>>
      BY UiAtoms, Pair DEF PlainNames
    <3>2. Program(c) = <<Op("readRunning")>> \o <<Op("stop")>>
      BY <1>6 DEF Program, Stop
    <3> QED
      BY <3>1, <3>2
  <2>2. \A i \in 1..2 : <<Op("readRunning"), Op("stop")>>[i] \notin LastOps \union UnfreezeOps
                              \union {Op("startIfSuspendedRunning"), Op("startUnlessShownFrozen")}
    BY DEF LastOps, UnfreezeOps, SetFrozenOps, Op
  <2>3. /\ Leads(Program(c), UnfreezeOps, Starts) /\ ~Has(Program(c), UnfreezeOps) /\ Ends(Program(c), LastOps)
        /\ ~Has(Program(c), {Op("startIfSuspendedRunning")}) /\ ~Has(Program(c), {Op("startUnlessShownFrozen")})
    BY <2>1, <2>2 DEF Leads, Has, Ends
  <2> QED
    BY <1>6, <2>1, <2>3
<1> QED
  BY <1>1, <1>2, <1>3, <1>4, <1>5, <1>6 DEF Operations, DebuggerCalls

KeptAlive == ThawShown /\ StopsAreRevived /\ Revived

(* A step of the UI thread that only adds quiet steps. *)
LEMMA UiKeepsStops ==
  ASSUME TodoOK, StopsAreRevived, todo["ui"] # <<>>, NEW q \in Quiet,
         todo'["ui"] = q \o Tail(todo["ui"]),
         Head(todo["ui"]) \notin LastOps, Head(todo["ui"]) # Op("readRunning"),
         Head(todo["ui"]) # Op("stop") \/ q = <<>>, suspended' = suspended,
         state.frozen => state'.frozen \/ Head(todo["ui"]) \in UnfreezeOps
  PROVE  StopsAreRevived'
<1> DEFINE ui == todo["ui"]
           r == Tail(todo["ui"])
<1>1. ui \in Seq(UiOps) /\ ui # <<>> /\ r \in Seq(UiOps) /\ q \in Seq(UiOps) /\ Head(ui) \in UiOps
  BY HeadAndTail DEF TodoOK, Quiet, Inner
<1>2. ~Has(q, UnfreezeOps) /\ ~Has(q, Stops) /\ ~Has(q, LastOps) /\ ~Has(q, {Op("readRunning")})
      /\ ~Has(q, {Op("startIfSuspendedRunning")})
  BY DEF Quiet, Inner, Has, LastOps
<1>3. todo'["ui"] = q \o r
  OBVIOUS
<1>4. Head(ui) \notin LastOps /\ Head(ui) # Op("readRunning")
  OBVIOUS
<1>5. ~Has(ui, {Op("readRunning")})
  <2>1. Suspending => Head(ui) = Op("readRunning")
    BY DEF Suspending
  <2> QED
    BY <1>4, <2>1 DEF StopsAreRevived
<1>6. ~Suspending
  BY <1>4 DEF Suspending
<1>a. ASSUME NEW A PROVE Has(r, A) => Has(ui, A)
  BY <1>1, Begun
<1>b. ASSUME NEW A, ~Has(q, A) PROVE Has(q \o r, A) => Has(ui, A)
  <2>1. Has(q \o r, A) <=> Has(q, A) \/ Has(r, A)
    BY <1>1, Joined
  <2> QED
    BY <1>a, <1>b, <2>1
<1>c. ASSUME NEW A, NEW B, ~Has(q, A), Leads(ui, A, B) PROVE Leads(q \o r, A, B)
  <2>1. Leads(r, A, B)
    BY <1>1, <1>c, Begun
  <2>2. Leads(q, A, B)
    BY <1>c DEF Leads, Has
  <2> QED
    BY <1>1, <2>1, <2>2, Joined
<1> HIDE DEF ui, r
<1>7. Leads(q \o r, UnfreezeOps, Starts)
  BY <1>2, <1>c DEF StopsAreRevived, ui
<1>8. Leads(q \o r, Stops, Revivers) \/ ((state'.frozen \/ suspended') /\ ~Has(q \o r, UnfreezeOps))
  <2>1. CASE Leads(ui, Stops, Revivers)
    BY <1>2, <1>c, <2>1
  <2>2. CASE (state.frozen \/ suspended \/ Suspending) /\ ~Has(ui, UnfreezeOps)
    <3>1. Head(ui) \notin UnfreezeOps
      BY <1>1, <2>2, Begun
    <3> QED
      BY <1>2, <1>b, <1>6, <2>2, <3>1 DEF ui
  <2> QED
    BY <2>1, <2>2 DEF StopsAreRevived, ui
<1>9. ~Has(q \o r, {Op("readRunning")})
  BY <1>2, <1>5, <1>b
<1>10. Ends(q \o r, LastOps)
  <2>1. Ends(r, LastOps)
    BY <1>1, Ended DEF StopsAreRevived, ui, r
  <2> QED
    BY <1>1, <1>2, <2>1, Ended
<1>11. suspended => q \o r = <<>>
  <2> SUFFICES ASSUME suspended PROVE q \o r = <<>>
    OBVIOUS
  <2>1. ui \in {<<Op("stop")>>, <<Op("startIfSuspendedRunning")>>}
    BY <1>1 DEF StopsAreRevived, ui
  <2>2. ui = <<Op("stop")>>
    BY <1>4, <2>1 DEF LastOps
  <2>3. q = <<>> /\ r = <<>>
    BY <2>2 DEF ui, r
  <2> QED
    BY <2>3
<1>12. Has(q \o r, {Op("startIfSuspendedRunning")}) => suspended
  BY <1>2, <1>b DEF StopsAreRevived, ui
<1> QED
  BY <1>3, <1>7, <1>8, <1>9, <1>10, <1>11, <1>12 DEF StopsAreRevived

(* Such a step that neither revives nor stops the machine. *)
LEMMA UiKeepsAlive ==
  ASSUME TodoOK, KeptAlive, todo["ui"] # <<>>, NEW q \in Quiet,
         todo'["ui"] = q \o Tail(todo["ui"]), todo'["emu"] = todo["emu"],
         Head(todo["ui"]) \notin LastOps \union {Op("readRunning"), Op("stop"), Op("pull")} \union Revivers,
         UNCHANGED <<running, mirror, suspended, suspendedRunning>>, state'.frozen = state.frozen,
         asmFailed => asmFailed'
  PROVE  KeptAlive'
<1>1. todo["ui"] \in Seq(UiOps) /\ Tail(todo["ui"]) \in Seq(UiOps) /\ q \in Seq(UiOps)
  BY HeadAndTail DEF TodoOK, Quiet, Inner
<1>2. ASSUME NEW A, Head(todo["ui"]) \notin A PROVE Has(todo["ui"], A) => Has(todo'["ui"], A)
  <2>1. Has(todo["ui"], A) => Has(Tail(todo["ui"]), A)
    BY <1>1, <1>2, Begun
  <2>2. Has(q \o Tail(todo["ui"]), A) <=> Has(q, A) \/ Has(Tail(todo["ui"]), A)
    BY <1>1, Joined
  <2> QED
    BY <2>1, <2>2
<1>3. StopsAreRevived'
  BY UiKeepsStops DEF KeptAlive
<1>4. (Has(todo["ui"], Pulls) => Has(todo'["ui"], Pulls)) /\ (Has(todo["ui"], Revivers) => Has(todo'["ui"], Revivers))
  BY <1>2 DEF Pulls
<1>5. ThawShown'
  BY <1>4 DEF KeptAlive, ThawShown
<1>6. Revived'
  BY <1>4 DEF KeptAlive, Revived
<1> QED
  BY <1>3, <1>5, <1>6 DEF KeptAlive

(* The panels' copy and the machine are revived by what the emulation       *)
(* thread is still to do.                                                   *)
LEMMA EmuKeepsAlive ==
  ASSUME KeptAlive, todo'["ui"] = todo["ui"], UNCHANGED <<mirror, suspended, suspendedRunning, asmFailed>>,
         state'.frozen \/ (state'.frozen = state.frozen /\ running' = running
                           /\ (Has(todo["emu"], FreezeOps) => Has(todo'["emu"], FreezeOps)))
  PROVE  KeptAlive'
<1>1. state.frozen => state'.frozen
  OBVIOUS
<1>2. StopsAreRevived'
  BY <1>1 DEF KeptAlive, StopsAreRevived, Suspending
<1>3. ThawShown'
  BY <1>1 DEF KeptAlive, ThawShown
<1>4. Revived'
  BY DEF KeptAlive, Revived
<1> QED
  BY <1>2, <1>3, <1>4 DEF KeptAlive

(* The names of the steps that stop, revive or look. *)
TurningNames == {"readFrozen", "readArmed", "startUnlessShownFrozen", "startIfSuspendedRunning", "readRunning",
            "stop", "pull", "start", "entered", "setFrozen"}

LEMMA LockedKeepsAlive ==
  ASSUME TodoOK, StateOK, KeptAlive, MirrorDue, SetFrozenLocked("ui"),
         UNCHANGED <<running, mirror, suspended, suspendedRunning, asmFailed>>
  PROVE  KeptAlive'
<1> DEFINE ui == todo["ui"]
           s == Stamped(todo["ui"], state.generation + 1)
           r == Tail(todo["ui"])
           h == Head(todo["ui"])
<1>1. /\ todo'["ui"] = s /\ todo'["emu"] = todo["emu"] /\ ui # <<>> /\ h \in SetFrozenOps
      /\ state.generation + 1 \in Nat /\ state'.frozen = h.frozen /\ ui \in Seq(UiOps)
  <2>1. "ui" \in Threads /\ "emu" \in Threads \ {"ui"}
    BY DEF Threads
  <2>2. /\ todo'["ui"] = s /\ todo["ui"] # <<>> /\ h \in SetFrozenOps /\ state'.frozen = h.frozen /\ state.generation \in Nat
        /\ \A u \in Threads \ {"ui"} : todo'[u] = todo[u]
    BY <2>1, Locked
  <2> QED
    BY <2>1, <2>2 DEF TodoOK
<1>2. \A o \in UiOps : Stamp(o, state.generation + 1) \in UiOps
  BY <1>1, StampTyped
<1>3. /\ Unstamped(UiOps, Pulls, state.generation + 1) /\ Unstamped(UiOps, UnfreezeOps, state.generation + 1)
      /\ Unstamped(UiOps, Starts, state.generation + 1) /\ Unstamped(UiOps, Stops, state.generation + 1)
      /\ Unstamped(UiOps, Revivers, state.generation + 1) /\ Unstamped(UiOps, LastOps, state.generation + 1)
      /\ Unstamped(UiOps, {Op("readRunning")}, state.generation + 1)
      /\ Unstamped(UiOps, {Op("startIfSuspendedRunning")}, state.generation + 1)
  BY DEF Unstamped, Stamp, Pulls, UnfreezeOps, FreezeOps, Starts, Stops, Revivers, LastOps, SetFrozenOps, EnteredOps, PostStep, Op
<1>4. ASSUME NEW A, Unstamped(UiOps, A, state.generation + 1)
      PROVE  Has(s, A) <=> Has(r, A)
  BY <1>1, <1>2, <1>4, StampedTail
<1>5. /\ Leads(s, UnfreezeOps, Starts) <=> Leads(r, UnfreezeOps, Starts)
      /\ Leads(s, Stops, Revivers) <=> Leads(r, Stops, Revivers)
  BY <1>1, <1>2, <1>3, StampedTail
<1>6. h \notin LastOps \union {Op("readRunning"), Op("stop"), Op("startIfSuspendedRunning")} \union Pulls
  BY <1>1 DEF SetFrozenOps, LastOps, Pulls, Op
<1>7. ~suspended /\ ~Suspending
  <2>1. Suspending => h = Op("readRunning")
    BY DEF Suspending
  <2>2. suspended => h \in {Op("stop"), Op("startIfSuspendedRunning")}
    BY <1>1 DEF KeptAlive, StopsAreRevived
  <2> QED
    BY <1>6, <2>1, <2>2
<1>8. ASSUME NEW A PROVE Has(r, A) => Has(ui, A)
  BY <1>1, Begun
<1>9. Ends(s, LastOps)
  <2>1. Ends(r, LastOps)
    BY <1>1, Ended DEF KeptAlive, StopsAreRevived
  <2>2. s \in Seq(UiOps) /\ Len(s) = Len(r)
    BY <1>1, <1>2, StampedSeq, StampedLen
  <2>3. \A i \in 1..Len(r) : s[i] \in LastOps <=> r[i] \in LastOps
    BY <1>1, <1>2, <1>3, StampedLen DEF Unstamped
  <2> QED
    BY <2>1, <2>2, <2>3 DEF Ends
<1>10. h \in FreezeOps \/ h \in UnfreezeOps
  BY <1>1 DEF FreezeOps, UnfreezeOps
<1>11. state'.frozen <=> h \in FreezeOps
  BY <1>1, <1>10 DEF FreezeOps, UnfreezeOps
<1>12. ThawShown'
  <2>1. h \in WillChange
    BY <1>1 DEF WillChange, Changes
  <2>2. Has(r, Pulls)
    BY <1>1, <2>1, Begun DEF MirrorDue
  <2> QED
    BY <1>1, <1>3, <1>4, <2>2 DEF ThawShown
<1>13. /\ Leads(r, UnfreezeOps, Starts) /\ (h \in UnfreezeOps => Has(r, Starts))
       /\ Leads(ui, Stops, Revivers) => Leads(r, Stops, Revivers)
  BY <1>1, Begun DEF KeptAlive, StopsAreRevived
<1> HIDE DEF ui, s, r, h
<1>14. Leads(r, Stops, Revivers) \/ (state'.frozen /\ ~Has(r, UnfreezeOps))
  <2>1. CASE Leads(ui, Stops, Revivers)
    BY <1>13, <2>1
  <2>2. CASE ~Has(ui, UnfreezeOps)
    <3>1. h \notin UnfreezeOps
      BY <1>1, <2>2, Begun DEF ui, h
    <3> QED
      BY <1>8, <1>10, <1>11, <2>2, <3>1
  <2> QED
    BY <2>1, <2>2 DEF KeptAlive, StopsAreRevived, ui
<1>15. StopsAreRevived'
  <2>1. ~Has(s, {Op("readRunning")}) /\ ~Has(s, {Op("startIfSuspendedRunning")})
    BY <1>3, <1>4, <1>7, <1>8 DEF KeptAlive, StopsAreRevived, ui
  <2>2. Has(s, UnfreezeOps) <=> Has(r, UnfreezeOps)
    BY <1>3, <1>4
  <2> QED
    BY <1>1, <1>5, <1>7, <1>9, <1>13, <1>14, <2>1, <2>2 DEF StopsAreRevived
<1>16. Revived'
  <2>1. h \in UnfreezeOps => Has(s, Revivers)
    <3>1. Has(r, Starts) => Has(r, Revivers)
      BY DEF Has, Revivers
    <3> QED
      BY <1>3, <1>4, <1>13, <3>1
  <2> QED
    BY <1>1, <1>7, <1>10, <1>11, <2>1 DEF Revived
<1> QED
  BY <1>12, <1>15, <1>16 DEF KeptAlive

LEMMA TurningOps ==
  \A o \in LastOps \union {Op("readRunning"), Op("stop"), Op("pull")} \union Revivers : o.op \in TurningNames
  BY DEF LastOps, Revivers, Starts, EnteredOps, FreezeOps, SetFrozenOps, TurningNames, Op

LEMMA UiAlive ==
  ASSUME TypeOK, MirrorDue, KeptAlive, UiThread
  PROVE  KeptAlive'
<1> DEFINE ui == todo["ui"]
           r == Tail(todo["ui"])
           h == Head(todo["ui"])
<1>0. TodoOK /\ StateOK /\ RunnerOK /\ ControllerOK /\ FreezeTypeOK
  BY DEF TypeOK
<1>q. <<>> \in Quiet /\ <<>> \in Seq(UiOps) /\ Quiet \subseteq Seq(UiOps)
  BY QuietParts DEF Quiet, Inner
<1>e. \A p \in Seq(UiOps) : <<>> \o p = p /\ p \o <<>> = p
  BY ConcatEmptySeq
<1>f. \A A : ~Has(<<>>, A)
  BY DEF Has
<1>1. ASSUME NEW n, n \notin TurningNames, Next1("ui", n), NEW q \in Quiet, Replace("ui", q),
             UNCHANGED <<state, running, mirror, suspended, suspendedRunning>>, asmFailed => asmFailed'
      PROVE  KeptAlive'
  <2>1. h \notin LastOps \union {Op("readRunning"), Op("stop"), Op("pull")} \union Revivers
    BY <1>1, TurningOps DEF Next1
  <2>2. todo'["ui"] = q \o r /\ todo'["emu"] = todo["emu"] /\ ui # <<>>
    BY <1>0, <1>1, <1>q, UiReplaced DEF Next1
  <2> QED
    BY <1>0, <1>1, <2>1, <2>2, UiKeepsAlive
<1>2. ASSUME NEW n, n \notin TurningNames, Next1("ui", n), Done("ui"),
             UNCHANGED <<state, running, mirror, suspended, suspendedRunning>>, asmFailed => asmFailed'
      PROVE  KeptAlive'
  <2>1. h \notin LastOps \union {Op("readRunning"), Op("stop"), Op("pull")} \union Revivers
    BY <1>2, TurningOps DEF Next1
  <2>2. todo'["ui"] = r /\ todo'["emu"] = todo["emu"] /\ ui # <<>> /\ r \in Seq(UiOps)
    BY <1>0, <1>2, UiDone, HeadAndTail DEF Next1, TodoOK
  <2>3. todo'["ui"] = <<>> \o r
    BY <1>e, <2>2
  <2> QED
    BY <1>0, <1>2, <1>q, <2>1, <2>2, <2>3, UiKeepsAlive
<1>3. ASSUME SessionOp, ~Next1("ui", "start") PROVE UNCHANGED <<mirror, suspended, suspendedRunning>> /\ (asmFailed => asmFailed')
  BY <1>3 DEF SessionOp
<1>n. ASSUME NEW n, n # "start", Next1("ui", n) PROVE ~Next1("ui", "start")
  BY <1>n DEF Next1
<1>4. CASE SessionOp /\ (StoreFlag("ui") \/ PostLoop("ui") \/ PostJob("ui") \/ RefreshTraceFlags("ui"))
  <2>1. PICK n \in {"store", "postLoop", "post", "applyTraceFlags"} : Next1("ui", n) /\ Done("ui") /\ UNCHANGED <<state, running>>
    BY <1>4 DEF StoreFlag, PostLoop, PostJob, RefreshTraceFlags, emuVars
  <2>2. n \notin TurningNames /\ n # "start"
    BY <2>1 DEF TurningNames
  <2> QED
    BY <1>2, <1>3, <1>4, <1>n, <2>1, <2>2
<1>5. CASE SessionOp /\ SetArmedLocked("ui")
  <2>1. Next1("ui", "setArmed") /\ Done("ui") /\ UNCHANGED running /\ state'.frozen = state.frozen
    BY <1>0, <1>5 DEF SetArmedLocked, emuVars, StateOK, DebugStates
  <2>2. h \notin LastOps \union {Op("readRunning"), Op("stop"), Op("pull")} \union Revivers
    BY <2>1, TurningOps DEF Next1, TurningNames
  <2>3. todo'["ui"] = r /\ todo'["emu"] = todo["emu"] /\ ui # <<>> /\ r \in Seq(UiOps)
    BY <1>0, <2>1, UiDone, HeadAndTail DEF Next1, TodoOK
  <2>4. todo'["ui"] = <<>> \o r
    BY <1>e, <2>3
  <2>5. UNCHANGED <<mirror, suspended, suspendedRunning>> /\ (asmFailed => asmFailed')
    BY <1>3, <1>5, <1>n, <2>1
  <2> QED
    BY <1>0, <1>q, <2>1, <2>2, <2>3, <2>4, <2>5, UiKeepsAlive
<1>6. CASE CleanReset \/ OnFrozenView \/ BuildView
  <2>1. PICK n \in {"cleanReset", "onFrozenView", "buildView"} :
          Next1("ui", n) /\ Done("ui") /\ UNCHANGED <<state, running, mirror, suspended, suspendedRunning, asmFailed>>
    BY <1>6 DEF CleanReset, OnFrozenView, BuildView, controllerVars, emuVars
  <2>2. n \notin TurningNames
    BY <2>1 DEF TurningNames
  <2> QED
    BY <1>2, <2>1, <2>2
<1>7. CASE SessionOp /\ SetFrozenLocked("ui")
  <2>1. ~Next1("ui", "start")
    BY <1>7, <1>n DEF SetFrozenLocked
  <2>2. UNCHANGED <<running, mirror, suspended, suspendedRunning, asmFailed>>
    BY <1>0, <1>7, <2>1 DEF SetFrozenLocked, SessionOp, emuVars, ControllerOK
  <2> QED
    BY <1>0, <1>7, <2>2, LockedKeepsAlive
<1>8. CASE SessionOp /\ ReadPc("ui")
  <2>1. ArmScanLoopExit(pc) \o <<SetArmed("FALSE", "TRUE")>> \o ApplyTraceFlags \in Quiet
    BY <1>0, RevivingParts DEF FreezeTypeOK
  <2>2. "readPc" \notin TurningNames
    BY DEF TurningNames
  <2> QED
    BY <1>1, <1>3, <1>8, <1>n, <2>1, <2>2 DEF ReadPc, emuVars
<1>9. CASE SessionOp /\ PostSync("ui")
  <2>1. <<Op("await")>> \in Quiet
    BY QuietParts DEF PlainNames, QuietNames
  <2>2. "sync" \notin TurningNames
    BY DEF TurningNames
  <2> QED
    BY <1>1, <1>3, <1>9, <1>n, <2>1, <2>2 DEF PostSync
<1>10. ASSUME NEW k \in {"stepKeycode", "stepInstruction"}, SessionOp, PostStepIfFrozen("ui", k) PROVE KeptAlive'
  <2>1. (IF state.frozen THEN <<PostStep(k, state.generation)>> ELSE <<>>) \in Quiet
    BY <1>0, QuietParts DEF StepKinds, StateOK, DebugStates
  <2>2. k \notin TurningNames /\ k # "start"
    BY DEF TurningNames
  <2> QED
    BY <1>1, <1>3, <1>10, <1>n, <2>1, <2>2 DEF PostStepIfFrozen, emuVars
<1>11. ~BeginNextStep("ui") /\ ~Raise("ui")
  <2>1. ASSUME NEW n \in {"beginNextStep", "debugStateChanged", "frozenView"}, Next1("ui", n) PROVE FALSE
    BY <1>0, <2>1, UiNext, UiHead DEF PlainNames
  <2> QED
    BY <2>1 DEF BeginNextStep, Raise
<1>12. CASE PullDebugState
  <2>1. /\ h = Op("pull") /\ ui # <<>> /\ todo'["ui"] = r /\ todo'["emu"] = todo["emu"] /\ r \in Seq(UiOps) /\ ui \in Seq(UiOps)
        /\ UNCHANGED <<state, running, suspended, suspendedRunning, asmFailed>> /\ mirror' = state
    BY <1>0, <1>12, UiNext, UiHead, UiDone, HeadAndTail DEF PullDebugState, Next1, PlainNames, TodoOK, emuVars
  <2>2. h \notin LastOps /\ h # Op("readRunning") /\ h \notin Revivers /\ todo'["ui"] = <<>> \o r /\ h # Op("stop")
    BY <1>e, <2>1 DEF LastOps, Revivers, Starts, EnteredOps, FreezeOps, SetFrozenOps, Op
  <2>3. StopsAreRevived'
    BY <1>0, <1>q, <2>1, <2>2, UiKeepsStops DEF KeptAlive
  <2>4. Has(ui, Revivers) => Has(r, Revivers)
    BY <2>1, <2>2, Begun
  <2> QED
    BY <2>1, <2>3, <2>4 DEF KeptAlive, ThawShown, Revived
<1>13. CASE SessionOp /\ StopLoop("ui")
  <2>1. /\ h = Op("stop") /\ ui # <<>> /\ todo'["ui"] = r /\ todo'["emu"] = todo["emu"] /\ r \in Seq(UiOps) /\ ui \in Seq(UiOps)
        /\ UNCHANGED <<state, mirror, suspended, suspendedRunning>> /\ running' = FALSE
    BY <1>0, <1>13, UiNext, UiHead, UiDone, HeadAndTail DEF StopLoop, SessionOp, Next1, PlainNames, TodoOK
  <2>2. asmFailed' = asmFailed
    BY <1>0, <1>13, <1>n DEF StopLoop, SessionOp, ControllerOK
  <2>3. h \notin LastOps /\ h # Op("readRunning") /\ h \notin Revivers /\ h \notin Pulls /\ h \in Stops /\ todo'["ui"] = <<>> \o r
    BY <1>e, <2>1 DEF LastOps, Revivers, Starts, EnteredOps, FreezeOps, SetFrozenOps, Op, Pulls, Stops
  <2>4. StopsAreRevived'
    BY <1>0, <1>q, <2>1, <2>3, UiKeepsStops DEF KeptAlive
  <2>5. (Has(ui, Pulls) => Has(r, Pulls)) /\ (Leads(ui, Stops, Revivers) => Has(r, Revivers))
    BY <2>1, <2>3, Begun
  <2>6. ~Suspending
    BY <2>1 DEF Suspending, Op
  <2>7. state.frozen \/ suspended \/ Has(r, Revivers)
    BY <2>5, <2>6 DEF KeptAlive, StopsAreRevived
  <2> QED
    BY <2>1, <2>2, <2>4, <2>5, <2>7 DEF KeptAlive, ThawShown, Revived
<1>14. CASE SessionOp /\ StartLoop("ui")
  <2> DEFINE q == IF running THEN <<>> ELSE <<Op("postLoop")>>
  <2>1. q \in Quiet
    BY <1>0, QuietParts DEF PlainNames, QuietNames, RunnerOK
  <2>2. h = Op("start") /\ ui # <<>> /\ ui \in Seq(UiOps) /\ running' = TRUE /\ UNCHANGED <<state, mirror, suspended, suspendedRunning>>
    BY <1>0, <1>14, UiNext, UiHead DEF StartLoop, SessionOp, PlainNames
  <2>3. Replace("ui", q)
    BY <1>14 DEF StartLoop
  <2> HIDE DEF q
  <2>4. todo'["ui"] = q \o r /\ todo'["emu"] = todo["emu"] /\ q \in Seq(UiOps) /\ r \in Seq(UiOps)
    BY <1>0, <1>q, <2>1, <2>2, <2>3, UiReplaced, HeadAndTail
  <2>5. h \notin LastOps /\ h # Op("readRunning") /\ h \notin Pulls /\ h # Op("stop")
    BY <2>2 DEF LastOps, Op, Pulls
  <2>6. StopsAreRevived'
    BY <1>0, <2>1, <2>2, <2>4, <2>5, UiKeepsStops DEF KeptAlive
  <2>7. Has(ui, Pulls) => Has(q \o r, Pulls)
    <3>1. Has(q \o r, Pulls) <=> Has(q, Pulls) \/ Has(r, Pulls)
      BY <2>4, Joined
    <3>2. Has(ui, Pulls) => Has(r, Pulls)
      BY <2>2, <2>5, Begun
    <3> QED
      BY <3>1, <3>2
  <2>8. ~suspended
    BY <2>2, <2>5 DEF KeptAlive, StopsAreRevived, LastOps
  <2> QED
    BY <2>2, <2>4, <2>6, <2>7, <2>8 DEF KeptAlive, ThawShown, Revived
<1>15. ASSUME NEW q \in Inner, q \in Reviving \/ (state.frozen /\ ~Has(q, UnfreezeOps)), NEW o \in LastOps, h = o, ui # <<>>, Replace("ui", q),
              UNCHANGED <<state, mirror, running, asmFailed>>,
              suspended => o = Op("startIfSuspendedRunning"), ~suspended',
              Has(q, Revivers) \/ running \/ state.frozen \/ asmFailed \/ Has(todo["emu"], FreezeOps)
       PROVE  KeptAlive'
  <2>1. ui \in Seq(UiOps) /\ r = <<>>
    BY <1>0, <1>15, Ended DEF TodoOK, KeptAlive, StopsAreRevived
  <2>2. q \in Seq(UiOps) /\ q \in Inner
    BY InnerConcat
  <2>3. todo'["ui"] = q /\ todo'["emu"] = todo["emu"]
    BY <1>0, <1>15, <1>e, <2>1, <2>2, UiReplaced
  <2>4. ~Has(q, LastOps) /\ ~Has(q, {Op("readRunning")}) /\ ~Has(q, {Op("startIfSuspendedRunning")})
    BY <2>2 DEF Inner, Has, LastOps
  <2>9. Leads(q, UnfreezeOps, Starts) /\ (Leads(q, Stops, Revivers) \/ (state.frozen /\ ~Has(q, UnfreezeOps)))
    BY <1>15 DEF Reviving, Leads, Has
  <2>5. Ends(q, LastOps)
    BY <2>2, <2>4, Ended
  <2>6. StopsAreRevived'
    BY <1>15, <2>3, <2>4, <2>5, <2>9 DEF StopsAreRevived
  <2>7. ThawShown'
    <3>1. ~Has(ui, Pulls)
      <4>1. Has(ui, Pulls) => h \in Pulls \/ Has(r, Pulls)
        BY <1>15, <2>1, Begun
      <4>2. h \notin Pulls
        BY <1>15 DEF LastOps, Pulls, Op
      <4> QED
        BY <2>1, <4>1, <4>2 DEF Has
    <3> QED
      BY <1>15, <3>1 DEF KeptAlive, ThawShown
  <2>8. Revived'
    BY <1>15, <2>3 DEF Revived
  <2> QED
    BY <2>6, <2>7, <2>8 DEF KeptAlive
<1>a. ASSUME NEW o \in LastOps, h = o, ui # <<>>, o # Op("startIfSuspendedRunning"), o # Op("startUnlessShownFrozen")
      PROVE  ~suspended /\ (running \/ state.frozen \/ asmFailed \/ Has(todo["emu"], FreezeOps))
  <2>1. ~suspended
    BY <1>a DEF KeptAlive, StopsAreRevived, LastOps, Op
  <2>2. ui \in Seq(UiOps) /\ r = <<>>
    BY <1>0, <1>a, Ended DEF TodoOK, KeptAlive, StopsAreRevived
  <2>3. h \notin Revivers
    BY <1>a DEF LastOps, Op, Revivers, Starts, EnteredOps, FreezeOps, SetFrozenOps
  <2>4. Has(ui, Revivers) <=> h \in Revivers \/ Has(r, Revivers)
    BY <1>a, <2>2, Begun
  <2>5. ~Has(ui, Revivers)
    BY <1>f, <2>2, <2>3, <2>4
  <2> QED
    BY <2>1, <2>5 DEF KeptAlive, Revived
<1>c. ASSUME NEW n, Next1("ui", n), Op(n) \in LastOps PROVE h = Op(n) /\ ui # <<>>
  <2>1. n \in PlainNames
    BY <1>c DEF LastOps, Op, PlainNames
  <2> QED
    BY <1>0, <1>c, <2>1, UiNext, UiHead
<1>16. CASE ReadArmed
  <2>1. state.scanLoopExitArmed \in BOOLEAN
    BY <1>0 DEF StateOK, DebugStates
  <2>2. RunAsm(state.scanLoopExitArmed) \in Reviving
    BY <2>1, RevivingOperations
  <2>3. Op("readArmed") \in LastOps /\ Op("readArmed") # Op("startIfSuspendedRunning") /\ Op("readArmed") # Op("startUnlessShownFrozen")
    BY DEF LastOps, Op
  <2>4. h = Op("readArmed") /\ ui # <<>>
    BY <1>16, <1>c, <2>3 DEF ReadArmed
  <2>5. ~suspended /\ (running \/ state.frozen \/ asmFailed \/ Has(todo["emu"], FreezeOps))
    BY <1>a, <2>3, <2>4
  <2>6. Replace("ui", RunAsm(state.scanLoopExitArmed)) /\ UNCHANGED <<state, mirror, running, asmFailed, suspended>>
    BY <1>16 DEF ReadArmed, controllerVars, emuVars
  <2> QED
    BY <1>15, <2>2, <2>3, <2>4, <2>5, <2>6, InnerConcat
<1>17. CASE StartUnlessShownFrozen
  <2> DEFINE q == IF mirror.frozen THEN <<>> ELSE Start
             o == Op("startUnlessShownFrozen")
  <2>1. q \in Reviving /\ (~mirror.frozen => Has(q, Revivers))
    <3>1. Has(Start, Starts) => Has(Start, Revivers)
      BY DEF Has, Revivers
    <3> QED
      BY <1>0, <1>q, <3>1, RevivingParts, InnerConcat DEF ControllerOK, DebugStates
  <2>2. o \in LastOps /\ o # Op("startIfSuspendedRunning") /\ o \notin Pulls
    BY DEF LastOps, Op, Pulls
  <2>3. h = o /\ ui # <<>>
    BY <1>17, <1>c, <2>2 DEF StartUnlessShownFrozen
  <2>4. ~suspended
    BY <2>2, <2>3 DEF KeptAlive, StopsAreRevived, LastOps, Op
  <2>5. mirror.frozen => state.frozen
    <3>1. ui \in Seq(UiOps) /\ r = <<>>
      BY <1>0, <2>2, <2>3, Ended DEF TodoOK, KeptAlive, StopsAreRevived
    <3>2. Has(ui, Pulls) => h \in Pulls \/ Has(r, Pulls)
      BY <2>3, <3>1, Begun
    <3>3. ~Has(ui, Pulls)
      BY <1>f, <2>2, <2>3, <3>1, <3>2
    <3> QED
      BY <3>3 DEF KeptAlive, ThawShown
  <2>6. Replace("ui", q) /\ UNCHANGED <<state, mirror, running, asmFailed, suspended>>
    BY <1>17 DEF StartUnlessShownFrozen, controllerVars, emuVars
  <2> HIDE DEF q, o
  <2> QED
    BY <1>0, <1>15, <2>1, <2>2, <2>3, <2>4, <2>5, <2>6, InnerConcat DEF ControllerOK, DebugStates
<1>18. CASE StartIfSuspendedRunning
  <2> DEFINE q == IF suspendedRunning THEN Start ELSE <<>>
             o == Op("startIfSuspendedRunning")
  <2>1. q \in Reviving /\ (suspendedRunning => Has(q, Revivers))
    <3>1. Has(Start, Starts) => Has(Start, Revivers)
      BY DEF Has, Revivers
    <3> QED
      BY <1>0, <1>q, <3>1, RevivingParts, InnerConcat DEF ControllerOK
  <2>2. o \in LastOps
    BY DEF LastOps
  <2>3. h = o /\ ui # <<>>
    BY <1>18, <1>c, <2>2 DEF StartIfSuspendedRunning
  <2>4. suspended
    <3>1. ui \in Seq(UiOps) /\ Head(ui) \in {o}
      BY <1>0, <2>3 DEF TodoOK
    <3>2. Has(ui, {o})
      BY <2>3, <3>1, Begun
    <3> QED
      BY <3>2 DEF KeptAlive, StopsAreRevived
  <2>5. ~suspendedRunning => state.frozen \/ asmFailed \/ Has(todo["emu"], FreezeOps)
    BY <2>4 DEF KeptAlive, Revived
  <2>6. Replace("ui", q) /\ UNCHANGED <<state, mirror, running, asmFailed>> /\ ~suspended'
    BY <1>18 DEF StartIfSuspendedRunning, emuVars
  <2>7. suspended => o = Op("startIfSuspendedRunning")
    OBVIOUS
  <2>8. Has(q, Revivers) \/ running \/ state.frozen \/ asmFailed \/ Has(todo["emu"], FreezeOps)
    BY <1>0, <2>1, <2>5 DEF ControllerOK
  <2> HIDE DEF q, o
  <2> QED
    BY <1>15, <2>1, <2>2, <2>3, <2>6, <2>7, <2>8, InnerConcat
<1>19. CASE ReadFrozen
  <2> DEFINE p == Stop \o <<SyncOn("applyReload")>>
             q == p \o (IF state.frozen THEN <<>> ELSE Start)
             o == Op("readFrozen")
  <2>1. q \in Inner /\ (q \in Reviving \/ (state.frozen /\ ~Has(q, UnfreezeOps)))
    <3>1. p \in Inner /\ p \in Seq(UiOps)
      BY RevivingParts, QuietParts, InnerConcat DEF SyncKinds
    <3>2. CASE state.frozen
      <4>1. q = p
        BY <1>e, <3>1, <3>2
      <4>2. Stop \in Seq(UiOps) /\ ~Has(Stop, UnfreezeOps)
        <5>1. Op("stop") \in UiOps /\ Op("stop") \notin UnfreezeOps
          BY UiAtoms DEF PlainNames, UnfreezeOps, SetFrozenOps, Op
        <5> QED
          BY <5>1, OneOp DEF Stop
      <4>3. <<SyncOn("applyReload")>> \in Seq(UiOps) /\ ~Has(<<SyncOn("applyReload")>>, UnfreezeOps)
        BY QuietParts DEF SyncKinds, Quiet, Inner
      <4>4. ~Has(p, UnfreezeOps)
        BY <4>2, <4>3, Joined
      <4> HIDE DEF q, p
      <4> QED
        BY <3>1, <3>2, <4>1, <4>4
    <3>3. CASE ~state.frozen
      <4>1. q \in Reviving
        BY <3>3, RevivingOperations
      <4> QED
        BY <4>1, InnerConcat
    <3> QED
      BY <3>2, <3>3
  <2>2. o \in LastOps /\ o # Op("startIfSuspendedRunning") /\ o # Op("startUnlessShownFrozen")
    BY DEF LastOps, Op
  <2>3. h = o /\ ui # <<>>
    BY <1>19, <1>c, <2>2 DEF ReadFrozen
  <2>4. ~suspended /\ (running \/ state.frozen \/ asmFailed \/ Has(todo["emu"], FreezeOps))
    BY <1>a, <2>2, <2>3
  <2>5. Replace("ui", q) /\ UNCHANGED <<state, mirror, running, asmFailed, suspended>>
    BY <1>19 DEF ReadFrozen, controllerVars, emuVars
  <2> HIDE DEF q, o
  <2> QED
    BY <1>15, <2>1, <2>2, <2>3, <2>4, <2>5
<1>20. CASE Entered
  <2>1. h \in EnteredOps /\ ui # <<>> /\ ui \in Seq(UiOps) /\ UNCHANGED <<state, running, mirror, suspended, suspendedRunning>>
    BY <1>0, <1>20, UiNext, UiHead DEF Entered, emuVars
  <2>2. h \notin LastOps /\ h # Op("readRunning") /\ h # Op("stop") /\ h \notin Pulls
    BY <2>1 DEF EnteredOps, LastOps, Op, Pulls
  <2>3. ~suspended
    BY <2>1, <2>2 DEF KeptAlive, StopsAreRevived, LastOps
  <2>p. r \in Seq(UiOps) /\ (Has(ui, Pulls) => Has(r, Pulls))
    BY <2>1, <2>2, HeadAndTail, Begun
  <2>4. ASSUME NEW q \in Quiet, Has(q, Revivers), Replace("ui", q), asmFailed' = asmFailed PROVE KeptAlive'
    <3>1. todo'["ui"] = q \o r /\ todo'["emu"] = todo["emu"] /\ q \in Seq(UiOps)
      BY <1>0, <1>q, <2>1, <2>4, UiReplaced
    <3>2. StopsAreRevived'
      BY <1>0, <2>1, <2>2, <3>1, UiKeepsStops DEF KeptAlive
    <3>3. (Has(q \o r, Pulls) <=> Has(q, Pulls) \/ Has(r, Pulls)) /\ (Has(q \o r, Revivers) <=> Has(q, Revivers) \/ Has(r, Revivers))
      BY <2>p, <3>1, Joined
    <3> QED
      BY <2>1, <2>3, <2>4, <2>p, <3>1, <3>2, <3>3 DEF KeptAlive, ThawShown, Revived
  <2>5. CASE Done("ui") /\ asmFailed' = TRUE
    <3>1. todo'["ui"] = <<>> \o r /\ todo'["ui"] = r /\ todo'["emu"] = todo["emu"]
      BY <1>0, <1>e, <2>1, <2>5, <2>p, UiDone
    <3>2. StopsAreRevived'
      BY <1>0, <1>q, <2>1, <2>2, <3>1, UiKeepsStops DEF KeptAlive
    <3> QED
      BY <2>1, <2>3, <2>5, <2>p, <3>1, <3>2 DEF KeptAlive, ThawShown, Revived
  <2>6. CASE Replace("ui", IF h.freezeOnStart THEN FreezeInPlace("Cpu") \o <<Op("buildView")>> ELSE Start) /\ asmFailed' = asmFailed
    <3>1. FreezeInPlace("Cpu") \o <<Op("buildView")>> \in Quiet /\ Has(FreezeInPlace("Cpu") \o <<Op("buildView")>>, Revivers)
      <4>1. FreezeInPlace("Cpu") \in Quiet /\ Has(FreezeInPlace("Cpu"), Revivers)
        BY RevivingOperations
      <4>2. <<Op("buildView")>> \in Quiet
        BY QuietParts DEF PlainNames, QuietNames
      <4>3. FreezeInPlace("Cpu") \in Seq(UiOps) /\ <<Op("buildView")>> \in Seq(UiOps)
        BY <1>q, <4>1, <4>2
      <4> QED
        BY <4>1, <4>2, <4>3, InnerConcat, Joined
    <3>2. Start \in Quiet /\ Has(Start, Revivers)
      <4>1. Has(Start, Starts) => Has(Start, Revivers)
        BY DEF Has, Revivers
      <4> QED
        BY <4>1, QuietParts, RevivingParts
    <3>3. h.freezeOnStart \in BOOLEAN
      BY <2>1 DEF EnteredOps
    <3> QED
      BY <2>4, <2>6, <3>1, <3>2, <3>3
  <2> QED
    BY <1>20, <2>5, <2>6 DEF Entered
<1>21. CASE ReadRunning
  <2>1. h = Op("readRunning") /\ ui # <<>> /\ ui \in Seq(UiOps) /\ todo'["ui"] = r /\ todo'["emu"] = todo["emu"]
        /\ suspendedRunning' = running /\ suspended' = TRUE /\ UNCHANGED <<state, mirror, running, asmFailed>>
    BY <1>0, <1>21, UiNext, UiHead, UiDone DEF ReadRunning, emuVars, PlainNames, Next1
  <2>2. Has(ui, {Op("readRunning")})
    BY <2>1, Begun
  <2>3. ui = <<Op("readRunning"), Op("stop")>> /\ r = <<Op("stop")>>
    <3>1. ui = <<Op("readRunning"), Op("stop")>>
      BY <2>2 DEF KeptAlive, StopsAreRevived, Suspending
    <3>2. Op("readRunning") \in UiOps /\ Op("stop") \in UiOps /\ <<Op("stop")>> \in Seq(UiOps)
      BY UiAtoms DEF PlainNames
    <3>3. <<Op("readRunning")>> \o <<Op("stop")>> = ui /\ Tail(<<Op("readRunning")>> \o <<Op("stop")>>) = <<Op("stop")>>
      BY <3>1, <3>2, Pair, Consed
    <3> QED
      BY <3>1, <3>3
  <2>4. /\ ~Has(r, UnfreezeOps) /\ ~Has(r, {Op("readRunning")}) /\ ~Has(r, LastOps) /\ ~Has(r, {Op("startIfSuspendedRunning")})
        /\ ~Has(ui, Revivers) /\ ~Has(ui, Pulls)
    BY <2>3 DEF Has, UnfreezeOps, SetFrozenOps, LastOps, Op, Revivers, Starts, EnteredOps, FreezeOps, Pulls
  <2>5. StopsAreRevived'
    BY <2>1, <2>3, <2>4 DEF StopsAreRevived, Leads, Ends, Has
  <2>6. ~suspended
    BY <2>1, <2>3 DEF KeptAlive, StopsAreRevived, Op
  <2> QED
    BY <1>0, <2>1, <2>4, <2>5, <2>6 DEF KeptAlive, ThawShown, Revived, RunnerOK
<1>22. CASE TakeEvent
  <2>1. Head(events) \in EventOps
    BY <1>0, <1>22, HeadAndTail DEF TakeEvent, StateOK
  <2> DEFINE q == Pull \o (IF Head(events).op = "frozenView" THEN <<[op |-> "onFrozenView", gen |-> Head(events).gen]>> ELSE <<>>)
  <2>2. q \in Quiet
    <3>1. Head(events).op = "frozenView" => Head(events).gen \in Nat
      BY <2>1 DEF EventOps
    <3>2. (IF Head(events).op = "frozenView" THEN <<[op |-> "onFrozenView", gen |-> Head(events).gen]>> ELSE <<>>) \in Quiet
      BY <3>1, QuietParts
    <3> QED
      BY <3>2, QuietParts, InnerConcat
  <2>3. todo' = [todo EXCEPT !["ui"] = q] /\ UNCHANGED <<state, mirror, running, asmFailed, suspended, suspendedRunning>>
        /\ ui = <<>> /\ ~suspended
    BY <1>22 DEF TakeEvent, controllerVars, emuVars
  <2>p. Has(q, Pulls)
    BY <2>1, ShownReplacements
  <2> HIDE DEF q
  <2>4. todo'["ui"] = q /\ todo'["emu"] = todo["emu"]
    BY <1>0, <1>q, <2>2, <2>3, UiBegins
  <2>5. ~Has(q, UnfreezeOps) /\ ~Has(q, Stops) /\ ~Has(q, LastOps) /\ ~Has(q, {Op("readRunning")}) /\ ~Has(q, {Op("startIfSuspendedRunning")})
    BY <2>2 DEF Quiet, Inner, Has, LastOps
  <2>6. StopsAreRevived'
    BY <2>3, <2>4, <2>5 DEF StopsAreRevived, Leads, Has, Ends
  <2>7. ~Has(ui, Revivers)
    BY <1>f, <2>3
  <2> QED
    BY <2>3, <2>4, <2>6, <2>7, <2>p DEF KeptAlive, ThawShown, Revived
<1> QED
  BY <1>4, <1>5, <1>6, <1>7, <1>8, <1>9, <1>10, <1>11, <1>12, <1>13, <1>14, <1>16, <1>17, <1>18, <1>19, <1>20, <1>21, <1>22
     DEF UiThread, SessionOp, ControllerOp, MicroOp

LEMMA CallAlive ==
  ASSUME TypeOK, KeptAlive, NEW c \in frontend.calls, Call(c)
  PROVE  KeptAlive'
<1>1. TodoOK /\ c \in Operations
  BY ControllerAssumption DEF TypeOK, ControllerOK, ControllerAssumption
<1> DEFINE q == Program(c)
<1>2. q \in Seq(UiOps)
  BY <1>1, ShownProgram DEF Shown
<1>3. /\ Leads(q, UnfreezeOps, Starts)
      /\ Leads(q, Stops, Revivers) \/ (c = "suspend" /\ ~Has(q, UnfreezeOps))
      /\ IF c = "suspend" THEN q = <<Op("readRunning"), Op("stop")>> ELSE ~Has(q, {Op("readRunning")})
      /\ Ends(q, LastOps)
      /\ IF c = "resumeAfterSuspend" THEN q = <<Op("startIfSuspendedRunning")>>
         ELSE ~Has(q, {Op("startIfSuspendedRunning")})
  BY <1>1, RevivingProgram
<1>4. todo' = [todo EXCEPT !["ui"] = q] /\ UNCHANGED <<state, mirror, running, asmFailed, suspended, suspendedRunning>>
      /\ todo["ui"] = <<>> /\ (suspended <=> c = "resumeAfterSuspend")
  BY DEF Call, emuVars, Permitted
<1> HIDE DEF q
<1>5. todo'["ui"] = q /\ todo'["emu"] = todo["emu"]
  BY <1>1, <1>2, <1>4, UiBegins
<1>6. ~Has(todo["ui"], Revivers) /\ ~Has(todo["ui"], Pulls)
  BY <1>4 DEF Has
<1>7. StopsAreRevived'
  BY <1>3, <1>4, <1>5 DEF StopsAreRevived, Suspending
<1> QED
  BY <1>4, <1>5, <1>6, <1>7 DEF KeptAlive, ThawShown, Revived

LEMMA FiresFreeze ==
  ASSUME NEW o \in Owners
  PROVE  Has(OnFreezeFired(o), FreezeOps)
<1> DEFINE s == <<SetFrozen(TRUE, o)>>
           b == IF o = "Calculator" THEN <<Op("beginNextStep")>> ELSE <<>>
           e == <<Op("debugStateChanged"), Op("frozenViewReady")>>
<1>1. /\ s \in Seq(EmuOps) /\ b \in Seq(EmuOps) /\ e \in Seq(EmuOps)
      /\ DisarmBoth \in Seq(EmuOps) /\ ApplyTraceFlags \in Seq(EmuOps)
  BY FiredParts
<1>2. Has(s, FreezeOps)
  <2>1. SetFrozen(TRUE, o) \in FreezeOps /\ SetFrozen(TRUE, o) \in UiOps
    BY UiAtoms DEF FreezeOps, SetFrozenOps, SetFrozen
  <2> QED
    BY <2>1, OneOp
<1>3. OnFreezeFired(o) = (DisarmBoth \o s \o ApplyTraceFlags \o b) \o e
  BY DEF OnFreezeFired, SetFrozenState
<1> HIDE DEF s, b, e
<1>4. DisarmBoth \o s \in Seq(EmuOps) /\ Has(DisarmBoth \o s, FreezeOps)
  BY <1>1, <1>2, Joined
<1>5. (DisarmBoth \o s) \o ApplyTraceFlags \in Seq(EmuOps) /\ Has((DisarmBoth \o s) \o ApplyTraceFlags, FreezeOps)
  BY <1>1, <1>4, Joined
<1>6. (DisarmBoth \o s) \o ApplyTraceFlags \o b \in Seq(EmuOps) /\ Has((DisarmBoth \o s) \o ApplyTraceFlags \o b, FreezeOps)
  BY <1>1, <1>5, Joined
<1>7. Has((DisarmBoth \o s \o ApplyTraceFlags \o b) \o e, FreezeOps)
  BY <1>1, <1>6, Joined
<1> QED
  BY <1>3, <1>7

LEMMA EmuAlive ==
  ASSUME TypeOK, KeptAlive, Emulation
  PROVE  KeptAlive'
<1>0. TodoOK /\ StateOK /\ SyncOK /\ RunnerOK /\ UNCHANGED <<mirror, suspended, suspendedRunning, asmFailed>>
  BY DEF TypeOK, Emulation, controllerVars
<1>1. CASE TakeJob \/ ExecuteJob \/ LoopTest \/ Instruction \/ CheckFreeze \/ BatchEnds \/ LeaveLoop \/ BatchDone
  <2>1. UNCHANGED <<state, todo, running>>
    BY <1>1 DEF TakeJob, ExecuteJob, LoopTest, Instruction, CheckFreeze, BatchEnds, LeaveLoop, BatchDone, sessionVars, emuVars
  <2> QED
    BY <1>0, <2>1, EmuKeepsAlive
<1>2. CASE FinishJob
  <2>1. CASE job.kind \in StepKinds
    <3>1. UNCHANGED <<state, todo, running>>
      BY <1>2, <2>1 DEF FinishJob
    <3> QED
      BY <1>0, <3>1, EmuKeepsAlive
  <2>2. CASE job.kind \notin StepKinds
    <3>1. Awaiting
      BY <1>0, <1>2, <2>2 DEF FinishJob, RunnerOK, StepJobs, SyncOK, Executing
    <3>2. Head(todo["ui"]) \notin LastOps \union {Op("readRunning"), Op("stop"), Op("pull")} \union Revivers /\ todo["ui"] # <<>>
      BY <3>1, TurningOps DEF Awaiting, Next1, TurningNames
    <3>3. todo'["ui"] = Tail(todo["ui"]) /\ todo'["emu"] = todo["emu"] /\ UNCHANGED <<state, running>>
      BY <1>0, <1>2, <2>2, <3>2, UiDone DEF FinishJob
    <3>4. <<>> \in Quiet /\ <<>> \o Tail(todo["ui"]) = Tail(todo["ui"])
      BY <1>0, <3>2, QuietParts, HeadAndTail, ConcatEmptySeq DEF TodoOK
    <3> QED
      BY <1>0, <3>2, <3>3, <3>4, UiKeepsAlive
  <2> QED
    BY <2>1, <2>2
<1>3. CASE FreezeFires
  <2> DEFINE f == OnFreezeFired(check)
  <2>1. f \in Seq(EmuOps) /\ Has(f, FreezeOps)
    BY <1>3, FiredTyped, FiresFreeze DEF FreezeFires
  <2>2. UNCHANGED state /\ todo' = [todo EXCEPT !["emu"] = f]
    BY <1>3 DEF FreezeFires
  <2> HIDE DEF f
  <2>3. todo'["emu"] = f /\ todo'["ui"] = todo["ui"]
    BY <1>0, <2>1, <2>2, EmuBegins
  <2> QED
    BY <1>0, <2>1, <2>2, <2>3 DEF KeptAlive, StopsAreRevived, Suspending, ThawShown, Revived
<1>4. CASE MicroOp("emu")
  <2>1. CASE StoreFlag("emu") \/ BeginNextStep("emu") \/ RefreshTraceFlags("emu") \/ Raise("emu")
    <3>1. Done("emu") /\ UNCHANGED <<state, running>> /\ \E n \in {"store", "beginNextStep", "applyTraceFlags", "debugStateChanged", "frozenView"} : Next1("emu", n)
      BY <2>1 DEF StoreFlag, BeginNextStep, RefreshTraceFlags, Raise, emuVars
    <3>2. todo["emu"] # <<>> /\ todo["emu"] \in Seq(EmuOps) /\ Head(todo["emu"]) \notin FreezeOps
      BY <1>0, <3>1 DEF Next1, TodoOK, FreezeOps, SetFrozenOps
    <3>3. todo'["emu"] = Tail(todo["emu"]) /\ todo'["ui"] = todo["ui"]
      BY <1>0, <3>1, <3>2, EmuDone
    <3>4. Has(todo["emu"], FreezeOps) => Has(Tail(todo["emu"]), FreezeOps)
      BY <3>2, Begun
    <3> QED
      BY <1>0, <3>1, <3>3, <3>4, EmuKeepsAlive
  <2>2. CASE SetFrozenLocked("emu")
    <3>0. "emu" \in Threads /\ "ui" \in Threads \ {"emu"}
      BY DEF Threads
    <3>1. state'.frozen = Head(todo["emu"]).frozen /\ Head(todo["emu"]) \in FreezeOps /\ todo'["ui"] = todo["ui"]
      BY <1>0, <2>2, <3>0, Locked
    <3>2. state'.frozen
      BY <3>1 DEF FreezeOps
    <3> QED
      BY <1>0, <3>1, <3>2, EmuKeepsAlive
  <2> QED
    BY <1>0, <1>4, <2>1, <2>2, EmuMicroOps
<1> QED
  BY <1>1, <1>2, <1>3, <1>4 DEF Emulation, EmulationThread

LEMMA AliveInit == Init => MirrorDue /\ KeptAlive
<1> SUFFICES ASSUME Init PROVE MirrorDue /\ KeptAlive
  OBVIOUS
<1>1. todo["ui"] = Start /\ todo["emu"] = <<>> /\ mirror = state /\ ~suspended
  BY DEF Init
<1>2. Start \in Quiet /\ Start \in Reviving /\ Has(Start, Starts)
  BY QuietParts, RevivingParts
<1>3. Has(Start, Revivers) /\ Ends(Start, LastOps) /\ ~Has(Start, {Op("readRunning")}) /\ ~Has(Start, {Op("startIfSuspendedRunning")})
  BY <1>2 DEF Has, Revivers, Ends, Quiet, Inner, LastOps
<1>4. KeptAlive
  BY <1>1, <1>2, <1>3 DEF KeptAlive, ThawShown, StopsAreRevived, Revived, Reviving
<1> QED
  BY <1>1, <1>4, MirrorInit

LEMMA AliveStep == TypeOK /\ MirrorDue /\ KeptAlive /\ [Next]_vars => KeptAlive'
<1>1. TypeOK /\ KeptAlive /\ UNCHANGED vars => KeptAlive'
  BY DEF vars, emuVars, sessionVars, controllerVars, KeptAlive, StopsAreRevived, Suspending, ThawShown, Revived
<1> QED
  BY <1>1, UiAlive, EmuAlive, CallAlive DEF Next

(* The calculator is never left dead: whenever nothing is under way, a      *)
(* machine that does not run is frozen, suspended or shown to have failed.  *)
THEOREM MachineIsRevivable == Spec => []NeverStranded
<1>1. KeptAlive => NeverStranded
  BY DEF KeptAlive, Revived, NeverStranded, Settled, UiIdle, Has
<1> QED
  BY <1>1, AliveInit, AliveStep, MirrorInit, MirrorStep, TypeCorrect, PTL DEF Spec

-----------------------------------------------------------------------------
(* The run loop and its queue are EmulationRunner's.  A client of that      *)
(* module posts only where the queue has room, so what an operation may     *)
(* still post is bounded by what is left of its program.                    *)

(* The places in the queue a micro-operation, or what replaces it, needs. *)
PostNames == {"start", "postLoop", "post", "postFreeze", "sync", "stepKeycode", "stepInstruction",
              "entered", "startUnlessShownFrozen", "startIfSuspendedRunning"}
Need(o) == IF o.op \in {"readFrozen", "readArmed"} THEN 2 ELSE IF o.op \in PostNames THEN 1 ELSE 0

(* n places are enough for p: r[i] of them are left before the i-th step. *)
Fits(p, n) ==
  \E r \in [1..(Len(p) + 1) -> Nat] :
    r[1] <= n /\ \A i \in 1..Len(p) : Need(p[i]) + r[i + 1] <= r[i]

LEMMA NeedNat == \A o : Need(o) \in Nat
  BY DEF Need

LEMMA FitsFree ==
  ASSUME NEW S, NEW p \in Seq(S), NEW n \in Nat, \A i \in 1..Len(p) : Need(p[i]) = 0
  PROVE  Fits(p, n)
<1> DEFINE r == [i \in 1..(Len(p) + 1) |-> 0]
<1>1. Len(p) \in Nat /\ r \in [1..(Len(p) + 1) -> Nat]
  OBVIOUS
<1>2. \A i \in 1..(Len(p) + 1) : r[i] = 0
  OBVIOUS
<1>3. 1 \in 1..(Len(p) + 1) /\ \A i \in 1..Len(p) : i \in 1..(Len(p) + 1) /\ i + 1 \in 1..(Len(p) + 1)
  BY <1>1
<1> HIDE DEF r
<1>4. r[1] <= n
  BY <1>2, <1>3
<1>5. \A i \in 1..Len(p) : Need(p[i]) + r[i + 1] <= r[i]
  BY <1>2, <1>3
<1> QED
  BY <1>1, <1>4, <1>5 DEF Fits

LEMMA FitsOne ==
  ASSUME NEW S, NEW a \in S, NEW n \in Nat, Need(a) <= n
  PROVE  Fits(<<a>>, n)
<1> DEFINE r == [i \in 1..2 |-> IF i = 1 THEN n ELSE 0]
<1>1. r \in [1..2 -> Nat] /\ r[1] = n /\ r[2] = 0
  OBVIOUS
<1>2. Len(<<a>>) = 1 /\ <<a>>[1] = a
  OBVIOUS
<1>3. Need(a) + r[2] <= r[1]
  BY <1>1, NeedNat
<1> HIDE DEF r
<1>4. \A i \in 1..1 : Need(<<a>>[i]) + r[i + 1] <= r[i]
  <2> SUFFICES ASSUME NEW i \in 1..1 PROVE Need(<<a>>[i]) + r[i + 1] <= r[i]
    OBVIOUS
  <2>1. i = 1 /\ i + 1 = 2
    OBVIOUS
  <2> QED
    BY <1>2, <1>3, <2>1
<1>5. r \in [1..(Len(<<a>>) + 1) -> Nat] /\ r[1] <= n
  BY <1>1, <1>2
<1> QED
  BY <1>2, <1>4, <1>5 DEF Fits

LEMMA FitsMore ==
  ASSUME NEW S, NEW p \in Seq(S), NEW n \in Int, NEW m \in Int, n <= m, Fits(p, n)
  PROVE  Fits(p, m) /\ 0 <= n
<1>1. PICK r \in [1..(Len(p) + 1) -> Nat] : r[1] <= n /\ \A i \in 1..Len(p) : Need(p[i]) + r[i + 1] <= r[i]
  BY DEF Fits
<1>2. 1 \in 1..(Len(p) + 1) /\ Len(p) \in Nat
  OBVIOUS
<1>3. r[1] \in Nat
  BY <1>2
<1>4. r[1] <= m /\ 0 <= n
  BY <1>1, <1>3
<1> QED
  BY <1>1, <1>4 DEF Fits

LEMMA FitsTail ==
  ASSUME NEW S, NEW p \in Seq(S), p # <<>>, NEW n \in Int, Fits(p, n)
  PROVE  Fits(Tail(p), n - Need(Head(p))) /\ Need(Head(p)) <= n
<1>1. PICK r \in [1..(Len(p) + 1) -> Nat] : r[1] <= n /\ \A i \in 1..Len(p) : Need(p[i]) + r[i + 1] <= r[i]
  BY DEF Fits
<1>2. /\ Len(Tail(p)) = Len(p) - 1 /\ Len(p) \in Nat \ {0} /\ Head(p) = p[1]
      /\ \A i \in 1..Len(Tail(p)) : Tail(p)[i] = p[i + 1]
  BY HeadTailProperties, EmptySeq
<1> DEFINE l == Len(p)
           t == [i \in 1..l |-> r[i + 1]]
<1>3. \A i \in 1..l : i + 1 \in 1..(l + 1) /\ i \in 1..(l + 1)
  BY <1>2
<1>4. t \in [1..l -> Nat] /\ \A i \in 1..l : t[i] = r[i + 1]
  BY <1>3
<1>5. 1 \in 1..l /\ 2 \in 1..(l + 1) /\ 1 \in 1..(l + 1)
  BY <1>2
<1>6. r[1] \in Nat /\ r[2] \in Nat /\ t[1] = r[2] /\ Need(p[1]) \in Nat
  BY <1>4, <1>5, NeedNat
<1>7. Need(p[1]) + r[2] <= r[1]
  BY <1>1, <1>5
<1>8. t[1] <= n - Need(Head(p)) /\ Need(Head(p)) <= n
  BY <1>1, <1>2, <1>6, <1>7
<1>9. \A i \in 1..Len(Tail(p)) : Need(Tail(p)[i]) + t[i + 1] <= t[i]
  <2> SUFFICES ASSUME NEW i \in 1..Len(Tail(p)) PROVE Need(Tail(p)[i]) + t[i + 1] <= t[i]
    OBVIOUS
  <2>1. i \in 1..l /\ i + 1 \in 1..l
    BY <1>2
  <2>2. Need(p[i + 1]) + r[i + 1 + 1] <= r[i + 1]
    BY <1>1, <2>1
  <2>3. t[i] = r[i + 1] /\ t[i + 1] = r[i + 1 + 1] /\ Tail(p)[i] = p[i + 1]
    BY <1>2, <1>4, <2>1
  <2> QED
    BY <2>2, <2>3
<1>10. Len(Tail(p)) + 1 = l
  BY <1>2
<1> HIDE DEF t, l
<1> QED
  BY <1>4, <1>8, <1>9, <1>10 DEF Fits

LEMMA FitsJoined ==
  ASSUME NEW S, NEW p \in Seq(S), NEW q \in Seq(S), NEW n \in Int, NEW m \in Int, Fits(p, n), Fits(q, m)
  PROVE  Fits(p \o q, n + m)
<1>1. PICK a \in [1..(Len(p) + 1) -> Nat] : a[1] <= n /\ \A i \in 1..Len(p) : Need(p[i]) + a[i + 1] <= a[i]
  BY DEF Fits
<1>2. PICK b \in [1..(Len(q) + 1) -> Nat] : b[1] <= m /\ \A i \in 1..Len(q) : Need(q[i]) + b[i + 1] <= b[i]
  BY DEF Fits
<1> DEFINE k == Len(p)
           l == Len(q)
           c == [i \in 1..(k + l + 1) |-> IF i <= k THEN a[i] + b[1] ELSE b[i - k]]
<1>3. k \in Nat /\ l \in Nat /\ Len(p \o q) = k + l
  BY ConcatProperties
<1>4. \A i \in 1..(k + l) : (p \o q)[i] = IF i <= k THEN p[i] ELSE q[i - k]
  BY ConcatProperties
<1>5. b[1] \in Nat /\ a[1] \in Nat /\ \A i \in 1..(k + 1) : a[i] \in Nat
  <2>1. 1 \in 1..(k + 1) /\ 1 \in 1..(l + 1)
    BY <1>3
  <2>2. \A i \in 1..(k + 1) : a[i] \in Nat
    OBVIOUS
  <2>3. b[1] \in Nat
    BY <2>1
  <2> QED
    BY <2>1, <2>2, <2>3
<1>6. \A i \in 1..(k + l + 1) : IF i <= k THEN i \in 1..(k + 1) ELSE i - k \in 1..(l + 1)
  BY <1>3
<1>7. \A i \in 1..(k + l + 1) : c[i] = (IF i <= k THEN a[i] + b[1] ELSE b[i - k]) /\ c[i] \in Nat
  <2> SUFFICES ASSUME NEW i \in 1..(k + l + 1)
               PROVE  (IF i <= k THEN a[i] + b[1] ELSE b[i - k]) \in Nat
    OBVIOUS
  <2>1. CASE i <= k
    BY <1>5, <1>6, <2>1
  <2>2. CASE ~(i <= k)
    BY <1>6, <2>2
  <2> QED
    BY <2>1, <2>2
<1>8. c \in [1..(k + l + 1) -> Nat]
  BY <1>7
<1> HIDE DEF c
<1>9. c[1] <= n + m
  <2>1. 1 \in 1..(k + l + 1)
    BY <1>3
  <2>2. CASE 1 <= k
    <3>1. c[1] = a[1] + b[1]
      BY <1>7, <2>1, <2>2
    <3> QED
      BY <1>1, <1>2, <1>5, <3>1
  <2>3. CASE ~(1 <= k)
    <3>1. k = 0 /\ 1 - k = 1
      BY <1>3, <2>3
    <3>2. c[1] = b[1]
      BY <1>7, <2>1, <2>3, <3>1
    <3>3. 0 <= n
      BY <1>1, <1>5
    <3> QED
      BY <1>2, <1>5, <3>2, <3>3
  <2> QED
    BY <2>2, <2>3
<1>10. ASSUME NEW i \in 1..(k + l)
       PROVE  Need((p \o q)[i]) + c[i + 1] <= c[i]
  <2>1. i \in 1..(k + l + 1) /\ i + 1 \in 1..(k + l + 1)
    BY <1>3
  <2>2. CASE i + 1 <= k
    <3>1. i \in 1..k /\ i \in 1..(k + 1) /\ i + 1 \in 1..(k + 1) /\ i <= k
      BY <1>3, <2>2
    <3>2. c[i] = a[i] + b[1] /\ c[i + 1] = a[i + 1] + b[1] /\ (p \o q)[i] = p[i]
      BY <1>4, <1>7, <2>1, <2>2, <3>1
    <3>3. Need(p[i]) + a[i + 1] <= a[i] /\ a[i] \in Nat /\ a[i + 1] \in Nat /\ Need(p[i]) \in Nat
      BY <1>1, <1>5, <3>1, NeedNat
    <3> QED
      BY <1>5, <3>2, <3>3
  <2>3. CASE i = k
    <3>1. i \in 1..k /\ i \in 1..(k + 1) /\ i + 1 \in 1..(k + 1) /\ i <= k /\ ~(i + 1 <= k) /\ i + 1 - k = 1
      BY <1>3, <2>3
    <3>2. c[i] = a[i] + b[1] /\ c[i + 1] = b[1] /\ (p \o q)[i] = p[i]
      BY <1>4, <1>7, <2>1, <3>1
    <3>3. Need(p[i]) + a[i + 1] <= a[i] /\ a[i] \in Nat /\ a[i + 1] \in Nat /\ Need(p[i]) \in Nat
      BY <1>1, <1>5, <3>1, NeedNat
    <3> QED
      BY <1>5, <3>2, <3>3
  <2>4. CASE ~(i <= k)
    <3>1. i - k \in 1..l /\ ~(i + 1 <= k) /\ i + 1 - k = (i - k) + 1
      BY <1>3, <2>4
    <3>2. c[i] = b[i - k] /\ c[i + 1] = b[(i - k) + 1] /\ (p \o q)[i] = q[i - k]
      BY <1>4, <1>7, <2>1, <2>4, <3>1
    <3> QED
      BY <1>2, <3>1, <3>2
  <2> QED
    BY <1>3, <2>2, <2>3, <2>4
<1>11. Len(p \o q) + 1 = k + l + 1
  BY <1>3
<1> HIDE DEF k, l
<1>12. \A i \in 1..Len(p \o q) : Need((p \o q)[i]) + c[i + 1] <= c[i]
  BY <1>3, <1>10
<1> QED
  BY <1>8, <1>9, <1>11, <1>12 DEF Fits

(* The stamp changes what is posted, not how much. *)
LEMMA FitsStamped ==
  ASSUME NEW S, NEW p \in Seq(S), p # <<>>, NEW g, \A o \in S : Stamp(o, g) \in S, NEW n \in Int, Fits(Tail(p), n)
  PROVE  Fits(Stamped(p, g), n)
<1>1. PICK r \in [1..(Len(Tail(p)) + 1) -> Nat] :
        r[1] <= n /\ \A i \in 1..Len(Tail(p)) : Need(Tail(p)[i]) + r[i + 1] <= r[i]
  BY DEF Fits
<1>2. /\ Len(Stamped(p, g)) = Len(Tail(p))
      /\ \A i \in 1..Len(Tail(p)) : Stamped(p, g)[i] = Stamp(Tail(p)[i], g)
  BY StampedLen
<1>3. \A o : Need(Stamp(o, g)) = Need(o)
  BY DEF Stamp, PostStep, Need, PostNames
<1>4. \A i \in 1..Len(Tail(p)) : Need(Stamped(p, g)[i]) = Need(Tail(p)[i])
  BY <1>2, <1>3, Zenon
<1> QED
  BY <1>1, <1>2, <1>4 DEF Fits

-----------------------------------------------------------------------------
(* Programs that need at most n places and do not begin in the middle of a  *)
(* start() or a sync().                                                     *)
HalfNames == {"postLoop", "await"}
Halves == [op : HalfNames]
Needing(n) == {p \in Seq(UiOps) : ~Has(p, Halves) /\ Fits(p, n)}

LEMMA NeedingConcat ==
  /\ \A k \in 0..3 : \A p \in Needing(0), q \in Needing(k) : p \o q \in Needing(k) /\ q \o p \in Needing(k)
  /\ \A p \in Needing(1), q \in Needing(1) : p \o q \in Needing(2)
  /\ \A p \in Needing(1), q \in Needing(2) : p \o q \in Needing(3)
  /\ Needing(0) \subseteq Needing(1) /\ Needing(1) \subseteq Needing(2) /\ Needing(2) \subseteq Needing(3)
<1>1. ASSUME NEW a \in Nat, NEW b \in Nat, NEW p \in Needing(a), NEW q \in Needing(b)
      PROVE  p \o q \in Needing(a + b)
  <2>1. p \in Seq(UiOps) /\ q \in Seq(UiOps) /\ ~Has(p, Halves) /\ ~Has(q, Halves) /\ Fits(p, a) /\ Fits(q, b)
    BY DEF Needing
  <2>2. p \o q \in Seq(UiOps) /\ ~Has(p \o q, Halves)
    BY <2>1, Joined
  <2>3. Fits(p \o q, a + b)
    BY <2>1, FitsJoined
  <2> QED
    BY <2>2, <2>3 DEF Needing
<1>2. \A k \in 0..3 : \A p \in Needing(0), q \in Needing(k) : p \o q \in Needing(k) /\ q \o p \in Needing(k)
  <2> SUFFICES ASSUME NEW k \in 0..3, NEW p \in Needing(0), NEW q \in Needing(k)
               PROVE  p \o q \in Needing(k) /\ q \o p \in Needing(k)
    OBVIOUS
  <2>1. 0 \in Nat /\ k \in Nat /\ 0 + k = k /\ k + 0 = k
    OBVIOUS
  <2>2. p \o q \in Needing(0 + k) /\ q \o p \in Needing(k + 0)
    BY <1>1, <2>1
  <2> QED
    BY <2>1, <2>2
<1>3. \A p \in Needing(1), q \in Needing(1) : p \o q \in Needing(2)
  <2> SUFFICES ASSUME NEW p \in Needing(1), NEW q \in Needing(1) PROVE p \o q \in Needing(2)
    OBVIOUS
  <2>1. p \o q \in Needing(1 + 1)
    BY <1>1
  <2> QED
    BY <2>1
<1>4. \A p \in Needing(1), q \in Needing(2) : p \o q \in Needing(3)
  <2> SUFFICES ASSUME NEW p \in Needing(1), NEW q \in Needing(2) PROVE p \o q \in Needing(3)
    OBVIOUS
  <2>1. p \o q \in Needing(1 + 2)
    BY <1>1
  <2> QED
    BY <2>1
<1>5. ASSUME NEW n \in 0..2 PROVE Needing(n) \subseteq Needing(n + 1)
  <2> SUFFICES ASSUME NEW p \in Needing(n) PROVE p \in Needing(n + 1)
    OBVIOUS
  <2>1. p \in Seq(UiOps) /\ Fits(p, n) /\ ~Has(p, Halves) /\ n \in Int /\ n + 1 \in Int /\ n <= n + 1
    BY DEF Needing
  <2>2. Fits(p, n + 1)
    BY <2>1, FitsMore
  <2> QED
    BY <2>1, <2>2 DEF Needing
<1>6. Needing(0) \subseteq Needing(1) /\ Needing(1) \subseteq Needing(2) /\ Needing(2) \subseteq Needing(3)
  <2>1. Needing(0) \subseteq Needing(0 + 1) /\ Needing(1) \subseteq Needing(1 + 1) /\ Needing(2) \subseteq Needing(2 + 1)
    BY <1>5
  <2>2. 0 + 1 = 1 /\ 1 + 1 = 2 /\ 2 + 1 = 3
    OBVIOUS
  <2> QED
    BY <2>1, <2>2
<1> QED
  BY <1>2, <1>3, <1>4, <1>6

LEMMA NeedingOne ==
  ASSUME NEW o \in UiOps, NEW n \in Nat, Need(o) <= n, o.op \notin HalfNames
  PROVE  <<o>> \in Needing(n)
<1>1. o \notin Halves
  BY DEF Halves
<1>2. <<o>> \in Seq(UiOps) /\ ~Has(<<o>>, Halves)
  BY <1>1, OneOp
<1>3. Fits(<<o>>, n)
  BY FitsOne
<1> QED
  BY <1>2, <1>3 DEF Needing

FreeNames == {"store", "setFrozen", "setArmed", "stop", "applyTraceFlags", "readPc", "pull", "cleanReset",
              "readRunning", "buildView", "onFrozenView"}

LEMMA NeedingFree ==
  ASSUME NEW p \in Seq(UiOps), \A i \in 1..Len(p) : p[i].op \in FreeNames
  PROVE  p \in Needing(0)
<1>1. \A o : o.op \in FreeNames => Need(o) = 0 /\ o \notin Halves
  BY DEF FreeNames, Need, PostNames, Halves, HalfNames
<1>2. ~Has(p, Halves) /\ \A i \in 1..Len(p) : Need(p[i]) = 0
  BY <1>1 DEF Has
<1>3. Fits(p, 0)
  BY <1>2, FitsFree
<1> QED
  BY <1>2, <1>3 DEF Needing

LEMMA NeedingParts ==
  /\ <<>> \in Needing(0)
  /\ DisarmBoth \in Needing(0) /\ ArmPcChange \in Needing(0) /\ DisarmPcChange \in Needing(0)
  /\ DisarmScanLoopExit \in Needing(0) /\ \A p \in PC : ArmScanLoopExit(p) \in Needing(0)
  /\ \A f \in BOOLEAN, o \in Owners \union {"none"} : <<SetFrozen(f, o)>> \in Needing(0)
  /\ \A v, w \in {"TRUE", "FALSE", "keep"} : <<SetArmed(v, w)>> \in Needing(0)
  /\ \A g \in Nat : <<[op |-> "onFrozenView", gen |-> g]>> \in Needing(0)
  /\ \A n \in PlainNames \cap FreeNames : <<Op(n)>> \in Needing(0)
  /\ Stop \in Needing(0) /\ Pull \in Needing(0) /\ ApplyTraceFlags \in Needing(0) /\ ArmScanLoop \in Needing(0)
  /\ \A k \in StepKinds, g \in Nat : <<PostStep(k, g)>> \in Needing(1)
  /\ \A k \in SyncKinds : <<SyncOn(k)>> \in Needing(1)
  /\ \A f \in BOOLEAN : <<[op |-> "entered", freezeOnStart |-> f]>> \in Needing(1)
  /\ \A n \in (PlainNames \cap PostNames) \ HalfNames : <<Op(n)>> \in Needing(1)
  /\ \A n \in {"readFrozen", "readArmed"} : <<Op(n)>> \in Needing(2)
  /\ Start \in Needing(1)
<1>1. <<>> \in Needing(0)
  <2>1. <<>> \in Seq(UiOps) /\ \A i \in 1..Len(<<>>) : <<>>[i].op \in FreeNames
    BY PartsTyped
  <2> QED
    BY <2>1, NeedingFree
<1>2. DisarmBoth \in Needing(0) /\ ArmPcChange \in Needing(0) /\ DisarmPcChange \in Needing(0) /\ DisarmScanLoopExit \in Needing(0)
  <2>1. /\ \A i \in 1..Len(DisarmBoth) : DisarmBoth[i].op \in FreeNames
        /\ \A i \in 1..Len(ArmPcChange) : ArmPcChange[i].op \in FreeNames
        /\ \A i \in 1..Len(DisarmPcChange) : DisarmPcChange[i].op \in FreeNames
        /\ \A i \in 1..Len(DisarmScanLoopExit) : DisarmScanLoopExit[i].op \in FreeNames
    BY DEF FreeNames, DisarmBoth, ArmPcChange, DisarmPcChange, DisarmScanLoopExit, Store
  <2> QED
    BY <2>1, PartsTyped, NeedingFree
<1>3. ASSUME NEW p \in PC PROVE ArmScanLoopExit(p) \in Needing(0)
  <2>1. \A i \in 1..Len(ArmScanLoopExit(p)) : ArmScanLoopExit(p)[i].op \in FreeNames
    BY DEF FreeNames, ArmScanLoopExit, Store
  <2> QED
    BY <2>1, PartsTyped, NeedingFree
<1>4. ASSUME NEW o \in UiOps, o.op \in FreeNames PROVE <<o>> \in Needing(0)
  <2>1. Need(o) = 0 /\ o.op \notin HalfNames
    BY <1>4 DEF FreeNames, Need, PostNames, HalfNames
  <2> QED
    BY <2>1, NeedingOne
<1>5. ASSUME NEW o \in UiOps, o.op \in PostNames \ HalfNames PROVE <<o>> \in Needing(1)
  <2>1. Need(o) = 1
    BY <1>5 DEF Need, PostNames
  <2> QED
    BY <1>5, <2>1, NeedingOne
<1>6. /\ \A f \in BOOLEAN, o \in Owners \union {"none"} : <<SetFrozen(f, o)>> \in Needing(0)
      /\ \A v, w \in {"TRUE", "FALSE", "keep"} : <<SetArmed(v, w)>> \in Needing(0)
      /\ \A g \in Nat : <<[op |-> "onFrozenView", gen |-> g]>> \in Needing(0)
  <2>1. \A v, w : /\ SetFrozen(v, w).op \in FreeNames /\ SetArmed(v, w).op \in FreeNames
                  /\ [op |-> "onFrozenView", gen |-> v].op \in FreeNames
    BY DEF SetFrozen, SetArmed, FreeNames
  <2> QED
    BY <1>4, <2>1, UiAtoms
<1>7. \A n \in PlainNames \cap FreeNames : <<Op(n)>> \in Needing(0)
  <2>1. \A n : Op(n).op = n
    BY DEF Op
  <2> QED
    BY <1>4, <2>1, UiAtoms
<1>8. Stop \in Needing(0) /\ Pull \in Needing(0) /\ ApplyTraceFlags \in Needing(0) /\ ArmScanLoop \in Needing(0)
  BY <1>7 DEF Stop, Pull, ApplyTraceFlags, ArmScanLoop, PlainNames, FreeNames
<1>9. /\ \A k \in StepKinds, g \in Nat : <<PostStep(k, g)>> \in Needing(1)
      /\ \A k \in SyncKinds : <<SyncOn(k)>> \in Needing(1)
      /\ \A f \in BOOLEAN : <<[op |-> "entered", freezeOnStart |-> f]>> \in Needing(1)
  <2>1. \A k, g : /\ PostStep(k, g).op \in PostNames \ HalfNames /\ SyncOn(k).op \in PostNames \ HalfNames
                  /\ [op |-> "entered", freezeOnStart |-> k].op \in PostNames \ HalfNames
    BY DEF PostStep, SyncOn, PostNames, HalfNames
  <2> QED
    BY <1>5, <2>1, UiAtoms
<1>10. \A n \in (PlainNames \cap PostNames) \ HalfNames : <<Op(n)>> \in Needing(1)
  <2>1. \A n : Op(n).op = n
    BY DEF Op
  <2> QED
    BY <1>5, <2>1, UiAtoms
<1>11. \A n \in {"readFrozen", "readArmed"} : <<Op(n)>> \in Needing(2)
  <2>1. \A n \in {"readFrozen", "readArmed"} : Op(n) \in UiOps /\ Op(n).op = n /\ Need(Op(n)) = 2 /\ n \notin HalfNames
    BY UiAtoms DEF Op, Need, HalfNames, PlainNames
  <2> QED
    BY <2>1, NeedingOne
<1>12. Start \in Needing(1)
  BY <1>10 DEF Start, PlainNames, PostNames, HalfNames
<1> QED
  BY <1>1, <1>2, <1>3, <1>6, <1>7, <1>8, <1>9, <1>10, <1>11, <1>12

LEMMA NeedingOperations ==
  /\ \A f \in BOOLEAN, o \in Owners \union {"none"} : SetFrozenState(f, o) \in Needing(0)
  /\ \A o \in Owners : Freeze(o) \in Needing(1) /\ FreezeInPlace(o) \in Needing(0)
  /\ Resume \in Needing(1) /\ ClearFreeze \in Needing(0)
  /\ ArmPc \in Needing(0) /\ DisarmPc \in Needing(0) /\ DisarmScanLoop \in Needing(0)
  /\ \A p \in PC : ArmScanLoopExit(p) \o <<SetArmed("FALSE", "TRUE")>> \o ApplyTraceFlags \in Needing(0)
  /\ SoftResetStopped \in Needing(2)
  /\ \A f \in BOOLEAN : RunAsm(f) \in Needing(2)
<1> DEFINE N(k) == Needing(k)
<1>f. \A p, q \in N(0) : p \o q \in N(0)
  BY NeedingConcat
<1>o. \A p \in N(0), q \in N(1) : p \o q \in N(1) /\ q \o p \in N(1)
  BY NeedingConcat
<1>t. \A p \in N(0), q \in N(2) : p \o q \in N(2) /\ q \o p \in N(2)
  BY NeedingConcat
<1>s. \A p, q \in N(1) : p \o q \in N(2)
  BY NeedingConcat
<1>1. ASSUME NEW f \in BOOLEAN, NEW o \in Owners \union {"none"}
      PROVE  SetFrozenState(f, o) \in N(0)
  <2>1. (IF f THEN DisarmBoth ELSE <<>>) \in N(0) /\ <<SetFrozen(f, o)>> \in N(0) /\ ApplyTraceFlags \in N(0)
    BY NeedingParts
  <2> HIDE DEF N
  <2> QED
    BY <1>f, <2>1 DEF SetFrozenState
<1>2. ASSUME NEW o \in Owners PROVE Freeze(o) \in N(1) /\ FreezeInPlace(o) \in N(0)
  <2>1. SetFrozenState(TRUE, o) \in N(0)
    BY <1>1
  <2>2. Stop \in N(0) /\ <<Op("postFreeze")>> \in N(1)
    BY NeedingParts DEF PlainNames, PostNames, HalfNames
  <2> HIDE DEF N
  <2> QED
    BY <1>f, <1>o, <2>1, <2>2 DEF Freeze, FreezeInPlace
<1>3. ClearFreeze \in N(0) /\ Resume \in N(1)
  <2>1. SetFrozenState(FALSE, "none") \in N(0) /\ Start \in N(1)
    BY <1>1, NeedingParts
  <2> HIDE DEF N
  <2> QED
    BY <1>o, <2>1 DEF ClearFreeze, Resume
<1>4. ArmPc \in N(0) /\ DisarmPc \in N(0) /\ DisarmScanLoop \in N(0)
  <2>1. /\ ArmPcChange \in N(0) /\ DisarmPcChange \in N(0) /\ DisarmScanLoopExit \in N(0) /\ ApplyTraceFlags \in N(0)
        /\ <<SetArmed("TRUE", "FALSE")>> \in N(0) /\ <<SetArmed("keep", "FALSE")>> \in N(0) /\ <<SetArmed("FALSE", "keep")>> \in N(0)
    BY NeedingParts
  <2> HIDE DEF N
  <2> QED
    BY <1>f, <2>1 DEF ArmPc, DisarmPc, DisarmScanLoop
<1>5. ASSUME NEW p \in PC PROVE ArmScanLoopExit(p) \o <<SetArmed("FALSE", "TRUE")>> \o ApplyTraceFlags \in N(0)
  <2>1. ArmScanLoopExit(p) \in N(0) /\ <<SetArmed("FALSE", "TRUE")>> \in N(0) /\ ApplyTraceFlags \in N(0)
    BY NeedingParts
  <2> HIDE DEF N
  <2> QED
    BY <1>f, <2>1
<1>6. SoftResetStopped \in N(2)
  <2>1. Stop \in N(0) /\ <<SyncOn("softReset")>> \in N(1) /\ Start \in N(1)
    BY NeedingParts DEF SyncKinds
  <2> HIDE DEF N
  <2>2. Stop \o <<SyncOn("softReset")>> \in N(1)
    BY <1>o, <2>1
  <2> QED
    BY <1>s, <2>1, <2>2 DEF SoftResetStopped
<1>7. ASSUME NEW f \in BOOLEAN PROVE RunAsm(f) \in N(2)
  <2> DEFINE p == Stop \o DisarmPc \o DisarmScanLoop \o ClearFreeze
             y == <<SyncOn("runAsmOverlay")>>
             e == <<[op |-> "entered", freezeOnStart |-> f]>>
  <2>1. Stop \in N(0) /\ y \in N(1) /\ e \in N(1) /\ Pull \in N(0)
    BY NeedingParts DEF SyncKinds
  <2>2. RunAsm(f) = p \o y \o e \o Pull
    BY DEF RunAsm
  <2> HIDE DEF N, y, e
  <2>3. p \in N(0)
    BY <1>f, <1>3, <1>4, <2>1
  <2> HIDE DEF p
  <2>4. p \o y \in N(1)
    BY <1>o, <2>1, <2>3
  <2>5. p \o y \o e \in N(2)
    BY <1>s, <2>1, <2>4
  <2>6. p \o y \o e \o Pull \in N(2)
    BY <1>t, <2>1, <2>5
  <2> QED
    BY <2>2, <2>6
<1> QED
  BY <1>1, <1>2, <1>3, <1>4, <1>5, <1>6, <1>7

LEMMA NeedingProgram ==
  ASSUME NEW c \in Operations
  PROVE  Program(c) \in Needing(JobsPerCall)
<1> DEFINE N(k) == Needing(k)
<1>f. \A p, q \in N(0) : p \o q \in N(0)
  BY NeedingConcat
<1>o. \A p \in N(0), q \in N(1) : p \o q \in N(1) /\ q \o p \in N(1)
  BY NeedingConcat
<1>t. \A p \in N(0), q \in N(2) : p \o q \in N(2) /\ q \o p \in N(2)
  BY NeedingConcat
<1>s. \A p, q \in N(1) : p \o q \in N(2)
  BY NeedingConcat
<1>r. \A p \in N(1), q \in N(2) : p \o q \in N(3)
  BY NeedingConcat
<1>m. N(0) \subseteq N(1) /\ N(1) \subseteq N(2) /\ N(2) \subseteq N(3)
  BY NeedingConcat
<1>p. Stop \in N(0) /\ Pull \in N(0) /\ Start \in N(1)
  BY NeedingParts
<1>y. \A k \in SyncKinds : <<SyncOn(k)>> \in N(1)
  BY NeedingParts
<1>a. Resume \in N(1) /\ ClearFreeze \in N(0) /\ ArmPc \in N(0) /\ DisarmPc \in N(0) /\ DisarmScanLoop \in N(0)
      /\ SoftResetStopped \in N(2) /\ Freeze("Calculator") \in N(1) /\ ArmScanLoop \in N(0)
  BY NeedingOperations, NeedingParts DEF Owners
<1>n. /\ <<Op("stepKeycode")>> \in N(1) /\ <<Op("stepInstruction")>> \in N(1) /\ <<Op("startUnlessShownFrozen")>> \in N(1)
      /\ <<Op("startIfSuspendedRunning")>> \in N(1) /\ <<Op("cleanReset")>> \in N(0) /\ <<Op("readRunning")>> \in N(0)
      /\ <<Op("readFrozen")>> \in N(2) /\ <<Op("readArmed")>> \in N(2)
  BY NeedingParts DEF PlainNames, PostNames, HalfNames, FreeNames
<1>q. SUFFICES Program(c) \in N(3)
  BY DEF JobsPerCall
<1> HIDE DEF N
<1>1. CASE c = "freeze"
  BY <1>1, <1>o, <1>m, <1>p, <1>a DEF Program
<1>2. CASE c = "resume"
  BY <1>2, <1>o, <1>m, <1>p, <1>a DEF Program
<1>3. CASE c = "armPcChange"
  BY <1>3, <1>f, <1>m, <1>p, <1>a DEF Program
<1>4. CASE c = "armScanLoopExit"
  BY <1>4, <1>f, <1>m, <1>p, <1>a DEF Program
<1>5. CASE c = "disarm"
  <2>1. DisarmPc \o Pull \o DisarmScanLoop \o Pull \in N(0)
    BY <1>f, <1>p, <1>a
  <2> QED
    BY <1>5, <1>m, <2>1 DEF Program
<1>6. CASE c \in {"stepKeycode", "stepInstruction", "applyReload", "runAsm", "resumeAfterSuspend"}
  BY <1>6, <1>m, <1>n DEF Program
<1>7. CASE c = "resetMachine"
  <2>1. Resume \o Pull \in N(1)
    BY <1>o, <1>p, <1>a
  <2>2. (Resume \o Pull) \o SoftResetStopped \in N(3)
    BY <1>r, <1>a, <2>1
  <2> QED
    BY <1>7, <2>2 DEF Program
<1>8. CASE c = "cleanReset"
  <2>1. (Resume \o Pull) \o <<Op("cleanReset")>> \in N(1)
    BY <1>o, <1>p, <1>a, <1>n
  <2> QED
    BY <1>8, <1>m, <2>1 DEF Program
<1>9. CASE c = "applyState"
  <2>1. (Stop \o ClearFreeze) \o <<SyncOn("applyState")>> \in N(1)
    BY <1>f, <1>o, <1>p, <1>a, <1>y DEF SyncKinds
  <2>2. ((Stop \o ClearFreeze) \o <<SyncOn("applyState")>>) \o Start \in N(2)
    BY <1>s, <1>p, <2>1
  <2>3. (((Stop \o ClearFreeze) \o <<SyncOn("applyState")>>) \o Start) \o Pull \in N(2)
    BY <1>t, <1>p, <2>2
  <2> QED
    BY <1>9, <1>m, <2>3 DEF Program
<1>10. CASE c = "failedSwitch"
  <2>1. Stop \o <<SyncOn("nothing")>> \in N(1)
    BY <1>o, <1>p, <1>y DEF SyncKinds
  <2>2. (Stop \o <<SyncOn("nothing")>>) \o <<Op("startUnlessShownFrozen")>> \in N(2)
    BY <1>s, <1>n, <2>1
  <2> QED
    BY <1>10, <1>m, <2>2 DEF Program
<1>11. CASE c = "suspend"
  <2>1. <<Op("readRunning")>> \o Stop \in N(0)
    BY <1>f, <1>p, <1>n
  <2> QED
    BY <1>11, <1>m, <2>1 DEF Program
<1> QED
  BY <1>1, <1>2, <1>3, <1>4, <1>5, <1>6, <1>7, <1>8, <1>9, <1>10, <1>11 DEF Operations, DebuggerCalls

(* What replaces a micro-operation needs the places it needed. *)
LEMMA NeedingReplacements ==
  /\ \A f \in BOOLEAN : Stop \o <<SyncOn("applyReload")>> \o (IF f THEN <<>> ELSE Start) \in Needing(2)
  /\ \A f \in BOOLEAN : (IF f THEN FreezeInPlace("Cpu") \o <<Op("buildView")>> ELSE Start) \in Needing(1)
  /\ \A f \in BOOLEAN : (IF f THEN <<>> ELSE Start) \in Needing(1) /\ (IF f THEN Start ELSE <<>>) \in Needing(1)
  /\ \A f \in BOOLEAN, k \in StepKinds, g \in Nat : (IF f THEN <<PostStep(k, g)>> ELSE <<>>) \in Needing(1)
  /\ \A e \in EventOps : Pull \o (IF e.op = "frozenView" THEN <<[op |-> "onFrozenView", gen |-> e.gen]>> ELSE <<>>) \in Needing(0)
<1>m. Needing(0) \subseteq Needing(1) /\ Needing(1) \subseteq Needing(2)
  BY NeedingConcat
<1>p. Stop \in Needing(0) /\ Pull \in Needing(0) /\ Start \in Needing(1) /\ <<>> \in Needing(0) /\ <<>> \in Needing(1)
  BY <1>m, NeedingParts
<1>1. ASSUME NEW f \in BOOLEAN
      PROVE  Stop \o <<SyncOn("applyReload")>> \o (IF f THEN <<>> ELSE Start) \in Needing(2)
  <2>1. Stop \o <<SyncOn("applyReload")>> \in Needing(1)
    BY <1>p, NeedingParts, NeedingConcat DEF SyncKinds
  <2>2. (IF f THEN <<>> ELSE Start) \in Needing(1)
    BY <1>p
  <2> QED
    BY <2>1, <2>2, NeedingConcat
<1>2. ASSUME NEW f \in BOOLEAN
      PROVE  (IF f THEN FreezeInPlace("Cpu") \o <<Op("buildView")>> ELSE Start) \in Needing(1)
  <2>1. FreezeInPlace("Cpu") \in Needing(0) /\ <<Op("buildView")>> \in Needing(0)
    BY NeedingOperations, NeedingParts DEF Owners, PlainNames, FreeNames
  <2>2. FreezeInPlace("Cpu") \o <<Op("buildView")>> \in Needing(1)
    BY <1>m, <2>1, NeedingConcat
  <2> QED
    BY <1>p, <2>2
<1>3. \A f \in BOOLEAN : (IF f THEN <<>> ELSE Start) \in Needing(1) /\ (IF f THEN Start ELSE <<>>) \in Needing(1)
  BY <1>p
<1>4. \A f \in BOOLEAN, k \in StepKinds, g \in Nat : (IF f THEN <<PostStep(k, g)>> ELSE <<>>) \in Needing(1)
  BY <1>p, NeedingParts
<1>5. ASSUME NEW e \in EventOps
      PROVE  Pull \o (IF e.op = "frozenView" THEN <<[op |-> "onFrozenView", gen |-> e.gen]>> ELSE <<>>) \in Needing(0)
  <2>1. e.op = "frozenView" => e.gen \in Nat
    BY DEF EventOps
  <2>2. (IF e.op = "frozenView" THEN <<[op |-> "onFrozenView", gen |-> e.gen]>> ELSE <<>>) \in Needing(0)
    <3>1. CASE e.op = "frozenView"
      <4>1. <<[op |-> "onFrozenView", gen |-> e.gen]>> \in Needing(0)
        BY <2>1, <3>1, NeedingParts
      <4> QED
        BY <3>1, <4>1
    <3>2. CASE e.op # "frozenView"
      BY <1>p, <3>2
    <3> QED
      BY <3>1, <3>2
  <2>3. Pull \in Needing(0) /\ \A q \in Needing(0) : Pull \o q \in Needing(0)
    BY <1>p, NeedingConcat
  <2> QED
    BY <2>2, <2>3, Zenon
<1> QED
  BY <1>1, <1>2, <1>3, <1>4, <1>5

-----------------------------------------------------------------------------
(* The client is in the middle of start() or sync() only in the first of    *)
(* its micro-operations; the queue has room for what its call may still     *)
(* post; a job is executed and a check made only where the thread says so.  *)
HalfFirst == todo["ui"] # <<>> => ~Has(Tail(todo["ui"]), Halves)
Roomy == Fits(todo["ui"], MaxJobs - Len(jobs))
Placed == (~Executing => job = NoJob) /\ (thread # "batch" => check = "idle")
RoomOK == HalfFirst /\ Roomy /\ Placed

LEMMA UiRoom ==
  ASSUME TodoOK, RunnerOK, RoomOK, todo["ui"] # <<>>, UNCHANGED <<thread, check, job>>, jobs' \in Seq(Jobs),
         NEW k \in Nat, NEW q \in Seq(UiOps), Fits(q, k), ~Has(q, Halves) \/ \E o \in UiOps : q = <<o>>,
         todo'["ui"] = q \o Tail(todo["ui"]), Len(jobs') + k <= Len(jobs) + Need(Head(todo["ui"]))
  PROVE  RoomOK'
<1> DEFINE ui == todo["ui"]
           r == Tail(ui)
           h == Head(ui)
           n == MaxJobs - Len(jobs)
           m == MaxJobs - Len(jobs')
<1>1. ui \in Seq(UiOps) /\ ui # <<>> /\ r \in Seq(UiOps) /\ ~Has(r, Halves) /\ Fits(ui, n)
  BY HeadAndTail DEF TodoOK, RoomOK, HalfFirst, Roomy
<1>2. n \in Int /\ m \in Int /\ Need(h) \in Nat /\ Len(jobs) \in Nat /\ Len(jobs') \in Nat
  BY SessionAssumption, NeedNat DEF SessionAssumption, RunnerOK
<1>3. k + (n - Need(h)) <= m /\ n - Need(h) \in Int /\ k + (n - Need(h)) \in Int /\ k \in Int
  BY <1>2, SessionAssumption DEF SessionAssumption
<1> HIDE DEF ui, r, h, n, m
<1>4. Fits(r, n - Need(h))
  BY <1>1, <1>2, FitsTail DEF r, h
<1>5. q \o r \in Seq(UiOps) /\ Fits(q \o r, k + (n - Need(h)))
  BY <1>1, <1>3, <1>4, FitsJoined, ConcatTyped
<1>6. Fits(q \o r, m)
  BY <1>2, <1>3, <1>5, FitsMore
<1>7. Roomy'
  BY <1>6 DEF Roomy, m, r, ui
<1>8. ASSUME q \o r # <<>> PROVE ~Has(Tail(q \o r), Halves)
  <2>1. CASE ~Has(q, Halves)
    <3>1. ~Has(q \o r, Halves)
      BY <1>1, <2>1, Joined
    <3> QED
      BY <1>5, <1>8, <3>1, Begun
  <2>2. ASSUME NEW o \in UiOps, q = <<o>> PROVE ~Has(Tail(q \o r), Halves)
    BY <1>1, <2>2, Consed
  <2> QED
    BY <2>1, <2>2
<1>9. HalfFirst'
  BY <1>8 DEF HalfFirst, r, ui
<1> QED
  BY <1>7, <1>9 DEF RoomOK, Placed, Executing

LEMMA NotHalf ==
  ASSUME NEW p \in Seq(UiOps), ~Has(p, Halves)
  PROVE  p = <<>> \/ Head(p).op \notin HalfNames
<1> SUFFICES ASSUME p # <<>>, Head(p).op \in HalfNames PROVE FALSE
  OBVIOUS
<1>1. Head(p) \in UiOps /\ Head(p) \notin Halves
  BY HeadAndTail, Begun
<1>2. Head(p) = Op(Head(p).op)
  BY <1>1, UiHead DEF HalfNames, PlainNames
<1> QED
  BY <1>1, <1>2 DEF Halves, Op

LEMMA ClientIdle == todo["ui"] = <<>> \/ Head(todo["ui"]).op \notin HalfNames => RunnerClient = "idle"
  BY DEF RunnerClient, Next1, HalfNames

(* A step of the UI thread that the run loop does not see. *)
Unseen ==
  /\ todo["ui"] # <<>> /\ Head(todo["ui"]).op \notin HalfNames
  /\ UNCHANGED <<running, jobs, thread, job, check>>
  /\ \/ \E q \in Needing(Need(Head(todo["ui"]))) : todo'["ui"] = q \o Tail(todo["ui"])
     \/ SetFrozenLocked("ui")

LEMMA UnseenKeeps ==
  ASSUME TodoOK, StateOK, RunnerOK, RoomOK, Unseen
  PROVE  RoomOK' /\ UNCHANGED Runner!vars
<1> DEFINE ui == todo["ui"]
           r == Tail(ui)
<1>1. ui \in Seq(UiOps) /\ ui # <<>> /\ r \in Seq(UiOps) /\ ~Has(r, Halves) /\ Need(Head(ui)) \in Nat
  BY HeadAndTail, NeedNat DEF TodoOK, RoomOK, HalfFirst, Unseen
<1>2. ASSUME NEW q \in Needing(Need(Head(ui))), todo'["ui"] = q \o r
      PROVE  RoomOK' /\ todo'["ui"] \in Seq(UiOps) /\ ~Has(todo'["ui"], Halves)
  <2>1. q \in Seq(UiOps) /\ ~Has(q, Halves) /\ Fits(q, Need(Head(ui)))
    BY <1>2 DEF Needing
  <2>2. UNCHANGED <<thread, check, job, jobs>> /\ jobs' \in Seq(Jobs) /\ Len(jobs) \in Nat
    BY DEF Unseen, RunnerOK
  <2>3. Len(jobs') + Need(Head(ui)) <= Len(jobs) + Need(Head(ui))
    BY <1>1, <2>2
  <2>4. RoomOK'
    BY <1>1, <1>2, <2>1, <2>2, <2>3, UiRoom
  <2> HIDE DEF ui, r
  <2>5. q \o r \in Seq(UiOps) /\ ~Has(q \o r, Halves)
    BY <1>1, <2>1, Joined
  <2> QED
    BY <1>2, <2>4, <2>5
<1>3. ASSUME SetFrozenLocked("ui")
      PROVE  RoomOK' /\ todo'["ui"] \in Seq(UiOps) /\ ~Has(todo'["ui"], Halves)
  <2> DEFINE g == state.generation + 1
  <2>1. /\ todo'["ui"] = Stamped(ui, g) /\ g \in Nat /\ TodoOK' /\ Head(ui) \in SetFrozenOps
    BY <1>3, Locked DEF Threads
  <2>2. UNCHANGED <<thread, check, job, jobs>>
    BY DEF Unseen
  <2>3. (\A o \in UiOps : Stamp(o, g) \in UiOps) /\ Unstamped(UiOps, Halves, g)
    BY <2>1, StampTyped DEF Unstamped, Stamp, PostStep, Halves, HalfNames
  <2>4. ~Has(Stamped(ui, g), Halves)
    BY <1>1, <2>3, StampedTail
  <2>5. Need(Head(ui)) = 0
    BY <2>1 DEF SetFrozenOps, Need, PostNames
  <2> DEFINE n == MaxJobs - Len(jobs)
  <2>6. n \in Int /\ n - 0 = n /\ n' = n
    BY <2>2, SessionAssumption DEF SessionAssumption, RunnerOK
  <2> HIDE DEF n, g
  <2>7. Fits(r, n)
    <3>1. Fits(ui, n)
      BY DEF RoomOK, Roomy, n
    <3>2. Fits(r, n - 0)
      BY <1>1, <2>5, <2>6, <3>1, FitsTail, Zenon
    <3> QED
      BY <2>6, <3>2
  <2>8. Fits(Stamped(ui, g), n)
    BY <1>1, <2>3, <2>6, <2>7, FitsStamped
  <2>9. Roomy'
    BY <2>1, <2>2, <2>8 DEF Roomy, n
  <2>10. todo'["ui"] \in Seq(UiOps) /\ ~Has(todo'["ui"], Halves)
    BY <2>1, <2>4 DEF TodoOK
  <2>11. HalfFirst'
    BY <2>10, Begun DEF HalfFirst
  <2> QED
    BY <2>2, <2>9, <2>10, <2>11 DEF RoomOK, Placed, Executing
<1>4. RoomOK' /\ todo'["ui"] \in Seq(UiOps) /\ ~Has(todo'["ui"], Halves)
  BY <1>2, <1>3 DEF Unseen
<1>5. RunnerClient = "idle" /\ RunnerClient' = "idle"
  <2>1. RunnerClient = "idle"
    BY ClientIdle DEF Unseen
  <2>2. todo'["ui"] = <<>> \/ Head(todo'["ui"]).op \notin HalfNames
    BY <1>4, NotHalf
  <2> QED
    BY <2>1, <2>2 DEF RunnerClient, Next1, HalfNames
<1>6. RunnerJobs(jobs)' = RunnerJobs(jobs) /\ RunnerJob(job)' = RunnerJob(job) /\ RunnerThread' = RunnerThread /\ running' = running
  BY DEF Unseen, RunnerThread, RunnerJobs, RunnerJob
<1> QED
  BY <1>4, <1>5, <1>6 DEF Runner!vars

LEMMA NeedingNone ==
  ASSUME NEW k \in Nat
  PROVE  <<>> \in Seq(UiOps) /\ ~Has(<<>>, Halves) /\ Fits(<<>>, k) /\ <<>> \in Needing(k)
<1>1. <<>> \in Seq(UiOps) /\ ~Has(<<>>, Halves) /\ \A i \in 1..Len(<<>>) : Need(<<>>[i]) = 0
  BY PartsTyped DEF Has
<1>2. Fits(<<>>, k)
  BY <1>1, FitsFree
<1> QED
  BY <1>1, <1>2 DEF Needing

LEMMA UiUnseen ==
  ASSUME TypeOK,
         \/ StoreFlag("ui") \/ SetFrozenLocked("ui") \/ SetArmedLocked("ui") \/ RefreshTraceFlags("ui") \/ ReadPc("ui")
         \/ PostStepIfFrozen("ui", "stepKeycode") \/ PostStepIfFrozen("ui", "stepInstruction")
         \/ PullDebugState \/ CleanReset \/ ReadFrozen \/ ReadArmed \/ Entered
         \/ StartUnlessShownFrozen \/ ReadRunning \/ StartIfSuspendedRunning \/ OnFrozenView \/ BuildView
  PROVE  Unseen
<1> DEFINE h == Head(todo["ui"])
           Kept == UNCHANGED <<running, jobs, thread, job, check>>
<1>0. TodoOK /\ StateOK /\ ControllerOK /\ FreezeTypeOK
  BY DEF TypeOK
<1>b. state.frozen \in BOOLEAN /\ state.scanLoopExitArmed \in BOOLEAN /\ mirror.frozen \in BOOLEAN
      /\ suspendedRunning \in BOOLEAN /\ state.generation \in Nat /\ pc \in PC
  BY <1>0 DEF StateOK, ControllerOK, DebugStates, FreezeTypeOK
<1>r. ASSUME NEW n, n \notin HalfNames, Next1("ui", n), NEW k, Need(h) = k, NEW q \in Needing(k), Replace("ui", q), Kept
      PROVE  Unseen
  <2>1. todo["ui"] # <<>> /\ h.op = n
    BY <1>r DEF Next1
  <2>2. q \in Seq(UiOps)
    BY DEF Needing
  <2>3. todo'["ui"] = q \o Tail(todo["ui"])
    BY <1>0, <1>r, <2>1, <2>2, UiReplaced
  <2> QED
    BY <1>r, <2>1, <2>3 DEF Unseen
<1>d. ASSUME NEW n, n \notin HalfNames, Next1("ui", n), Done("ui"), Kept
      PROVE  Unseen
  <2>1. todo["ui"] # <<>> /\ h.op = n /\ Need(h) \in Nat
    BY <1>d, NeedNat DEF Next1
  <2>2. <<>> \in Needing(Need(h))
    BY <2>1, NeedingNone
  <2>3. todo'["ui"] = <<>> \o Tail(todo["ui"])
    BY <1>0, <1>d, <2>1, UiDone, HeadAndTail, ConcatEmptySeq DEF TodoOK
  <2> QED
    BY <1>d, <2>1, <2>2, <2>3 DEF Unseen
<1>1. CASE StoreFlag("ui") \/ SetArmedLocked("ui") \/ RefreshTraceFlags("ui")
  <2>1. Done("ui") /\ Kept /\ \E n \in {"store", "setArmed", "applyTraceFlags"} : Next1("ui", n)
    BY <1>1 DEF StoreFlag, SetArmedLocked, RefreshTraceFlags, emuVars, fcVars
  <2> QED
    BY <1>d, <2>1 DEF HalfNames
<1>2. CASE PullDebugState \/ CleanReset \/ ReadRunning \/ OnFrozenView \/ BuildView
  <2>1. Done("ui") /\ Kept /\ \E n \in {"pull", "cleanReset", "readRunning", "onFrozenView", "buildView"} : Next1("ui", n)
    BY <1>2 DEF PullDebugState, CleanReset, ReadRunning, OnFrozenView, BuildView, emuVars, fcVars
  <2> QED
    BY <1>d, <2>1 DEF HalfNames
<1>3. CASE SetFrozenLocked("ui")
  BY <1>3 DEF SetFrozenLocked, Unseen, Next1, HalfNames, emuVars, fcVars
<1>4. CASE ReadPc("ui")
  <2>1. ArmScanLoopExit(pc) \o <<SetArmed("FALSE", "TRUE")>> \o ApplyTraceFlags \in Needing(0)
    BY <1>b, NeedingOperations
  <2>2. Next1("ui", "readPc") /\ Kept /\ Need(h) = 0
    BY <1>4 DEF ReadPc, emuVars, fcVars, Next1, Need, PostNames
  <2> QED
    BY <1>4, <1>r, <2>1, <2>2 DEF ReadPc, HalfNames
<1>5. ASSUME NEW k \in {"stepKeycode", "stepInstruction"}, PostStepIfFrozen("ui", k) PROVE Unseen
  <2>1. (IF state.frozen THEN <<PostStep(k, state.generation)>> ELSE <<>>) \in Needing(1)
    BY <1>b, NeedingReplacements DEF StepKinds
  <2>2. Next1("ui", k) /\ Kept /\ Need(h) = 1 /\ k \notin HalfNames
    BY <1>5 DEF PostStepIfFrozen, emuVars, fcVars, Next1, Need, PostNames, HalfNames
  <2>3. Replace("ui", IF state.frozen THEN <<PostStep(k, state.generation)>> ELSE <<>>)
    BY <1>5 DEF PostStepIfFrozen
  <2> QED
    BY <1>r, <2>1, <2>2, <2>3
<1>6. CASE ReadFrozen
  <2>1. Stop \o <<SyncOn("applyReload")>> \o (IF state.frozen THEN <<>> ELSE Start) \in Needing(2)
    BY <1>b, NeedingReplacements
  <2>2. Next1("ui", "readFrozen") /\ Kept /\ Need(h) = 2
    BY <1>6 DEF ReadFrozen, emuVars, fcVars, Next1, Need
  <2>3. Replace("ui", Stop \o <<SyncOn("applyReload")>> \o (IF state.frozen THEN <<>> ELSE Start))
    BY <1>6 DEF ReadFrozen
  <2> QED
    BY <1>r, <2>1, <2>2, <2>3 DEF HalfNames
<1>7. CASE ReadArmed
  <2>1. RunAsm(state.scanLoopExitArmed) \in Needing(2)
    BY <1>b, NeedingOperations
  <2>2. Next1("ui", "readArmed") /\ Kept /\ Need(h) = 2 /\ Replace("ui", RunAsm(state.scanLoopExitArmed))
    BY <1>7 DEF ReadArmed, emuVars, fcVars, Next1, Need
  <2> QED
    BY <1>r, <2>1, <2>2 DEF HalfNames
<1>8. CASE Entered
  <2>1. Next1("ui", "entered") /\ Kept /\ Need(h) = 1
    BY <1>8 DEF Entered, emuVars, fcVars, Next1, Need, PostNames
  <2>2. h.freezeOnStart \in BOOLEAN
    <3>1. h \in EnteredOps
      BY <1>0, <2>1, UiNext, UiHead
    <3> QED
      BY <3>1 DEF EnteredOps
  <2>3. CASE Done("ui")
    BY <1>d, <2>1, <2>3 DEF HalfNames
  <2>4. CASE Replace("ui", IF h.freezeOnStart THEN FreezeInPlace("Cpu") \o <<Op("buildView")>> ELSE Start)
    <3>1. (IF h.freezeOnStart THEN FreezeInPlace("Cpu") \o <<Op("buildView")>> ELSE Start) \in Needing(1)
      BY <2>2, NeedingReplacements
    <3> QED
      BY <1>r, <2>1, <2>4, <3>1 DEF HalfNames
  <2> QED
    BY <1>8, <2>3, <2>4 DEF Entered
<1>9. CASE StartUnlessShownFrozen
  <2>1. (IF mirror.frozen THEN <<>> ELSE Start) \in Needing(1)
    BY <1>b, NeedingReplacements
  <2>2. /\ Next1("ui", "startUnlessShownFrozen") /\ Kept /\ Need(h) = 1
        /\ Replace("ui", IF mirror.frozen THEN <<>> ELSE Start)
    BY <1>9 DEF StartUnlessShownFrozen, emuVars, fcVars, Next1, Need, PostNames
  <2> QED
    BY <1>r, <2>1, <2>2 DEF HalfNames
<1>10. CASE StartIfSuspendedRunning
  <2>1. (IF suspendedRunning THEN Start ELSE <<>>) \in Needing(1)
    BY <1>b, NeedingReplacements
  <2>2. /\ Next1("ui", "startIfSuspendedRunning") /\ Kept /\ Need(h) = 1
        /\ Replace("ui", IF suspendedRunning THEN Start ELSE <<>>)
    BY <1>10 DEF StartIfSuspendedRunning, emuVars, fcVars, Next1, Need, PostNames
  <2> QED
    BY <1>r, <2>1, <2>2 DEF HalfNames
<1> QED
  BY <1>1, <1>2, <1>3, <1>4, <1>5, <1>6, <1>7, <1>8, <1>9, <1>10

(* The queue as the runner has it. *)
LEMMA RunnerQueue ==
  ASSUME NEW q \in Seq(Jobs)
  PROVE  /\ RunnerJobs(q) = <<>> <=> q = <<>>
         /\ Len(RunnerJobs(q)) = Len(q)
         /\ \A j \in Jobs : RunnerJobs(Append(q, j)) = Append(RunnerJobs(q), RunnerJob(j))
         /\ q # <<>> => /\ Head(RunnerJobs(q)) = RunnerJob(Head(q))
                        /\ Tail(RunnerJobs(q)) = RunnerJobs(Tail(q))
<1> DEFINE R == {RunnerJob(j) : j \in Jobs}
<1>1. ASSUME NEW s \in Seq(Jobs)
      PROVE  /\ RunnerJobs(s) \in Seq(R) /\ Len(RunnerJobs(s)) = Len(s)
             /\ \A i \in 1..Len(s) : RunnerJobs(s)[i] = RunnerJob(s[i])
  <2>1. Len(s) \in Nat /\ \A i \in 1..Len(s) : s[i] \in Jobs
    BY ElementOfSeq
  <2>2. RunnerJobs(s) \in [1..Len(s) -> R]
    BY <2>1 DEF RunnerJobs
  <2> HIDE DEF R
  <2>3. RunnerJobs(s) \in Seq(R)
    BY <2>1, <2>2, SeqDef
  <2> QED
    BY <2>1, <2>2, <2>3 DEF RunnerJobs
<1>2. \A j \in Jobs : RunnerJob(j) \in R
  OBVIOUS
<1> HIDE DEF R
<1>3. RunnerJobs(q) = <<>> <=> q = <<>>
  BY <1>1, EmptySeq
<1>4. ASSUME NEW j \in Jobs PROVE RunnerJobs(Append(q, j)) = Append(RunnerJobs(q), RunnerJob(j))
  <2>1. /\ Append(q, j) \in Seq(Jobs) /\ Len(Append(q, j)) = Len(q) + 1 /\ Len(q) \in Nat
        /\ \A i \in 1..Len(q) : Append(q, j)[i] = q[i] /\ Append(q, j)[Len(q) + 1] = j
    BY AppendProperties
  <2>2. /\ Append(RunnerJobs(q), RunnerJob(j)) \in Seq(R) /\ Len(Append(RunnerJobs(q), RunnerJob(j))) = Len(q) + 1
        /\ \A i \in 1..Len(q) : Append(RunnerJobs(q), RunnerJob(j))[i] = RunnerJobs(q)[i]
        /\ Append(RunnerJobs(q), RunnerJob(j))[Len(q) + 1] = RunnerJob(j)
    BY <1>1, <1>2, AppendProperties
  <2>3. RunnerJobs(Append(q, j)) \in Seq(R) /\ Len(RunnerJobs(Append(q, j))) = Len(q) + 1
    BY <1>1, <2>1
  <2>4. ASSUME NEW i \in 1..(Len(q) + 1)
        PROVE  RunnerJobs(Append(q, j))[i] = Append(RunnerJobs(q), RunnerJob(j))[i]
    <3>1. RunnerJobs(Append(q, j))[i] = RunnerJob(Append(q, j)[i])
      BY <1>1, <2>1
    <3>2. CASE i \in 1..Len(q)
      BY <1>1, <2>1, <2>2, <3>1, <3>2
    <3>3. CASE i = Len(q) + 1
      <4>1. Append(q, j)[Len(q) + 1] = j
        BY AppendProperties
      <4> QED
        BY <2>2, <3>1, <3>3, <4>1
    <3>4. Len(q) \in Nat
      OBVIOUS
    <3>5. i \in 1..Len(q) \/ i = Len(q) + 1
      BY <3>4
    <3> QED
      BY <3>2, <3>3, <3>5
  <2> QED
    BY <2>2, <2>3, <2>4, SeqEqual
<1>5. ASSUME q # <<>>
      PROVE  Head(RunnerJobs(q)) = RunnerJob(Head(q)) /\ Tail(RunnerJobs(q)) = RunnerJobs(Tail(q))
  <2> DEFINE p == RunnerJobs(q)
  <2>1. /\ Tail(q) \in Seq(Jobs) /\ Len(Tail(q)) = Len(q) - 1 /\ Len(q) \in Nat \ {0} /\ Head(q) = q[1]
        /\ \A i \in 1..Len(Tail(q)) : Tail(q)[i] = q[i + 1]
    BY <1>5, HeadTailProperties, EmptySeq
  <2>2. p \in Seq(R) /\ p # <<>> /\ Len(p) = Len(q) /\ \A i \in 1..Len(q) : p[i] = RunnerJob(q[i])
    BY <1>1, <1>3, <1>5
  <2> HIDE DEF p
  <2>3. /\ Tail(p) \in Seq(R) /\ Len(Tail(p)) = Len(p) - 1 /\ Head(p) = p[1]
        /\ \A i \in 1..Len(Tail(p)) : Tail(p)[i] = p[i + 1]
    BY <2>2, HeadTailProperties
  <2>4. Head(p) = RunnerJob(Head(q))
    <3>1. 1 \in 1..Len(q)
      BY <2>1
    <3> QED
      BY <2>1, <2>2, <2>3, <3>1
  <2>5. /\ RunnerJobs(Tail(q)) \in Seq(R) /\ Len(RunnerJobs(Tail(q))) = Len(Tail(q))
        /\ \A i \in 1..Len(Tail(q)) : RunnerJobs(Tail(q))[i] = RunnerJob(Tail(q)[i])
    BY <1>1, <2>1
  <2>6. ASSUME NEW i \in 1..Len(Tail(q)) PROVE Tail(p)[i] = RunnerJobs(Tail(q))[i]
    <3>1. i + 1 \in 1..Len(q) /\ i \in 1..Len(Tail(p))
      BY <2>1, <2>2, <2>3
    <3> QED
      BY <2>1, <2>2, <2>3, <2>5, <3>1
  <2>7. Len(Tail(p)) = Len(Tail(q))
    BY <2>1, <2>2, <2>3
  <2>8. Tail(p) = RunnerJobs(Tail(q))
    BY <2>3, <2>5, <2>6, <2>7, SeqEqual
  <2> QED
    BY <2>4, <2>8 DEF p
<1> QED
  BY <1>1, <1>3, <1>4, <1>5

LEMMA RunnerJobOf ==
  /\ RunnerJob(NoJob) = "none"
  /\ \A j \in Jobs : /\ j # NoJob
                     /\ j.kind \in StepKinds => RunnerJob(j) = j.kind /\ RunnerJob(j) # "sync"
                     /\ j.kind = "loop" <=> RunnerJob(j) = "loop"
                     /\ j \in SyncJobs <=> RunnerJob(j) = "sync"
  BY DEF RunnerJob, Jobs, NoJob, Job, StepKinds, SyncKinds, SyncJobs

(* A program begins: the runner sees nothing yet. *)
LEMMA BeginUnseen ==
  ASSUME TodoOK, RunnerOK, RoomOK, todo["ui"] = <<>>, NEW k \in Nat, k = 0 \/ Len(jobs) + k <= MaxJobs,
         NEW q \in Needing(k), todo' = [todo EXCEPT !["ui"] = q], UNCHANGED <<check, running, jobs, thread, job>>
  PROVE  RoomOK' /\ UNCHANGED Runner!vars
<1>1. q \in Seq(UiOps) /\ ~Has(q, Halves) /\ Fits(q, k)
  BY DEF Needing
<1>2. todo'["ui"] = q
  BY <1>1, UiBegins
<1> DEFINE n == MaxJobs - Len(jobs)
<1>3. n \in Int /\ n' = n /\ k \in Int
  BY SessionAssumption DEF SessionAssumption, RunnerOK
<1>4. Fits(<<>>, n) /\ <<>> \in Seq(UiOps)
  BY PartsTyped DEF RoomOK, Roomy
<1>5. k <= n
  <2>1. 0 <= n
    <3> DEFINE e == <<>>
    <3>1. e \in Seq(UiOps) /\ Fits(e, n) /\ n \in Int
      BY <1>3, <1>4
    <3>2. n <= n
      BY <1>3
    <3> HIDE DEF n, e
    <3> QED
      BY <3>1, <3>2, FitsMore
  <2> QED
    BY <2>1, <1>3, SessionAssumption DEF SessionAssumption, RunnerOK
<1> HIDE DEF n
<1>6. Fits(q, n)
  BY <1>1, <1>3, <1>5, FitsMore
<1>7. Roomy'
  BY <1>2, <1>3, <1>6 DEF Roomy, n
<1>8. HalfFirst'
  BY <1>1, <1>2, Begun DEF HalfFirst
<1>9. RunnerClient = "idle" /\ RunnerClient' = "idle"
  <2>1. todo'["ui"] = <<>> \/ Head(todo'["ui"]).op \notin HalfNames
    BY <1>1, <1>2, NotHalf
  <2> QED
    BY <2>1, ClientIdle DEF RunnerClient, Next1, HalfNames
<1> QED
  BY <1>7, <1>8, <1>9 DEF RoomOK, Placed, Executing, Runner!vars, RunnerThread, RunnerJobs, RunnerJob

LEMMA HasPlace ==
  ASSUME TodoOK, RunnerOK, RoomOK, todo["ui"] # <<>>, Need(Head(todo["ui"])) = 1
  PROVE  Len(RunnerJobs(jobs)) < MaxJobs
<1>1. todo["ui"] \in Seq(UiOps) /\ MaxJobs - Len(jobs) \in Int /\ Len(jobs) \in Nat /\ MaxJobs \in Nat
  BY SessionAssumption DEF TodoOK, RunnerOK, SessionAssumption
<1>2. Need(Head(todo["ui"])) <= MaxJobs - Len(jobs)
  BY <1>1, FitsTail DEF RoomOK, Roomy
<1>3. Len(RunnerJobs(jobs)) = Len(jobs)
  BY RunnerQueue DEF RunnerOK
<1> QED
  BY <1>1, <1>2, <1>3

(* The UI thread's steps are the client's. *)
LEMMA UiRuns ==
  ASSUME TypeOK, RoomOK, UiThread
  PROVE  RoomOK' /\ [Runner!Next]_(Runner!vars)
<1> DEFINE ui == todo["ui"]
           r == Tail(ui)
           h == Head(ui)
<1>0. TodoOK /\ StateOK /\ RunnerOK /\ ControllerOK
  BY DEF TypeOK
<1>1. ASSUME Unseen PROVE RoomOK' /\ [Runner!Next]_(Runner!vars)
  BY <1>0, <1>1, UnseenKeeps
<1>a. ASSUME ui # <<>> PROVE ui \in Seq(UiOps) /\ r \in Seq(UiOps) /\ ~Has(r, Halves) /\ h \in UiOps /\ Need(h) \in Nat
  BY <1>0, <1>a, HeadAndTail, NeedNat DEF TodoOK, RoomOK, HalfFirst
<1>d. ASSUME ui # <<>>, Done("ui"), UNCHANGED <<thread, check, job>>, jobs' \in Seq(Jobs), Len(jobs') <= Len(jobs) + Need(h)
      PROVE  RoomOK' /\ RunnerClient' = "idle"
  <2>1. todo'["ui"] = <<>> \o r /\ todo'["ui"] = r
    BY <1>0, <1>a, <1>d, UiDone, ConcatEmptySeq
  <2>2. <<>> \in Seq(UiOps) /\ Fits(<<>>, 0) /\ ~Has(<<>>, Halves) /\ Len(jobs') + 0 <= Len(jobs) + Need(h)
    BY <1>a, <1>d, NeedingNone
  <2>3. RoomOK'
    BY <1>0, <1>d, <2>1, <2>2, UiRoom
  <2>4. todo'["ui"] = <<>> \/ Head(todo'["ui"]).op \notin HalfNames
    BY <1>a, <1>d, <2>1, NotHalf
  <2> QED
    BY <2>3, <2>4 DEF RunnerClient, Next1, HalfNames
<1>h. ASSUME NEW o \in UiOps, o.op \in HalfNames, ui # <<>>, Replace("ui", <<o>>), UNCHANGED <<thread, check, job>>,
             jobs' \in Seq(Jobs), Len(jobs') + Need(o) <= Len(jobs) + Need(h)
      PROVE  RoomOK' /\ todo'["ui"] # <<>> /\ Head(todo'["ui"]) = o
  <2>1. <<o>> \in Seq(UiOps) /\ Need(o) \in Nat /\ Fits(<<o>>, Need(o))
    BY NeedNat, FitsOne
  <2>2. todo'["ui"] = <<o>> \o r
    BY <1>0, <1>h, <2>1, UiReplaced
  <2>3. RoomOK'
    BY <1>0, <1>h, <2>1, <2>2, UiRoom
  <2>4. <<o>> \o r # <<>> /\ Head(<<o>> \o r) = o
    BY <1>a, <1>h, Consed
  <2> QED
    BY <2>2, <2>3, <2>4
<1>2. CASE StopLoop("ui")
  <2>1. Next1("ui", "stop") /\ Done("ui") /\ running' = FALSE /\ UNCHANGED <<check, jobs, thread, job>>
    BY <1>2 DEF StopLoop, fcVars
  <2>2. ui # <<>> /\ h.op = "stop" /\ Need(h) = 0 /\ jobs' \in Seq(Jobs) /\ Len(jobs') <= Len(jobs) + Need(h)
    BY <1>0, <2>1 DEF Next1, Need, PostNames, RunnerOK
  <2>3. RoomOK' /\ RunnerClient' = "idle" /\ RunnerClient = "idle"
    BY <1>d, <2>1, <2>2, ClientIdle DEF HalfNames
  <2>4. Runner!Stop
    BY <2>1, <2>3 DEF Runner!Stop, RunnerThread
  <2> QED
    BY <2>3, <2>4 DEF Runner!Next, Runner!Client
<1>3. CASE StartLoop("ui")
  <2>1. Next1("ui", "start") /\ Replace("ui", IF running THEN <<>> ELSE <<Op("postLoop")>>) /\ running' = TRUE
        /\ UNCHANGED <<check, jobs, thread, job>>
    BY <1>3 DEF StartLoop, fcVars
  <2>2. ui # <<>> /\ h.op = "start" /\ Need(h) = 1 /\ jobs' \in Seq(Jobs)
    BY <1>0, <2>1 DEF Next1, Need, PostNames, RunnerOK
  <2>3. RunnerClient = "idle" /\ Len(RunnerJobs(jobs)) < MaxJobs /\ running \in BOOLEAN
    BY <1>0, <2>2, ClientIdle, HasPlace DEF HalfNames, RunnerOK
  <2>4. RoomOK' /\ RunnerClient' = IF running THEN "idle" ELSE "starting"
    <3>1. CASE running
      <4>1. Done("ui")
        BY <1>a, <2>1, <2>2, <3>1, ConcatEmptySeq DEF Replace, Done
      <4>2. Len(jobs') <= Len(jobs) + Need(h)
        BY <1>0, <2>1, <2>2 DEF RunnerOK
      <4> QED
        BY <1>d, <2>1, <2>2, <3>1, <4>1, <4>2
    <3>2. CASE ~running
      <4>1. Op("postLoop") \in UiOps /\ Op("postLoop").op = "postLoop" /\ Need(Op("postLoop")) = 1
        BY UiAtoms DEF PlainNames, Op, Need, PostNames
      <4>2. Replace("ui", <<Op("postLoop")>>) /\ Len(jobs') + Need(Op("postLoop")) <= Len(jobs) + Need(h)
        BY <1>0, <2>1, <2>2, <3>2, <4>1 DEF RunnerOK
      <4>3. RoomOK' /\ todo'["ui"] # <<>> /\ Head(todo'["ui"]) = Op("postLoop")
        BY <1>h, <2>1, <2>2, <4>1, <4>2 DEF HalfNames
      <4> QED
        BY <3>2, <4>1, <4>3 DEF RunnerClient, Next1
    <3> QED
      BY <3>1, <3>2
  <2>5. Runner!Start
    BY <2>1, <2>3, <2>4 DEF Runner!Start, Runner!HasRoom, RunnerThread
  <2> QED
    BY <2>4, <2>5 DEF Runner!Next, Runner!Client
<1>4. CASE PostLoop("ui")
  <2> DEFINE j == Job("loop", 0)
  <2>1. Next1("ui", "postLoop") /\ Done("ui") /\ jobs' = Append(jobs, j) /\ UNCHANGED <<check, running, thread, job>>
    BY <1>4 DEF PostLoop, fcVars
  <2>2. ui # <<>> /\ h.op = "postLoop" /\ Need(h) = 1 /\ j \in Jobs /\ RunnerJob(j) = "loop"
    BY <2>1, RunnerJobOf DEF Next1, Need, PostNames, Jobs, Job
  <2> HIDE DEF j
  <2>3. jobs' \in Seq(Jobs) /\ Len(jobs') = Len(jobs) + 1 /\ RunnerJobs(jobs') = Append(RunnerJobs(jobs), "loop")
    BY <1>0, <2>1, <2>2, RunnerQueue, AppendProperties DEF RunnerOK
  <2>4. RoomOK' /\ RunnerClient' = "idle" /\ RunnerClient = "starting"
    <3>1. Len(jobs') <= Len(jobs) + Need(h)
      BY <1>0, <2>2, <2>3 DEF RunnerOK
    <3> QED
      BY <1>d, <2>1, <2>2, <2>3, <3>1 DEF RunnerClient
  <2>5. Runner!PostLoop
    BY <2>1, <2>3, <2>4 DEF Runner!PostLoop, RunnerThread
  <2> QED
    BY <2>4, <2>5 DEF Runner!Next, Runner!Client
<1>5. CASE PostJob("ui")
  <2> DEFINE j == h.job
  <2>1. Next1("ui", "post") /\ Done("ui") /\ jobs' = Append(jobs, j) /\ UNCHANGED <<check, running, thread, job>>
    BY <1>5 DEF PostJob, fcVars
  <2>2. ui # <<>> /\ h.op = "post" /\ Need(h) = 1
    BY <2>1 DEF Next1, Need, PostNames
  <2>3. j \in Jobs /\ j.kind \in StepKinds /\ RunnerJob(j) = j.kind
    <3>1. h \in PostOps
      BY <1>0, <2>1, UiNext, UiHead
    <3>2. j \in Jobs /\ j.kind \in StepKinds
      BY <3>1 DEF PostOps, StepJobs
    <3> QED
      BY <3>2, RunnerJobOf
  <2> HIDE DEF j
  <2>4. jobs' \in Seq(Jobs) /\ Len(jobs') = Len(jobs) + 1 /\ RunnerJobs(jobs') = Append(RunnerJobs(jobs), j.kind)
    BY <1>0, <2>1, <2>3, RunnerQueue, AppendProperties DEF RunnerOK
  <2>5. RoomOK' /\ RunnerClient' = "idle" /\ RunnerClient = "idle" /\ Len(RunnerJobs(jobs)) < MaxJobs
    <3>1. Len(jobs') <= Len(jobs) + Need(h)
      BY <1>0, <2>2, <2>4 DEF RunnerOK
    <3> QED
      BY <1>0, <1>d, <2>1, <2>2, <2>4, <3>1, ClientIdle, HasPlace DEF HalfNames
  <2>6. Runner!Post(j.kind)
    BY <2>1, <2>4, <2>5 DEF Runner!Post, Runner!HasRoom, RunnerThread
  <2> QED
    BY <2>3, <2>5, <2>6 DEF Runner!Next, Runner!Client
<1>6. CASE PostSync("ui")
  <2> DEFINE j == h.job
  <2>1. Next1("ui", "sync") /\ Replace("ui", <<Op("await")>>) /\ jobs' = Append(jobs, j) /\ UNCHANGED <<check, running, thread, job>>
    BY <1>6 DEF PostSync, fcVars
  <2>2. ui # <<>> /\ h.op = "sync" /\ Need(h) = 1
    BY <2>1 DEF Next1, Need, PostNames
  <2>3. j \in Jobs /\ RunnerJob(j) = "sync"
    <3>1. h \in SyncOps
      BY <1>0, <2>1, UiNext, UiHead
    <3>2. j \in Jobs /\ j \in SyncJobs
      BY <3>1 DEF SyncOps, SyncJobs
    <3> QED
      BY <3>2, RunnerJobOf
  <2> HIDE DEF j
  <2>4. jobs' \in Seq(Jobs) /\ Len(jobs') = Len(jobs) + 1 /\ RunnerJobs(jobs') = Append(RunnerJobs(jobs), "sync")
    BY <1>0, <2>1, <2>3, RunnerQueue, AppendProperties DEF RunnerOK
  <2>5. RunnerClient = "idle" /\ Len(RunnerJobs(jobs)) < MaxJobs
    BY <1>0, <2>2, ClientIdle, HasPlace DEF HalfNames
  <2>6. RoomOK' /\ RunnerClient' = "waiting"
    <3>1. Op("await") \in UiOps /\ Op("await").op = "await" /\ Need(Op("await")) = 0
      BY UiAtoms DEF PlainNames, Op, Need, PostNames
    <3>2. Len(jobs') + Need(Op("await")) <= Len(jobs) + Need(h)
      BY <1>0, <2>2, <2>4, <3>1 DEF RunnerOK
    <3>3. RoomOK' /\ todo'["ui"] # <<>> /\ Head(todo'["ui"]) = Op("await")
      BY <1>h, <2>1, <2>2, <2>4, <3>1, <3>2 DEF HalfNames
    <3> QED
      BY <3>1, <3>3 DEF RunnerClient, Next1
  <2>7. Runner!Sync
    BY <2>1, <2>4, <2>5, <2>6 DEF Runner!Sync, Runner!HasRoom, RunnerThread
  <2> QED
    BY <2>6, <2>7 DEF Runner!Next, Runner!Client
<1>7. ~BeginNextStep("ui") /\ ~Raise("ui")
  <2>1. ASSUME NEW n \in {"beginNextStep", "debugStateChanged", "frozenView"}, Next1("ui", n) PROVE FALSE
    BY <1>0, <2>1, UiNext, UiHead DEF PlainNames
  <2> QED
    BY <2>1 DEF BeginNextStep, Raise
<1>8. CASE TakeEvent
  <2> DEFINE q == Pull \o (IF Head(events).op = "frozenView" THEN <<[op |-> "onFrozenView", gen |-> Head(events).gen]>> ELSE <<>>)
  <2>1. Head(events) \in EventOps
    BY <1>0, <1>8, HeadAndTail DEF TakeEvent, StateOK
  <2>2. q \in Needing(0)
    BY <2>1, NeedingReplacements
  <2>3. ui = <<>> /\ todo' = [todo EXCEPT !["ui"] = q] /\ UNCHANGED <<check, running, jobs, thread, job>>
    BY <1>8 DEF TakeEvent, emuVars, fcVars
  <2> HIDE DEF q
  <2> QED
    BY <1>0, <2>2, <2>3, BeginUnseen
<1> QED
  BY <1>1, <1>2, <1>3, <1>4, <1>5, <1>6, <1>7, <1>8, UiUnseen DEF UiThread, SessionOp, ControllerOp, MicroOp

(* The operations begin with the room their programs need. *)
LEMMA CallRuns ==
  ASSUME TypeOK, RoomOK, NEW c \in frontend.calls, Call(c)
  PROVE  RoomOK' /\ UNCHANGED Runner!vars
<1>1. TodoOK /\ RunnerOK /\ c \in Operations
  BY ControllerAssumption DEF TypeOK, ControllerOK, ControllerAssumption
<1>2. Program(c) \in Needing(3)
  BY <1>1, NeedingProgram DEF JobsPerCall
<1>3. /\ todo["ui"] = <<>> /\ todo' = [todo EXCEPT !["ui"] = Program(c)] /\ Len(jobs) + 3 <= MaxJobs
      /\ UNCHANGED <<check, running, jobs, thread, job>>
  BY DEF Call, JobsPerCall, emuVars, fcVars
<1> QED
  BY <1>1, <1>2, <1>3, BeginUnseen

(* The emulation thread leaves the room there is. *)
LEMMA EmuRoom ==
  ASSUME RunnerOK, RoomOK, UNCHANGED <<jobs>>, todo'["ui"] = todo["ui"], Placed'
  PROVE  RoomOK' /\ RunnerClient' = RunnerClient /\ RunnerJobs(jobs)' = RunnerJobs(jobs)
  BY DEF RoomOK, Roomy, HalfFirst, RunnerClient, Next1, RunnerJobs

LEMMA EmuRuns ==
  ASSUME TypeOK, RoomOK, EmulationThread
  PROVE  RoomOK' /\ [Runner!Next]_(Runner!vars)
<1>0. TodoOK /\ StateOK /\ RunnerOK /\ SyncOK /\ Placed
  BY DEF TypeOK, RoomOK
<1> USE DEF RunnerThread, Placed, Executing, Owners
<1>1. CASE MicroOp("emu")
  <2>1. todo["emu"] # <<>> /\ UNCHANGED <<running, jobs, thread, job, check>> /\ todo'["ui"] = todo["ui"]
    <3>1. CASE SetFrozenLocked("emu")
      <4>1. "emu" \in Threads /\ "ui" \in Threads \ {"emu"}
        BY DEF Threads
      <4> QED
        BY <1>0, <3>1, <4>1, Locked DEF SetFrozenLocked, emuVars, fcVars
    <3>2. CASE StoreFlag("emu") \/ RefreshTraceFlags("emu") \/ BeginNextStep("emu") \/ Raise("emu")
      <4>1. todo["emu"] # <<>> /\ Done("emu") /\ UNCHANGED <<running, jobs, thread, job, check>>
        BY <3>2 DEF StoreFlag, RefreshTraceFlags, BeginNextStep, Raise, emuVars, fcVars, Next1
      <4> QED
        BY <1>0, <4>1, EmuDone
    <3> QED
      BY <1>0, <1>1, <3>1, <3>2, EmuMicroOps
  <2>2. RoomOK' /\ RunnerClient' = RunnerClient /\ RunnerJobs(jobs)' = RunnerJobs(jobs)
    BY <1>0, <2>1, EmuRoom
  <2>3. RunnerThread' = RunnerThread /\ RunnerJob(job)' = RunnerJob(job)
    BY <2>1 DEF RunnerJob
  <2> QED
    BY <2>1, <2>2, <2>3 DEF Runner!vars
<1>2. CASE TakeJob
  <2>1. /\ jobs # <<>> /\ thread = "wait" /\ jobs' = Tail(jobs) /\ UNCHANGED <<running, todo, check>> /\ job = NoJob
        /\ \/ Head(jobs).kind = "loop" /\ thread' = "enter" /\ job' = NoJob
           \/ Head(jobs).kind # "loop" /\ thread' = "job" /\ job' = Head(jobs)
    BY <1>0, <1>2 DEF TakeJob, fcVars, sessionVars
  <2>2. jobs \in Seq(Jobs) /\ Head(jobs) \in Jobs /\ Tail(jobs) \in Seq(Jobs) /\ Len(Tail(jobs)) = Len(jobs) - 1 /\ Len(jobs) \in Nat
    BY <1>0, <2>1, HeadTailProperties DEF RunnerOK
  <2>3. /\ RunnerJobs(jobs) # <<>> /\ Head(RunnerJobs(jobs)) = RunnerJob(Head(jobs))
        /\ Tail(RunnerJobs(jobs)) = RunnerJobs(jobs')
    BY <2>1, <2>2, RunnerQueue
  <2>4. RoomOK' /\ RunnerClient' = RunnerClient
    <3>1. Roomy'
      <4>1. Fits(todo["ui"], MaxJobs - Len(jobs)) /\ todo["ui"] \in Seq(UiOps)
        BY <1>0 DEF RoomOK, Roomy, TodoOK
      <4>2. MaxJobs - Len(jobs) \in Int /\ MaxJobs - Len(jobs') \in Int /\ MaxJobs - Len(jobs) <= MaxJobs - Len(jobs')
        BY <2>1, <2>2, SessionAssumption DEF SessionAssumption
      <4>3. Fits(todo["ui"], MaxJobs - Len(jobs'))
        BY <4>1, <4>2, FitsMore
      <4> QED
        BY <2>1, <4>3 DEF Roomy
    <3> QED
      BY <1>0, <2>1, <3>1 DEF RoomOK, HalfFirst, RunnerClient, Next1
  <2>5. CASE Head(jobs).kind = "loop"
    <3>1. RunnerJob(Head(jobs)) = "loop" /\ thread' = "enter" /\ job' = job
      BY <2>1, <2>2, <2>5, RunnerJobOf
    <3>2. Runner!TakeLoop
      BY <2>1, <2>3, <2>4, <3>1 DEF Runner!TakeLoop
    <3> QED
      BY <2>4, <3>2 DEF Runner!Next, Runner!Thread
  <2>6. CASE Head(jobs).kind # "loop"
    <3>1. RunnerJob(Head(jobs)) # "loop" /\ thread' = "job" /\ job' = Head(jobs)
      BY <2>1, <2>2, <2>6, RunnerJobOf
    <3>2. Runner!TakeJob
      BY <2>1, <2>3, <2>4, <3>1 DEF Runner!TakeJob
    <3> QED
      BY <2>4, <3>2 DEF Runner!Next, Runner!Thread
  <2> QED
    BY <2>5, <2>6
<1>3. CASE FinishJob
  <2>1. /\ thread = "posted" /\ thread' = "wait" /\ job' = NoJob /\ UNCHANGED <<check, running, jobs>>
        /\ IF job.kind \in StepKinds THEN UNCHANGED todo ELSE Done("ui")
    BY <1>3 DEF FinishJob, fcVars
  <2>2. job \in Jobs /\ (job.kind \in StepKinds \/ job \in SyncJobs)
    BY <1>0, <2>1 DEF RunnerOK, StepJobs, SyncJobs
  <2>3. CASE job.kind \in StepKinds
    <3>1. RunnerJob(job) # "sync" /\ UNCHANGED todo
      BY <2>1, <2>2, <2>3, RunnerJobOf
    <3>2. RoomOK' /\ RunnerClient' = RunnerClient /\ RunnerJobs(jobs)' = RunnerJobs(jobs)
      BY <1>0, <2>1, <3>1, EmuRoom
    <3>3. Runner!FinishJob
      BY <2>1, <3>1, <3>2, RunnerJobOf DEF Runner!FinishJob
    <3> QED
      BY <3>2, <3>3 DEF Runner!Next, Runner!Thread
  <2>4. CASE job.kind \notin StepKinds
    <3>1. RunnerJob(job) = "sync" /\ Done("ui") /\ Awaiting
      BY <1>0, <2>1, <2>2, <2>4, RunnerJobOf DEF SyncOK
    <3>2. todo["ui"] # <<>> /\ todo["ui"] \in Seq(UiOps) /\ Head(todo["ui"]).op = "await"
      BY <1>0, <3>1 DEF Awaiting, Next1, TodoOK
    <3>3. todo'["ui"] = Tail(todo["ui"]) /\ Tail(todo["ui"]) \in Seq(UiOps) /\ ~Has(Tail(todo["ui"]), Halves)
      BY <1>0, <3>1, <3>2, UiDone, HeadAndTail DEF RoomOK, HalfFirst
    <3>4. HalfFirst'
      BY <3>3, Begun DEF HalfFirst
    <3>5. Roomy'
      <4>1. Need(Head(todo["ui"])) = 0 /\ MaxJobs - Len(jobs) \in Int /\ MaxJobs - Len(jobs) - 0 = MaxJobs - Len(jobs)
        BY <1>0, <3>2, SessionAssumption DEF SessionAssumption, RunnerOK, Need, PostNames
      <4>2. Fits(todo["ui"], MaxJobs - Len(jobs))
        BY DEF RoomOK, Roomy
      <4>3. Fits(Tail(todo["ui"]), MaxJobs - Len(jobs) - 0)
        BY <3>2, <4>1, <4>2, FitsTail, Zenon
      <4> QED
        BY <2>1, <3>3, <4>1, <4>3 DEF Roomy
    <3>6. RunnerClient' = "idle"
      <4>1. todo'["ui"] = <<>> \/ Head(todo'["ui"]).op \notin HalfNames
        BY <3>3, NotHalf
      <4> QED
        BY <4>1 DEF RunnerClient, Next1, HalfNames
    <3>7. RoomOK'
      BY <1>0, <2>1, <3>4, <3>5 DEF RoomOK
    <3>8. Runner!FinishJob
      BY <2>1, <3>1, <3>6, RunnerJobOf DEF Runner!FinishJob, RunnerJobs
    <3> QED
      BY <3>7, <3>8 DEF Runner!Next, Runner!Thread
  <2> QED
    BY <2>3, <2>4
<1>4. ASSUME UNCHANGED <<jobs, todo>>, Placed'
      PROVE  /\ RoomOK' /\ RunnerClient' = RunnerClient /\ RunnerJobs(jobs)' = RunnerJobs(jobs)
             /\ job' = job => RunnerJob(job)' = RunnerJob(job)
  BY <1>0, <1>4, EmuRoom DEF RunnerJob
<1>5. CASE ExecuteJob
  <2>1. thread = "job" /\ thread' = "posted" /\ UNCHANGED <<check, running, jobs, job, todo>>
    BY <1>5 DEF ExecuteJob
  <2> QED
    BY <1>0, <1>4, <2>1 DEF Runner!vars
<1>6. CASE LoopTest
  <2>1. thread \in {"enter", "top"} /\ thread' = (IF running THEN "batch" ELSE "wait") /\ UNCHANGED <<check, running, jobs, job, todo>>
    BY <1>6 DEF LoopTest, fcVars, sessionVars
  <2>2. Placed' /\ check = "idle" /\ running \in BOOLEAN
    BY <1>0, <2>1 DEF RunnerOK
  <2>3. Runner!LoopTest
    BY <1>4, <2>1, <2>2 DEF Runner!LoopTest
  <2> QED
    BY <1>4, <2>1, <2>2, <2>3 DEF Runner!Next, Runner!Thread
<1>7. CASE Instruction
  <2>1. thread = "batch" /\ check = "idle" /\ check' = "pc" /\ UNCHANGED <<running, jobs, thread, job, todo>>
    BY <1>7 DEF Instruction, Step
  <2> QED
    BY <1>0, <1>4, <2>1 DEF Runner!vars
<1>8. CASE CheckFreeze
  <2>1. thread = "batch" /\ check \notin Owners /\ UNCHANGED <<running, jobs, thread, job, todo>>
    BY <1>8 DEF CheckFreeze, CheckStep, TestPcArmed, ClearPcArmed, TestScanArmed, MarkSeen, TestLeftLoop, DisarmFired,
                emuVars, sessionVars
  <2>2. CASE check' \in Owners
    <3>1. Runner!BatchStops
      BY <1>0, <1>4, <2>1, <2>2 DEF Runner!BatchStops
    <3> QED
      BY <1>0, <1>4, <2>1, <3>1 DEF Runner!Next, Runner!Thread
  <2>3. CASE check' \notin Owners
    BY <1>0, <1>4, <2>1, <2>3 DEF Runner!vars
  <2> QED
    BY <2>2, <2>3
<1>9. CASE BatchEnds
  <2>1. thread = "batch" /\ check = "idle" /\ thread' = "pause" /\ UNCHANGED <<check, running, jobs, job, todo>>
    BY <1>9 DEF BatchEnds, fcVars, sessionVars
  <2>2. Runner!BatchEnds
    BY <1>0, <1>4, <2>1 DEF Runner!BatchEnds
  <2> QED
    BY <1>0, <1>4, <2>1, <2>2 DEF Runner!Next, Runner!Thread
<1>10. CASE FreezeFires
  <2>1. /\ thread = "batch" /\ check \in Owners /\ thread' = "fired" /\ check' = "idle" /\ running' = FALSE
        /\ UNCHANGED <<jobs, job>> /\ todo' = [todo EXCEPT !["emu"] = OnFreezeFired(check)]
    BY <1>10 DEF FreezeFires
  <2>2. todo'["ui"] = todo["ui"]
    BY <1>0, <2>1 DEF TodoOK, Threads
  <2>3. RoomOK' /\ RunnerClient' = RunnerClient /\ RunnerJobs(jobs)' = RunnerJobs(jobs) /\ RunnerJob(job)' = RunnerJob(job)
    BY <1>0, <2>1, <2>2, EmuRoom DEF RunnerJob
  <2>4. Runner!StoreStopped
    BY <2>1, <2>3 DEF Runner!StoreStopped
  <2> QED
    BY <2>3, <2>4 DEF Runner!Next, Runner!Thread
<1>11. CASE LeaveLoop
  <2>1. thread = "fired" /\ thread' = "wait" /\ UNCHANGED <<check, running, jobs, job, todo>>
    BY <1>11 DEF LeaveLoop, fcVars, sessionVars
  <2>2. Runner!LeaveLoop
    BY <1>0, <1>4, <2>1 DEF Runner!LeaveLoop
  <2> QED
    BY <1>0, <1>4, <2>1, <2>2 DEF Runner!Next, Runner!Thread
<1>12. CASE BatchDone
  <2>1. thread = "pause" /\ thread' = "top" /\ UNCHANGED <<check, running, jobs, job, todo>>
    BY <1>12 DEF BatchDone, fcVars, sessionVars
  <2>2. Runner!BatchDone
    BY <1>0, <1>4, <2>1 DEF Runner!BatchDone
  <2> QED
    BY <1>0, <1>4, <2>1, <2>2 DEF Runner!Next, Runner!Thread
<1> QED
  BY <1>1, <1>2, <1>3, <1>5, <1>6, <1>7, <1>8, <1>9, <1>10, <1>11, <1>12 DEF EmulationThread

(* The session with its instructions, checks, events and panels left out is *)
(* the runner of EmulationRunner: its UI thread is that module's one client,*)
(* and never calls it while it is in the middle of a start() or a sync().   *)
THEOREM SessionIsRunner == Spec => Runner!Init /\ [][Runner!Next]_(Runner!vars)
<1>1. Init => RoomOK /\ Runner!Init
  <2> SUFFICES ASSUME Init PROVE RoomOK /\ Runner!Init
    OBVIOUS
  <2>1. todo["ui"] = Start /\ jobs = <<>> /\ thread = "wait" /\ job = NoJob /\ check = "idle" /\ running = FALSE
    BY DEF Init, FreezeInit
  <2>2. Start \in Seq(UiOps) /\ ~Has(Start, Halves) /\ Fits(Start, 1)
    BY NeedingParts DEF Needing
  <2>3. Roomy
    <3>1. MaxJobs - Len(jobs) \in Int /\ 1 <= MaxJobs - Len(jobs)
      BY <2>1, SessionAssumption DEF SessionAssumption
    <3>2. Fits(Start, MaxJobs - Len(jobs))
      BY <2>2, <3>1, FitsMore
    <3> QED
      BY <2>1, <3>2 DEF Roomy
  <2>4. HalfFirst
    BY <2>1, <2>2, Begun DEF HalfFirst
  <2>5. RunnerClient = "idle"
    <3>1. todo["ui"] = <<>> \/ Head(todo["ui"]).op \notin HalfNames
      BY <2>1, <2>2, NotHalf
    <3> QED
      BY <3>1, ClientIdle
  <2>6. RunnerJobs(jobs) = <<>> /\ RunnerThread = "wait" /\ RunnerJob(job) = "none"
    <3>1. <<>> \in Seq(Jobs)
      BY EmptySeq
    <3>2. RunnerJobs(jobs) = <<>>
      BY <2>1, <3>1, RunnerQueue
    <3> QED
      BY <2>1, <3>2, RunnerJobOf DEF RunnerThread
  <2> QED
    BY <2>1, <2>3, <2>4, <2>5, <2>6 DEF RoomOK, Placed, Runner!Init
<1>2. TypeOK /\ RoomOK /\ [Next]_vars => RoomOK' /\ [Runner!Next]_(Runner!vars)
  <2> SUFFICES ASSUME TypeOK, RoomOK, [Next]_vars PROVE RoomOK' /\ [Runner!Next]_(Runner!vars)
    OBVIOUS
  <2>1. CASE Emulation
    BY <2>1, EmuRuns DEF Emulation
  <2>2. CASE UNCHANGED vars
    BY <2>2 DEF vars, fcVars, emuVars, sessionVars, RoomOK, HalfFirst, Roomy, Placed, Executing, Runner!vars,
                RunnerJobs, RunnerThread, RunnerJob, RunnerClient, Next1
  <2> QED
    BY <2>1, <2>2, UiRuns, CallRuns DEF Next
<1> QED
  BY <1>1, <1>2, TypeCorrect, PTL DEF Spec
=============================================================================
